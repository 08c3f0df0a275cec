--------------------------- MODULE ServiceProofs ---------------------------
(***************************************************************************)
(* Proofs about Service: for any number of calls, any requests, policies,  *)
(* limits and faults, what is answered is true, a key is written once, and *)
(* nothing is written that was not let through.                            *)
(***************************************************************************)
EXTENDS ServiceInvariant, FiniteSetTheorems, SequenceTheorems, TLAPS

USE DEF Calls

-----------------------------------------------------------------------------
(***************************************************************************)
(* What an intent asks for.                                                *)
(***************************************************************************)

(***************************************************************************)
(* The operation of an item is none that stands for a batch or a denial,   *)
(* and its transaction has errors of its own.                              *)
(***************************************************************************)
LEMMA OperationFacts ==
    ASSUME NEW o \in Operation
    PROVE  o.op \in OperationTypes /\ o.op \notin {"batch", "policy_denied", "rejected"}
  BY DEF Operation, OperationTypes, BusinessErrors, PostOperation, AuthorizeOperation,
         CaptureOperation, VoidOperation, ConvertOperation, RevertOperation, AmendOperation,
         SetMetadataOperation, DeleteMetadataOperation, InsertSchemaOperation

(***************************************************************************)
(* The hash of an input is an operation.                                   *)
(***************************************************************************)
LEMMA HashFacts ==
    ASSUME NEW o \in Operation
    PROVE  InputHash(o) \in Operation
  <1>1. CASE o.op = "convert"
    <2>1. o \in ConvertOperation
      BY <1>1 DEF Operation, PostOperation, AuthorizeOperation,
         CaptureOperation, VoidOperation, ConvertOperation, RevertOperation, AmendOperation,
         SetMetadataOperation, DeleteMetadataOperation, InsertSchemaOperation
    <2>2. NoText \in Text
      BY DEF NoText, Text
    <2>3. [o EXCEPT !.slippage_account = NoText, !.slippage_amount = NoText] \in ConvertOperation
      BY <2>1, <2>2 DEF ConvertOperation
    <2> QED
      BY <1>1, <2>3 DEF InputHash, Operation
  <1>2. CASE o.op # "convert"
    BY <1>2 DEF InputHash
  <1> QED
    BY <1>1, <1>2

(***************************************************************************)
(* A submission past its checks has a ledger and a list of items; one that *)
(* is no batch has one item, its own operation under its own key.          *)
(***************************************************************************)
LEMMA SubmissionFacts ==
    ASSUME Typed, NEW c \in Calls, Passed(c), call[c].pc \in Submitting
    PROVE  /\ LedgerOf(c) \in Ledgers
           /\ ItemsOf(c) \in Seq(Nested)
           /\ IsBatch(c) => ModeOf(c) \in Mode
           /\ ~IsBatch(c) => /\ ModeOf(c) = "SINGLE" /\ Len(ItemsOf(c)) = 1
                             /\ ItemsOf(c)[1].key = Req(c).intent.key
                             /\ ItemsOf(c)[1].operation = Operation1(c)
  <1>1. call[c].req \in Request
    BY DEF Typed, CallState
  <1>2. call[c].req.intent \in Intent /\ LedgerOf(c) \in Ledgers
    BY <1>1 DEF Passed, Request, LedgerOf, Req
  <1>3. CASE IsBatch(c)
    <2>1. Operation1(c) \in BatchOperation
      BY <1>2, <1>3, OperationFacts DEF Intent, Operation1, Req, IsBatch
    <2> QED
      BY <1>2, <1>3, <2>1 DEF ItemsOf, ModeOf, BatchOperation
  <1>4. CASE ~IsBatch(c)
    <2>1. Operation1(c) \in Operation
      BY <1>2, <1>4 DEF Intent, Operation1, Req, IsBatch, BatchOperation
    <2>2. [key |-> Req(c).intent.key, operation |-> Operation1(c)] \in Nested
      BY <1>2, <2>1 DEF Nested, Intent, Req
    <2> QED
      BY <1>2, <1>4, <2>2 DEF ItemsOf, ModeOf
  <1> QED
    BY <1>3, <1>4

-----------------------------------------------------------------------------
(***************************************************************************)
(* Frames: what a step of one call leaves true of the others.              *)
(***************************************************************************)
LogGrows ==
    /\ Len(log) <= Len(log')
    /\ \A n \in DOMAIN log : log'[n] = log[n]

PoliciesGrow ==
    \A l \in Ledgers :
        /\ Len(policies[l]) <= Len(policies'[l])
        /\ \A v \in 1..Len(policies[l]) : policies'[l][v] = policies[l][v]

\* A call that has its request keeps it.
Keeps(c) ==
    /\ call'[c].pc # "free"
    /\ call'[c].req = call[c].req
    /\ call'[c].since = call[c].since

(***************************************************************************)
(* The verdict of a version of the policy stays what it was.               *)
(***************************************************************************)
LEMMA VerdictsStay ==
    ASSUME Typed, PoliciesGrow, NEW c \in Calls, call'[c].req = call[c].req,
           LedgerOf(c) \in Ledgers, NEW v \in 0..Len(policies[LedgerOf(c)])
    PROVE  Verdict(c, v)' = Verdict(c, v)
  <1>1. CASE v = 0
    BY <1>1 DEF Verdict
  <1>2. CASE v \in 1..Len(policies[LedgerOf(c)])
    <2>1. policies'[LedgerOf(c)][v] = policies[LedgerOf(c)][v]
      BY <1>2 DEF PoliciesGrow
    <2> QED
      BY <2>1 DEF Verdict, LedgerOf, Req, IdentityOf, Operation1
  <1> QED
    BY <1>1, <1>2 DEF Typed

(***************************************************************************)
(* What a call wrote is what it wrote before, unless it writes now.        *)
(***************************************************************************)
LEMMA OwnStays ==
    ASSUME Typed, Typed', LogGrows, NEW d \in Calls,
           \A n \in DOMAIN log' : n \notin DOMAIN log => log'[n].call # d
    PROVE  Own(d)' = Own(d) /\ Effects(d)' = Effects(d)
  <1>1. DOMAIN log \subseteq DOMAIN log'
    BY DEF Typed, LogGrows
  <1> QED
    BY <1>1 DEF LogGrows, Own, Effects

(***************************************************************************)
(* A step of another call, of the policies or of the clock.                *)
(***************************************************************************)
LEMMA OtherCall ==
    ASSUME Typed, Typed', LogGrows, PoliciesGrow, NEW d \in Calls, CallInv(d),
           call'[d] = call[d],
           \A n \in DOMAIN log' : n \notin DOMAIN log => log'[n].call # d
    PROVE  CallInv(d)'
  <1>1. Own(d)' = Own(d) /\ Effects(d)' = Effects(d)
    BY OwnStays
  <1>2. DOMAIN log \subseteq DOMAIN log'
    BY DEF Typed, LogGrows
  <1>3. Req(d)' = Req(d) /\ LedgerOf(d)' = LedgerOf(d) /\ Operation1(d)' = Operation1(d)
        /\ (AuthorizeLedger(d)' <=> AuthorizeLedger(d)) /\ (IsBatch(d)' <=> IsBatch(d))
    BY DEF Req, LedgerOf, Operation1, AuthorizeLedger, IdentityOf, IsBatch
  <1>4. ModeOf(d)' = ModeOf(d) /\ ItemsOf(d)' = ItemsOf(d)
    BY <1>3 DEF ModeOf, ItemsOf
  <1>5. (Submitted(d)' <=> Submitted(d)) /\ (Succeeded(d)' <=> Succeeded(d))
    BY <1>3 DEF Submitted, Succeeded
  <1>6. LedgerOf(d) \in Ledgers \cup {None}
    BY DEF Typed, CallState, Request, LedgerOf, Req
  <1>7. Passed(d)'
    <2>1. LedgerOf(d) # None => Len(policies[LedgerOf(d)]) <= Len(policies'[LedgerOf(d)])
      BY <1>6 DEF PoliciesGrow
    <2>2. ASSUME call[d].pc \in Planning
          PROVE  \E v \in call[d].since..Len(policies'[LedgerOf(d)]) : Verdict(d, v)' = "allowed"
      <3>1. LedgerOf(d) \in Ledgers /\ call[d].since \in Nat
        BY <1>6, <2>2 DEF CallInv, Passed, Submitting, Typed, CallState
      <3>2. PICK v \in call[d].since..Len(policies[LedgerOf(d)]) : Verdict(d, v) = "allowed"
        BY <2>2 DEF CallInv, Passed
      <3>3. /\ Len(policies[LedgerOf(d)]) \in Nat /\ Len(policies'[LedgerOf(d)]) \in Nat
            /\ Len(policies[LedgerOf(d)]) <= Len(policies'[LedgerOf(d)])
        BY <3>1 DEF Typed, PoliciesGrow
      <3>4. v \in 0..Len(policies[LedgerOf(d)]) /\ call'[d].req = call[d].req
        BY <3>1, <3>2, <3>3
      <3>5. Verdict(d, v)' = Verdict(d, v)
        BY <3>1, <3>4, VerdictsStay
      <3>6. v \in call[d].since..Len(policies'[LedgerOf(d)]) /\ Verdict(d, v)' = "allowed"
        BY <3>1, <3>2, <3>3, <3>5
      <3> QED
        BY <3>6
    <2>3. LedgerOf(d) # None => Len(policies[LedgerOf(d)]) \in Nat /\ Len(policies'[LedgerOf(d)]) \in Nat
      BY <1>6 DEF Typed
    <2> QED
      BY <1>3, <2>1, <2>2, <2>3, <1>6 DEF CallInv, Passed, Typed, CallState
  <1>8. Placed(d)'
    BY <1>1, <1>2, <1>3, <1>4 DEF CallInv, Placed, LogGrows, Own
  <1>9. Refused(d)'
    BY <1>1, <1>5 DEF CallInv, Refused
  <1>10. Single(d)'
    <2> SUFFICES ASSUME Succeeded(d), ~IsBatch(d) PROVE Single(d)'
      BY <1>3, <1>5 DEF Single
    <2>1. Single(d)
      BY DEF CallInv
    <2>2. call[d].event \in DOMAIN log =>
            call[d].event \in DOMAIN log' /\ log'[call[d].event] = log[call[d].event]
      BY <1>2 DEF LogGrows
    <2> QED
      BY <1>1, <1>3, <1>5, <2>1, <2>2, Zenon DEF Single
  <1>11. Batched(d)'
    <2> SUFFICES ASSUME IsBatch(d) PROVE Batched(d)'
      BY <1>3 DEF Batched
    <2>1. Batched(d)
      BY DEF CallInv
    <2>2. ASSUME NEW i \in DOMAIN call[d].results
          PROVE  call[d].results[i] \in DOMAIN log =>
                    /\ call[d].results[i] \in DOMAIN log'
                    /\ log'[call[d].results[i]] = log[call[d].results[i]]
      BY <1>2 DEF LogGrows
    <2> QED
      BY <1>1, <1>4, <1>5, <2>1, <2>2, Zenon DEF Batched, KeyOf
  <1> QED
    BY <1>7, <1>8, <1>9, <1>10, <1>11 DEF CallInv

(***************************************************************************)
(* An event stays what it was while its call keeps its request.            *)
(***************************************************************************)
LEMMA EventStays ==
    ASSUME Typed, Typed', LogGrows, PoliciesGrow, NEW n \in DOMAIN log, EventInv(n),
           NEW c \in Calls, c = log[n].call, Keeps(c), call'[c].admitted \in Admitted
    PROVE  EventInv(n)'
  <1>1. log[n].ledger \in Ledgers /\ log[n].version \in Nat /\ log'[n] = log[n]
    <2>1. log[n] \in EventState /\ log'[n] = log[n]
      BY DEF Typed, LogGrows
    <2> QED
      BY <2>1 DEF EventState
  <1>2. LedgerOf(c)' = LedgerOf(c) /\ (AuthorizeLedger(c)' <=> AuthorizeLedger(c)) /\ Req(c)' = Req(c)
    BY DEF Keeps, LedgerOf, AuthorizeLedger, IdentityOf, Req
  <1>3. LedgerOf(c) = log[n].ledger
    BY DEF EventInv
  <1>4. Len(policies[LedgerOf(c)]) \in Nat /\ Len(policies'[LedgerOf(c)]) \in Nat
        /\ Len(policies[LedgerOf(c)]) <= Len(policies'[LedgerOf(c)])
    BY <1>1, <1>3 DEF Typed, PoliciesGrow
  <1>5. ASSUME log[n].type # "policy_denied"
        PROVE  \E v \in call[c].since..log[n].version : Verdict(c, v)' = "allowed"
    <2>1. PICK v \in call[c].since..log[n].version : Verdict(c, v) = "allowed"
      BY <1>5 DEF EventInv
    <2>2. v \in 0..Len(policies[LedgerOf(c)]) /\ LedgerOf(c) \in Ledgers
      <3>1. call[c].since \in Nat
        BY <1>1 DEF Typed, CallState
      <3>2. log[n].version <= Len(policies[LedgerOf(c)])
        BY <1>3 DEF EventInv
      <3> QED
        BY <1>1, <1>3, <1>4, <2>1, <3>1, <3>2
    <2>3. Verdict(c, v)' = Verdict(c, v)
      BY <1>1, <2>2, VerdictsStay DEF Keeps
    <2> QED
      BY <2>1, <2>3
  <1>6. log'[n].version <= Len(policies'[log'[n].ledger])
    BY <1>1, <1>3, <1>4 DEF EventInv
  <1> QED
    BY <1>1, <1>2, <1>3, <1>5, <1>6 DEF EventInv, Keeps

(***************************************************************************)
(* A step of one call: what it must show of itself and of what it wrote.   *)
(***************************************************************************)
LEMMA StepOfCall ==
    ASSUME ServiceInv, NEW c \in Calls, Typed', LogGrows, UNCHANGED policies,
           \A d \in Calls : d # c => call'[d] = call[d],
           Keeps(c), Own(c) # {} => call'[c].admitted \in Admitted,
           \A n \in DOMAIN log' : n \notin DOMAIN log => log'[n].call = c /\ EventInv(n)',
           CallInv(c)', UniqueKeys'
    PROVE  ServiceInv'
  <1>1. PoliciesGrow
    BY DEF PoliciesGrow, ServiceInv, Typed
  <1>2. ASSUME NEW d \in Calls PROVE CallInv(d)'
    <2>1. CASE d = c
      BY <2>1
    <2>2. CASE d # c
      BY <1>1, <2>2, OtherCall DEF ServiceInv
    <2> QED
      BY <2>1, <2>2
  <1>3. ASSUME NEW n \in DOMAIN log' PROVE EventInv(n)'
    <2>1. CASE n \notin DOMAIN log
      BY <2>1
    <2>2. CASE n \in DOMAIN log
      <3>1. PICK d \in Calls : d = log[n].call
        <4>1. log[n] \in EventState
          BY <2>2 DEF ServiceInv, Typed
        <4> QED
          BY <4>1 DEF EventState
      <3>2. EventInv(n)
        BY <2>2 DEF ServiceInv
      <3>3. Keeps(d) /\ call'[d].admitted \in Admitted
        <4>1. CASE d = c
          BY <2>2, <3>1, <4>1 DEF Own
        <4>2. CASE d # c
          BY <3>1, <3>2, <4>2 DEF Keeps, EventInv
        <4> QED
          BY <4>1, <4>2
      <3> QED
        BY <1>1, <2>2, <3>1, <3>2, <3>3, EventStays DEF ServiceInv
    <2> QED
      BY <2>1, <2>2
  <1> QED
    BY <1>2, <1>3 DEF ServiceInv

(***************************************************************************)
(* A step that writes nothing.                                             *)
(***************************************************************************)
LEMMA SilentStep ==
    ASSUME ServiceInv, NEW c \in Calls, Typed', UNCHANGED <<log, policies>>,
           \A d \in Calls : d # c => call'[d] = call[d],
           Keeps(c), Own(c) # {} => call'[c].admitted \in Admitted, CallInv(c)'
    PROVE  ServiceInv'
  <1>1. LogGrows
    BY DEF LogGrows, ServiceInv, Typed
  <1>2. UniqueKeys'
    BY DEF ServiceInv, UniqueKeys
  <1> QED
    BY <1>1, <1>2, StepOfCall

(***************************************************************************)
(* A call that has written is one that was admitted.                       *)
(***************************************************************************)
LEMMA WritersAreAdmitted ==
    ASSUME ServiceInv, NEW c \in Calls, Own(c) # {}
    PROVE  call[c].admitted \in Admitted /\ call[c].pc # "free"
  <1>1. PICK n \in DOMAIN log : log[n].call = c
    BY DEF Own
  <1> QED
    BY <1>1 DEF ServiceInv, EventInv

(***************************************************************************)
(* A call is answered: with a refusal only if it wrote nothing, and with   *)
(* OK only if it is no Submit.                                             *)
(***************************************************************************)
LEMMA AnsweredCall ==
    ASSUME Typed, NEW c \in Calls, CallInv(c), InFlight(c), UNCHANGED <<log, policies>>,
           NEW code \in Codes, call'[c] = [call[c] EXCEPT !.pc = "done", !.code = code],
           code = "OK" => Req(c).method # "Submit",
           code \in Definite => Own(c) = {}
    PROVE  CallInv(c)'
  <1>0. call[c] \in CallState
    BY DEF Typed
  <1>1. /\ call'[c].pc = "done" /\ call'[c].code = code /\ call'[c].req = call[c].req
        /\ call'[c].since = call[c].since /\ call'[c].results = call[c].results
    BY <1>0 DEF CallState
  <1>2. /\ Req(c)' = Req(c) /\ LedgerOf(c)' = LedgerOf(c) /\ Operation1(c)' = Operation1(c)
        /\ (IsBatch(c)' <=> IsBatch(c)) /\ Own(c)' = Own(c) /\ Effects(c)' = Effects(c)
    BY <1>1 DEF Req, LedgerOf, Operation1, IsBatch, Own, Effects
  <1>3. ModeOf(c)' = ModeOf(c) /\ ItemsOf(c)' = ItemsOf(c)
    BY <1>2 DEF ModeOf, ItemsOf
  <1>4. Effects(c) \subseteq Own(c)
    BY DEF Effects, Own
  <1>5. Passed(c)'
    BY <1>1, <1>2 DEF CallInv, Passed, InFlight, Planning, Submitting, Serving, Running
  <1>6. Placed(c)'
    BY <1>1, <1>2 DEF CallInv, Placed, InFlight, Early, Own
  <1>7. Refused(c)'
    BY <1>1, <1>2, <1>4 DEF Refused, Submitted
  <1>8. Single(c)'
    BY <1>1, <1>2 DEF Single, Succeeded, Submitted
  <1>9. Batched(c)'
    <2>1. ~Succeeded(c)'
      BY <1>1, <1>2 DEF Succeeded, Submitted
    <2>2. ModeOf(c) = "ALL_OR_NOTHING" => Effects(c) = {}
      BY <1>0, <1>4 DEF CallInv, Placed, InFlight, Early, CallState, Running, Serving, Submitting, Planning
    <2>3. Cardinality({}) = 0
      BY FS_EmptySet
    <2> QED
      BY <1>1, <1>2, <1>3, <2>1, <2>2, <2>3 DEF CallInv, Batched, KeyOf
  <1> QED
    BY <1>5, <1>6, <1>7, <1>8, <1>9 DEF CallInv

(***************************************************************************)
(* Every field of a call has its type after it is answered.                *)
(***************************************************************************)
LEMMA AnswerFacts ==
    ASSUME Typed, NEW c \in Calls, NEW code \in Codes, Answer(c, code)
    PROVE  /\ call' \in [Calls -> CallState]
           /\ call'[c] = [call[c] EXCEPT !.pc = "done", !.code = code]
           /\ \A d \in Calls : d # c => call'[d] = call[d]
  <1>1. call[c] \in CallState
    BY DEF Typed
  <1>2. [call[c] EXCEPT !.pc = "done", !.code = code] \in CallState
    BY <1>1 DEF CallState
  <1>3. call' = [call EXCEPT ![c] = [call[c] EXCEPT !.pc = "done", !.code = code]]
    BY <1>1 DEF Typed, Answer, CallState
  <1> QED
    BY <1>2, <1>3 DEF Typed

(***************************************************************************)
(* A step that ends with such an answer.                                   *)
(***************************************************************************)
LEMMA AnswerStep ==
    ASSUME ServiceInv, NEW c \in Calls, InFlight(c), UNCHANGED <<log, policies, now>>,
           NEW code \in Codes, Answer(c, code),
           code = "OK" => Req(c).method # "Submit",
           code \in Definite => Own(c) = {}
    PROVE  ServiceInv'
  <1>1. /\ call' \in [Calls -> CallState]
        /\ call'[c] = [call[c] EXCEPT !.pc = "done", !.code = code]
        /\ \A d \in Calls : d # c => call'[d] = call[d]
    BY AnswerFacts DEF ServiceInv
  <1>2. Typed'
    BY <1>1 DEF ServiceInv, Typed
  <1>3. CallInv(c)'
    BY <1>1, AnsweredCall DEF ServiceInv
  <1>4. call[c] \in CallState
    BY DEF ServiceInv, Typed
  <1>5. Keeps(c) /\ call'[c].admitted = call[c].admitted
    BY <1>1, <1>4 DEF Keeps, CallState
  <1> QED
    BY <1>1, <1>2, <1>3, <1>5, SilentStep, WritersAreAdmitted

-----------------------------------------------------------------------------
(***************************************************************************)
(* The tables of answers: a read never answers Submit, and an error of the *)
(* planner is never OK.                                                    *)
(***************************************************************************)
LEMMA ReadsFacts ==
    /\ "Submit" \notin DOMAIN Reads
    /\ \A m \in DOMAIN Reads : Reads[m] \subseteq Codes
    BY DEF Reads, Gets, Lists, Codes

(***************************************************************************)
(* Every error of the planner has a code, and none of them is OK.          *)
(***************************************************************************)
LEMMA ErrorFacts ==
    /\ \A e \in DOMAIN MapPlannerError : MapPlannerError[e] \in Codes \ {"OK"}
    /\ \A op \in OperationTypes : BusinessErrors[op] \subseteq DOMAIN MapPlannerError
    /\ \A l \in Ledgers : LedgerErrors(l) \subseteq DOMAIN MapPlannerError
    /\ {"Other", "ErrInvalidIdempotencyInput", "ErrIdempotencyKeyConflict"}
          \subseteq DOMAIN MapPlannerError
    /\ MapPlannerError["Other"] = "Internal" /\ MapPlannerError["ErrPolicyDenied"] = "PermissionDenied"
  <1>1. \A e \in DOMAIN MapPlannerError : MapPlannerError[e] \in Codes \ {"OK"}
    BY DEF MapPlannerError, Codes
  <1>2. \A op \in OperationTypes : BusinessErrors[op] \subseteq DOMAIN MapPlannerError
    BY DEF OperationTypes, BusinessErrors, MapPlannerError
  <1>3. \A l \in Ledgers : LedgerErrors(l) \subseteq DOMAIN MapPlannerError
    BY DEF LedgerErrors, MapPlannerError
  <1> QED
    BY <1>1, <1>2, <1>3 DEF MapPlannerError

(***************************************************************************)
(* The handlers that answer at once.                                       *)
(***************************************************************************)
LEMMA HandlerInv ==
    ASSUME ServiceInv, NEW c \in Calls,
           \/ Denied(c) \/ Read(c) \/ ReadAny(c) \/ CreateLedger(c) \/ GetLedger(c) \/ SealLedger(c)
           \/ Subscribe(c) /\ Answer(c, "Internal")
    PROVE  ServiceInv'
  <1>1. call[c].pc = "handler" /\ UNCHANGED <<log, policies, now>>
    BY DEF Denied, Read, ReadAny, CreateLedger, GetLedger, SealLedger, Subscribe, Handles
  <1>2. InFlight(c) /\ Own(c) = {}
    BY <1>1 DEF InFlight, ServiceInv, CallInv, Placed, Early
  <1>3. Req(c).method # "Submit"
    BY ReadsFacts DEF Denied, Read, ReadAny, CreateLedger, GetLedger, SealLedger, Subscribe, Handles, Scoped
  <1>4. \E code \in Codes : Answer(c, code)
    <2>1. CASE Denied(c)
      BY <2>1 DEF Denied, Codes
    <2>2. CASE Read(c)
      <3>1. PICK code \in IF NamesNoLedger(c) THEN {"InvalidArgument"} ELSE Reads[Req(c).method] :
               Answer(c, code)
        BY <2>2 DEF Read
      <3>2. Req(c).method \in DOMAIN Reads
        BY <2>2 DEF Read, Handles
      <3>3. code \in Codes
        BY <3>1, <3>2, ReadsFacts DEF Codes
      <3> QED
        BY <3>1, <3>3
    <2>3. CASE ReadAny(c)
      BY <2>3 DEF ReadAny, Handles, Codes
    <2>4. CASE CreateLedger(c)
      BY <2>4 DEF CreateLedger, Codes
    <2>5. CASE GetLedger(c)
      BY <2>5 DEF GetLedger, Codes
    <2>6. CASE SealLedger(c)
      BY <2>6 DEF SealLedger, Codes
    <2>7. CASE Subscribe(c) /\ Answer(c, "Internal")
      BY <2>7 DEF Codes
    <2> QED
      BY <2>1, <2>2, <2>3, <2>4, <2>5, <2>6, <2>7
  <1> QED
    BY <1>1, <1>2, <1>3, <1>4, AnswerStep

(***************************************************************************)
(* Every field of a call has its type after it went on.                    *)
(***************************************************************************)
LEMMA GotoFacts ==
    ASSUME Typed, NEW c \in Calls, NEW pc \in Running \cup {"done"}, Goto(c, pc)
    PROVE  /\ call' \in [Calls -> CallState]
           /\ call'[c] = [call[c] EXCEPT !.pc = pc]
           /\ \A d \in Calls : d # c => call'[d] = call[d]
  <1>1. call[c] \in CallState
    BY DEF Typed
  <1>2. [call[c] EXCEPT !.pc = pc] \in CallState
    BY <1>1 DEF CallState
  <1>3. call' = [call EXCEPT ![c] = [call[c] EXCEPT !.pc = pc]]
    BY <1>1 DEF Typed, Goto, CallState
  <1> QED
    BY <1>2, <1>3 DEF Typed

(***************************************************************************)
(* A call goes on to a step whose conditions hold.  It ends so only when   *)
(* it is an empty batch.                                                   *)
(***************************************************************************)
LEMMA GotoStep ==
    ASSUME ServiceInv, NEW c \in Calls, InFlight(c), UNCHANGED <<log, policies, now>>,
           NEW pc \in Running \cup {"done"}, Goto(c, pc),
           call[c].pc # "incr", pc # "incr",
           pc \in Submitting =>
              /\ Req(c).method = "Submit" /\ Req(c).intent # NoIntent
              /\ LedgerOf(c) # None /\ AuthorizeLedger(c),
           pc \in Planning =>
              \E v \in call[c].since..Len(policies[LedgerOf(c)]) : Verdict(c, v) = "allowed",
           pc \in {"batch", "all"} => IsBatch(c),
           pc = "all" => ModeOf(c) = "ALL_OR_NOTHING",
           pc \in {"check", "write"} =>
              /\ ModeOf(c) \in {"SINGLE", "BEST_EFFORT"}
              /\ call[c].pos = Len(call[c].results) + 1 /\ call[c].pos <= Len(ItemsOf(c)),
           Own(c) = {} \/ (IsBatch(c) /\ pc \notin Early),
           call[c].pc \notin Early => pc \notin Early,
           pc = "done" => IsBatch(c) /\ Len(call[c].results) = Len(ItemsOf(c)) /\ Own(c) = {}
    PROVE  ServiceInv'
  <1>0. call[c] \in CallState /\ CallInv(c)
    BY DEF ServiceInv, Typed
  <1>1. /\ call' \in [Calls -> CallState]
        /\ call'[c] = [call[c] EXCEPT !.pc = pc]
        /\ \A d \in Calls : d # c => call'[d] = call[d]
    BY GotoFacts DEF ServiceInv
  <1>2. Typed'
    BY <1>1 DEF ServiceInv, Typed
  <1>3. /\ call'[c].pc = pc /\ call'[c].req = call[c].req /\ call'[c].code = call[c].code
        /\ call'[c].admitted = call[c].admitted /\ call'[c].since = call[c].since
        /\ call'[c].results = call[c].results /\ call'[c].pos = call[c].pos
    BY <1>0, <1>1 DEF CallState
  <1>4. Keeps(c)
    BY <1>3 DEF Keeps, Running, Serving, Submitting, Planning
  <1>5. /\ Req(c)' = Req(c) /\ LedgerOf(c)' = LedgerOf(c) /\ Operation1(c)' = Operation1(c)
        /\ (IsBatch(c)' <=> IsBatch(c)) /\ Own(c)' = Own(c) /\ Effects(c)' = Effects(c)
        /\ (AuthorizeLedger(c)' <=> AuthorizeLedger(c))
    BY <1>3 DEF Req, LedgerOf, Operation1, IsBatch, Own, Effects, AuthorizeLedger, IdentityOf
  <1>6. ModeOf(c)' = ModeOf(c) /\ ItemsOf(c)' = ItemsOf(c)
    BY <1>5 DEF ModeOf, ItemsOf
  <1>7. Effects(c) \subseteq Own(c)
    BY DEF Effects, Own
  <1>8. Passed(c)'
    <2>1. call[c].pc \in Serving
      BY <1>0 DEF InFlight, CallState, Running
    <2>2. \A v : Verdict(c, v)' = Verdict(c, v)
      BY <1>3, <1>5 DEF Verdict, IdentityOf, Req
    <2>3. pc \in Planning =>
             \E v \in call[c].since..Len(policies[LedgerOf(c)]) : Verdict(c, v)' = "allowed"
      BY <2>2
    <2> QED
      BY <1>0, <1>3, <1>5, <2>1, <2>3 DEF CallInv, Passed, Running, Req, InFlight
  <1>9. Placed(c)'
    BY <1>0, <1>3, <1>5, <1>6 DEF CallInv, Placed, InFlight, Own, Early
  <1>10. Refused(c)' /\ Single(c)'
    BY <1>0, <1>3, <1>5, <1>7 DEF Refused, Single, Submitted, Succeeded
  <1>11. Batched(c)'
    <2>1. Succeeded(c)' => Len(call[c].results) = Len(ItemsOf(c))
      BY <1>3 DEF Succeeded, Submitted
    <2>2. Submitted(c)' => Effects(c) = {}
      BY <1>3, <1>7 DEF Submitted
    <2>3. Cardinality({}) = 0
      BY FS_EmptySet
    <2> QED
      BY <1>0, <1>3, <1>5, <1>6, <2>1, <2>2, <2>3 DEF CallInv, Batched, KeyOf
  <1> QED
    BY <1>1, <1>2, <1>3, <1>4, <1>8, <1>9, <1>10, <1>11, SilentStep, WritersAreAdmitted DEF CallInv

(***************************************************************************)
(* A subscription streams until its client leaves, or fails.               *)
(***************************************************************************)
LEMMA SubscribeInv ==
    ASSUME ServiceInv, NEW c \in Calls, Subscribe(c)
    PROVE  ServiceInv'
  <1>1. CASE Answer(c, "Internal")
    BY <1>1, HandlerInv
  <1>2. CASE Goto(c, "streaming")
    <2>1. call[c].pc = "handler" /\ UNCHANGED <<log, policies, now>>
      BY DEF Subscribe, Handles
    <2>2. InFlight(c) /\ Own(c) = {}
      BY <2>1 DEF InFlight, ServiceInv, CallInv, Placed, Early
    <2> DEFINE pc == "streaming"
    <2>3. pc \in Running \cup {"done"} /\ pc \notin Submitting /\ pc \notin Planning /\ pc \in Early
          /\ pc \notin {"batch", "all", "check", "write", "done", "incr"}
      BY DEF Running, Serving, Submitting, Planning, Early
    <2>4. Goto(c, pc)
      BY <1>2
    <2> HIDE DEF pc
    <2> QED
      BY <2>1, <2>2, <2>3, <2>4, GotoStep DEF Early
  <1> QED
    BY <1>1, <1>2 DEF Subscribe

(***************************************************************************)
(* Submit up to the planner: intent, scope, policy, amounts.               *)
(***************************************************************************)
LEMMA EvaluatePolicyInv ==
    ASSUME ServiceInv, NEW c \in Calls, EvaluatePolicy(c)
    PROVE  ServiceInv'
  <1>1. call[c].pc = "handler" /\ Req(c).method = "Submit" /\ UNCHANGED <<log, policies, now>>
    BY DEF EvaluatePolicy, Handles
  <1>2. /\ InFlight(c) /\ Own(c) = {} /\ call[c].results = << >> /\ call[c].pos = 1
        /\ Passed(c) /\ call[c] \in CallState
    BY <1>1 DEF InFlight, ServiceInv, CallInv, Placed, Early, Typed
  <1>3. CASE \E code \in Codes \ {"OK"} : Answer(c, code)
    BY <1>1, <1>2, <1>3, AnswerStep
  <1>4. CASE ~\E code \in Codes \ {"OK"} : Answer(c, code)
    <2> DEFINE v == Len(policies[LedgerOf(c)])
    <2>1. Req(c).intent # NoIntent /\ LedgerOf(c) # None /\ AuthorizeLedger(c)
      BY <1>4 DEF EvaluatePolicy, Codes
    <2>2. \/ Verdict(c, v) = "denied" /\ Goto(c, "denied")
          \/ Verdict(c, v) = "allowed" /\ Goto(c, IF IsBatch(c) THEN "batch" ELSE "check")
      BY <1>4, <2>1 DEF EvaluatePolicy, Codes
    <2>3. v \in Nat /\ call[c].since \in Nat /\ call[c].since <= v
      <3>1. LedgerOf(c) \in Ledgers
        BY <1>2, <2>1 DEF CallState, Request, LedgerOf, Req
      <3> QED
        BY <1>1, <1>2, <2>1, <3>1 DEF Passed, CallState, ServiceInv, Typed
    <2>4. Verdict(c, v) = "allowed" =>
             \E w \in call[c].since..Len(policies[LedgerOf(c)]) : Verdict(c, w) = "allowed"
      BY <2>3
    <2> HIDE DEF v
    <2>5. CASE Goto(c, "denied")
      <3> DEFINE pc == "denied"
      <3>1. pc \in Running \cup {"done"} /\ pc \notin Planning /\ pc \in Early
            /\ pc \notin {"batch", "all", "check", "write", "done", "incr"}
        BY DEF Running, Serving, Submitting, Planning, Early
      <3>2. Goto(c, pc)
        BY <2>5
      <3> HIDE DEF pc
      <3> QED
        BY <1>1, <1>2, <2>1, <3>1, <3>2, GotoStep DEF Early
    <2>6. CASE Verdict(c, v) = "allowed" /\ IsBatch(c) /\ Goto(c, "batch")
      <3> DEFINE pc == "batch"
      <3>1. pc \in Running \cup {"done"} /\ pc \in Early
            /\ pc \notin {"all", "check", "write", "done", "incr"}
        BY DEF Running, Serving, Submitting, Planning, Early
      <3>2. Goto(c, pc)
        BY <2>6
      <3> HIDE DEF pc
      <3> QED
        BY <1>1, <1>2, <2>1, <2>4, <2>6, <3>1, <3>2, GotoStep DEF Early
    <2>7. CASE Verdict(c, v) = "allowed" /\ ~IsBatch(c) /\ Goto(c, "check")
      <3> DEFINE pc == "check"
      <3>1. pc \in Running \cup {"done"} /\ pc \notin Early
            /\ pc \notin {"batch", "all", "done", "incr"}
        BY DEF Running, Serving, Submitting, Planning, Early
      <3>2. Goto(c, pc)
        BY <2>7
      <3>3. /\ ModeOf(c) \in {"SINGLE", "BEST_EFFORT"}
            /\ call[c].pos = Len(call[c].results) + 1 /\ call[c].pos <= Len(ItemsOf(c))
        BY <1>2, <2>7 DEF ModeOf, ItemsOf
      <3> HIDE DEF pc
      <3> QED
        BY <1>1, <1>2, <2>1, <2>4, <2>7, <3>1, <3>2, <3>3, GotoStep DEF Early
    <2> QED
      BY <2>2, <2>5, <2>6, <2>7
  <1> QED
    BY <1>3, <1>4

(***************************************************************************)
(* HandleBatch.                                                            *)
(***************************************************************************)
LEMMA HandleBatchInv ==
    ASSUME ServiceInv, NEW c \in Calls, HandleBatch(c)
    PROVE  ServiceInv'
  <1>1. call[c].pc = "batch" /\ UNCHANGED <<log, policies, now>>
    BY DEF HandleBatch
  <1>2. /\ InFlight(c) /\ Own(c) = {} /\ call[c].results = << >> /\ call[c].pos = 1
        /\ Passed(c) /\ call[c] \in CallState /\ IsBatch(c)
    BY <1>1 DEF InFlight, ServiceInv, CallInv, Placed, Early, Typed
  <1>3. call[c].pc \in Submitting /\ call[c].pc \in Planning
    BY <1>1 DEF Submitting, Planning
  <1>4. LedgerOf(c) \in Ledgers /\ ItemsOf(c) \in Seq(Nested)
    BY <1>2, <1>3, SubmissionFacts DEF ServiceInv
  <1>5. CASE \E code \in Codes \ {"OK"} : Answer(c, code)
    BY <1>1, <1>2, <1>5, AnswerStep
  <1>6. CASE ModeOf(c) = "ALL_OR_NOTHING" /\ Goto(c, "all")
    <2> DEFINE pc == "all"
    <2>1. pc \in Running \cup {"done"} /\ pc \in Early /\ pc \notin {"check", "write", "done", "incr"}
      BY DEF Running, Serving, Submitting, Planning, Early
    <2>2. Goto(c, pc)
      BY <1>6
    <2> HIDE DEF pc
    <2> QED
      BY <1>1, <1>2, <1>3, <1>6, <2>1, <2>2, GotoStep DEF Early, Passed, Req
  <1>7. CASE ModeOf(c) = "BEST_EFFORT" /\ Goto(c, IF ItemsOf(c) = << >> THEN "done" ELSE "check")
    <2> DEFINE pc == IF ItemsOf(c) = << >> THEN "done" ELSE "check"
    <2>1. pc \in Running \cup {"done"} /\ pc \notin Early /\ pc \notin {"batch", "all", "write", "incr"}
      BY DEF Running, Serving, Submitting, Planning, Early
    <2>2. Goto(c, pc)
      BY <1>7
    <2>3. Len(<< >>) = 0 /\ (pc = "done" => Len(ItemsOf(c)) = 0) /\ (pc = "check" => 1 <= Len(ItemsOf(c)))
      BY <1>4
    <2> HIDE DEF pc
    <2> QED
      BY <1>1, <1>2, <1>3, <1>7, <2>1, <2>2, <2>3, GotoStep DEF Passed, Req
  <1>8. LedgerErrors(LedgerOf(c)) \subseteq DOMAIN MapPlannerError
    BY <1>4, ErrorFacts
  <1> QED
    BY <1>5, <1>6, <1>7, <1>8, ErrorFacts DEF HandleBatch, Codes

-----------------------------------------------------------------------------
(***************************************************************************)
(* One item.                                                               *)
(***************************************************************************)
LEMMA ItemFacts ==
    ASSUME ServiceInv, NEW c \in Calls, call[c].pc \in {"check", "write"}
    PROVE  /\ call[c] \in CallState /\ CallInv(c) /\ InFlight(c)
           /\ LedgerOf(c) \in Ledgers /\ ItemsOf(c) \in Seq(Nested)
           /\ call[c].pos \in 1..Len(ItemsOf(c)) /\ call[c].pos = Len(call[c].results) + 1
           /\ Item(c).operation \in Operation /\ Item(c).key \in Keys \cup {None}
           /\ IsBatch(c) => ModeOf(c) = "BEST_EFFORT"
           /\ ~IsBatch(c) => /\ ModeOf(c) = "SINGLE" /\ Own(c) = {} /\ call[c].pos = 1
                             /\ Item(c).key = Req(c).intent.key /\ Item(c).operation = Operation1(c)
           /\ \A n \in Own(c) : log[n].type # "policy_denied"
  <1>1. call[c] \in CallState /\ CallInv(c) /\ InFlight(c) /\ call[c].pc \in Submitting
    BY DEF ServiceInv, Typed, InFlight, Submitting, Planning
  <1>2. /\ LedgerOf(c) \in Ledgers /\ ItemsOf(c) \in Seq(Nested)
        /\ ~IsBatch(c) => /\ ModeOf(c) = "SINGLE" /\ Len(ItemsOf(c)) = 1
                          /\ ItemsOf(c)[1].key = Req(c).intent.key
                          /\ ItemsOf(c)[1].operation = Operation1(c)
        /\ IsBatch(c) => ModeOf(c) \in Mode
    BY <1>1, SubmissionFacts DEF ServiceInv, CallInv
  <1>3. /\ call[c].pos = Len(call[c].results) + 1 /\ call[c].pos <= Len(ItemsOf(c))
        /\ ModeOf(c) \in {"SINGLE", "BEST_EFFORT"} /\ (~IsBatch(c) => Own(c) = {})
        /\ \A n \in Own(c) : log[n].type # "policy_denied"
    BY <1>1 DEF CallInv, Placed
  <1>4. call[c].pos \in 1..Len(ItemsOf(c))
    BY <1>1, <1>2, <1>3 DEF CallState
  <1>5. Item(c) \in Nested
    BY <1>2, <1>4 DEF Item
  <1>6. ~IsBatch(c) => call[c].pos = 1
    <2>1. Len(ItemsOf(c)) = 1 => call[c].pos = 1
      BY <1>4
    <2> QED
      BY <1>2, <2>1
  <1> QED
    BY <1>1, <1>2, <1>3, <1>4, <1>5, <1>6 DEF Item, Nested, Mode

\* An item of a best-effort batch ends with event ev.
Notes(c, ev) ==
    call' = [call EXCEPT
               ![c].pc = IF call[c].pos = Len(ItemsOf(c)) THEN "done" ELSE "check",
               ![c].pos = @ + 1, ![c].results = Append(@, ev)]

(***************************************************************************)
(* The result of an item of a best-effort batch is noted: no event, or one *)
(* that has the item's key.                                                *)
(***************************************************************************)
LEMMA ItemNoted ==
    ASSUME ServiceInv, NEW c \in Calls, call[c].pc \in {"check", "write"}, IsBatch(c),
           log' \in Seq(EventState), LogGrows, UNCHANGED policies,
           \A n \in DOMAIN log' :
              n \notin DOMAIN log => log'[n].call = c /\ log'[n].type # "policy_denied",
           NEW ev \in Int, ev # NoEvent => ev \in DOMAIN log' /\ log'[ev].key = Item(c).key,
           Notes(c, ev)
    PROVE  /\ call' \in [Calls -> CallState] /\ CallInv(c)' /\ Keeps(c)
           /\ call'[c].admitted = call[c].admitted
           /\ \A d \in Calls : d # c => call'[d] = call[d]
  <1> DEFINE pc == IF call[c].pos = Len(ItemsOf(c)) THEN "done" ELSE "check"
             k == [call[c] EXCEPT !.pc = pc, !.pos = @ + 1, !.results = Append(@, ev)]
  <1>1. call[c] \in CallState /\ call[c].results \in Seq(Int) /\ call[c].pos \in Nat
    BY ItemFacts DEF CallState
  <1>0. /\ CallInv(c) /\ ItemsOf(c) \in Seq(Nested) /\ ModeOf(c) = "BEST_EFFORT"
        /\ call[c].pos \in 1..Len(ItemsOf(c)) /\ call[c].pos = Len(call[c].results) + 1
        /\ \A n \in Own(c) : log[n].type # "policy_denied"
        /\ call[c].code = "OK"
    BY ItemFacts DEF CallInv, Placed
  <1>2. pc \in Running \cup {"done"} /\ pc \in {"done", "check"}
    BY DEF Running, Serving, Submitting, Planning
  <1>3. call' = [call EXCEPT ![c] = k]
    BY <1>1 DEF ServiceInv, Typed, CallState, Notes
  <1> HIDE DEF pc
  <1>4. k \in CallState
    <2>1. Append(call[c].results, ev) \in Seq(Int) /\ call[c].pos + 1 \in Nat
      BY <1>1
    <2> QED
      BY <1>1, <1>2, <2>1 DEF CallState
  <1>5. call' \in [Calls -> CallState] /\ call'[c] = k /\ \A d \in Calls : d # c => call'[d] = call[d]
    <2> HIDE DEF k
    <2> QED
      BY <1>3, <1>4 DEF ServiceInv, Typed
  <1>6. /\ call'[c].pc = pc /\ call'[c].pos = call[c].pos + 1
        /\ call'[c].results = Append(call[c].results, ev) /\ call'[c].req = call[c].req
        /\ call'[c].since = call[c].since /\ call'[c].admitted = call[c].admitted
        /\ call'[c].code = call[c].code
    BY <1>1, <1>5 DEF CallState
  <1> HIDE DEF k
  <1>7. Keeps(c)
    BY <1>2, <1>6 DEF Keeps
  <1>8. /\ Req(c)' = Req(c) /\ LedgerOf(c)' = LedgerOf(c) /\ Operation1(c)' = Operation1(c)
        /\ (IsBatch(c)' <=> IsBatch(c)) /\ (AuthorizeLedger(c)' <=> AuthorizeLedger(c))
    BY <1>6 DEF Req, LedgerOf, Operation1, IsBatch, AuthorizeLedger, IdentityOf
  <1>9. ModeOf(c)' = ModeOf(c) /\ ItemsOf(c)' = ItemsOf(c)
    BY <1>8 DEF ModeOf, ItemsOf
  <1>10. Len(call[c].results) \in Nat /\ Len(call'[c].results) = call[c].pos
         /\ Len(ItemsOf(c)) \in Nat
    BY <1>0, <1>1, <1>6
  <1>11. Passed(c)'
    <2>1. \A v : Verdict(c, v)' = Verdict(c, v)
      BY <1>6, <1>8 DEF Verdict, IdentityOf, Req
    <2>2. \E v \in call[c].since..Len(policies[LedgerOf(c)]) : Verdict(c, v)' = "allowed"
      BY <1>0, <2>1 DEF CallInv, Passed, Planning
    <2> QED
      BY <1>0, <1>2, <1>6, <1>8, <2>2
      DEF CallInv, Passed, Planning, Submitting, Serving, Running
  <1>12. DOMAIN log \subseteq DOMAIN log' /\ \A n \in DOMAIN log : log'[n] = log[n]
    BY DEF ServiceInv, Typed, LogGrows
  <1>13. \A n \in Own(c)' : log'[n].type # "policy_denied"
    BY <1>0, <1>12 DEF Own
  <1>14. Placed(c)'
    <2>1. pc = "check" => call[c].pos + 1 = Len(call'[c].results) + 1 /\ call[c].pos + 1 <= Len(ItemsOf(c))
      BY <1>0, <1>10 DEF pc
    <2> QED
      BY <1>0, <1>2, <1>6, <1>8, <1>9, <1>13, <2>1 DEF Placed, Early
  <1>15. Refused(c)' /\ Single(c)'
    BY <1>0, <1>6, <1>8 DEF Refused, Single, Submitted, Definite
  <1>16. Batched(c)'
    <2>1. ASSUME NEW i \in DOMAIN call'[c].results
          PROVE  /\ i <= Len(ItemsOf(c))
                 /\ call'[c].results[i] # NoEvent =>
                       call'[c].results[i] \in DOMAIN log' /\ log'[call'[c].results[i]].key = ItemsOf(c)[i].key
      <3>1. i \in 1..call[c].pos
        BY <1>0, <1>1, <1>6, <1>10
      <3>2. CASE i = call[c].pos
        <4>1. call'[c].results[i] = ev
          BY <1>0, <1>1, <1>6, <3>2
        <4> QED
          BY <1>0, <3>2, <4>1 DEF Item
      <3>3. CASE i \in 1..Len(call[c].results)
        <4>1. call'[c].results[i] = call[c].results[i] /\ i \in DOMAIN call[c].results
          BY <1>1, <1>6, <3>3
        <4>2. Batched(c)
          BY <1>0 DEF CallInv
        <4> QED
          BY <1>0, <1>12, <4>1, <4>2 DEF Batched, KeyOf
      <3>4. i = call[c].pos \/ i \in 1..Len(call[c].results)
        BY <1>0, <1>10, <3>1
      <3> QED
        BY <3>2, <3>3, <3>4, Zenon
    <2>2. Succeeded(c)' => Len(call'[c].results) = Len(ItemsOf(c))
      BY <1>0, <1>6, <1>10 DEF Succeeded, Submitted, pc
    <2> QED
      BY <1>0, <1>8, <1>9, <2>1, <2>2 DEF Batched, KeyOf
  <1> QED
    BY <1>5, <1>6, <1>7, <1>11, <1>14, <1>15, <1>16 DEF CallInv

(***************************************************************************)
(* An item fails and nothing is written.                                   *)
(***************************************************************************)
LEMMA ItemFailsStep ==
    ASSUME ServiceInv, NEW c \in Calls, call[c].pc \in {"check", "write"},
           NEW error \in DOMAIN MapPlannerError, ItemFails(c, error),
           UNCHANGED <<log, policies, now>>
    PROVE  ServiceInv'
  <1>1. CASE ~IsBatch(c)
    BY <1>1, ItemFacts, ErrorFacts, AnswerStep DEF ItemFails
  <1>2. CASE IsBatch(c)
    <2> DEFINE ev == NoEvent
    <2>1. Notes(c, ev)
      BY <1>2, ItemFacts DEF ItemFails, Notes
    <2>2. log' \in Seq(EventState) /\ LogGrows /\ ev \in Int
      BY DEF ServiceInv, Typed, LogGrows, NoEvent
    <2> HIDE DEF ev
    <2>3. ev = NoEvent
      BY DEF ev
    <2>4. /\ call' \in [Calls -> CallState] /\ CallInv(c)' /\ Keeps(c)
          /\ call'[c].admitted = call[c].admitted
          /\ \A d \in Calls : d # c => call'[d] = call[d]
      BY <1>2, <2>1, <2>2, <2>3, ItemNoted
    <2>5. Typed'
      BY <2>2, <2>4 DEF ServiceInv, Typed
    <2> QED
      BY <2>4, <2>5, SilentStep, WritersAreAdmitted
  <1> QED
    BY <1>1, <1>2

(***************************************************************************)
(* An operation that is no batch ends: as a dry run, with the event of     *)
(* another call, or with the one it has just written.                      *)
(***************************************************************************)
LEMMA SingleEnds ==
    ASSUME ServiceInv, NEW c \in Calls, call[c].pc \in {"check", "write"}, ~IsBatch(c),
           UNCHANGED policies, NEW event \in Int, NEW hit \in BOOLEAN, ItemEnds(c, event, hit),
           \/ event = DryRunEvent /\ Req(c).intent.dry_run /\ Own(c)' = {}
           \/ /\ event \in DOMAIN log' /\ event # DryRunEvent
              /\ log'[event].ledger = LedgerOf(c) /\ log'[event].key = Req(c).intent.key
              /\ \/ hit /\ log'[event].call # c /\ Own(c)' = {}
                 \/ ~hit /\ log'[event].call = c /\ log'[event].type # "policy_denied"
                    /\ Own(c)' = {event}
    PROVE  /\ call' \in [Calls -> CallState] /\ CallInv(c)' /\ Keeps(c)
           /\ call'[c].admitted = call[c].admitted
           /\ \A d \in Calls : d # c => call'[d] = call[d]
  <1> DEFINE h == hit /\ Operation1(c).op # "convert"
             i == ~hit /\ event # DryRunEvent /\ Named(Operation1(c))
             k == [call[c] EXCEPT !.pc = "done", !.event = event, !.hit = h, !.id = i]
  <1>1. call[c] \in CallState /\ CallInv(c) /\ call[c].code = "OK" /\ ModeOf(c) = "SINGLE"
    BY ItemFacts DEF CallInv, Placed
  <1>2. h \in BOOLEAN /\ i \in BOOLEAN
    BY Zenon
  <1>3. call' = [call EXCEPT ![c] = k]
    BY <1>1 DEF ServiceInv, Typed, CallState, ItemEnds
  <1>4. (h => hit) /\ (i => ~hit /\ event # DryRunEvent)
        /\ (~hit /\ event # DryRunEvent /\ Named(Operation1(c)) => i)
    BY Zenon
  <1> HIDE DEF h, i
  <1>5. k \in CallState
    BY <1>1, <1>2 DEF CallState
  <1>6. /\ k.pc = "done" /\ k.event = event /\ k.hit = h /\ k.id = i /\ k.req = call[c].req
        /\ k.since = call[c].since /\ k.admitted = call[c].admitted /\ k.code = "OK"
        /\ k.results = call[c].results
    BY <1>1 DEF CallState
  <1> HIDE DEF k
  <1>7. call' \in [Calls -> CallState] /\ call'[c] = k /\ \A d \in Calls : d # c => call'[d] = call[d]
    BY <1>3, <1>5 DEF ServiceInv, Typed
  <1>8. Keeps(c) /\ call'[c].admitted = call[c].admitted
    BY <1>6, <1>7 DEF Keeps
  <1>9. /\ Req(c)' = Req(c) /\ LedgerOf(c)' = LedgerOf(c) /\ Operation1(c)' = Operation1(c)
        /\ (IsBatch(c)' <=> IsBatch(c))
    BY <1>6, <1>7 DEF Req, LedgerOf, Operation1, IsBatch
  <1>10. Passed(c)'
    BY <1>1, <1>6, <1>7, <1>9 DEF CallInv, Passed, Planning, Submitting, Serving, Running
  <1>11. \A n \in Own(c)' : log'[n].type # "policy_denied"
    OBVIOUS
  <1>12. Effects(c)' = Own(c)'
    BY <1>11 DEF Effects, Own
  <1>13. Placed(c)'
    BY <1>6, <1>7, <1>11 DEF Placed, Early
  <1>14. Refused(c)' /\ Batched(c)'
    BY <1>6, <1>7, <1>9 DEF Refused, Batched, Submitted, Definite
  <1>15. Single(c)'
    <2>1. CASE event = DryRunEvent /\ Req(c).intent.dry_run /\ Own(c)' = {}
      BY <1>4, <1>6, <1>7, <1>9, <1>12, <2>1, Zenon DEF Single
    <2>2. CASE /\ event \in DOMAIN log' /\ event # DryRunEvent
               /\ log'[event].ledger = LedgerOf(c) /\ log'[event].key = Req(c).intent.key
               /\ hit /\ log'[event].call # c /\ Own(c)' = {}
      BY <1>4, <1>6, <1>7, <1>9, <1>12, <2>2, Zenon DEF Single
    <2>3. CASE /\ event \in DOMAIN log' /\ event # DryRunEvent
               /\ log'[event].ledger = LedgerOf(c) /\ log'[event].key = Req(c).intent.key
               /\ ~hit /\ log'[event].call = c /\ Own(c)' = {event}
      BY <1>4, <1>6, <1>7, <1>9, <1>12, <2>3, Zenon DEF Single
    <2> QED
      BY <2>1, <2>2, <2>3, Zenon
  <1> QED
    BY <1>7, <1>8, <1>10, <1>13, <1>14, <1>15 DEF CallInv

(***************************************************************************)
(* An item ends with an event that was there.                              *)
(***************************************************************************)
LEMMA ItemHitStep ==
    ASSUME ServiceInv, NEW c \in Calls, call[c].pc \in {"check", "write"},
           NEW n \in Records(c, Item(c).key), ItemEnds(c, n, TRUE),
           UNCHANGED <<log, policies, now>>
    PROVE  ServiceInv'
  <1>1. n \in DOMAIN log /\ log[n].ledger = LedgerOf(c) /\ log[n].key = Item(c).key
    BY DEF Records, Holders
  <1>2. n \in Int /\ n # DryRunEvent
    BY <1>1 DEF ServiceInv, Typed, DryRunEvent
  <1>3. log' \in Seq(EventState) /\ LogGrows /\ Own(c)' = Own(c)
    BY DEF ServiceInv, Typed, LogGrows, Own
  <1>4. /\ call' \in [Calls -> CallState] /\ CallInv(c)' /\ Keeps(c)
        /\ call'[c].admitted = call[c].admitted
        /\ \A d \in Calls : d # c => call'[d] = call[d]
    <2>1. CASE ~IsBatch(c)
      <3>1. Own(c) = {} /\ Item(c).key = Req(c).intent.key
        BY <2>1, ItemFacts
      <3>2. log[n].call # c
        BY <1>1, <3>1 DEF Own
      <3> DEFINE hit == TRUE
      <3>3. hit \in BOOLEAN /\ hit /\ ItemEnds(c, n, hit)
        OBVIOUS
      <3> HIDE DEF hit
      <3> QED
        BY <1>1, <1>2, <1>3, <2>1, <3>1, <3>2, <3>3, SingleEnds
    <2>2. CASE IsBatch(c)
      <3>1. Notes(c, n)
        BY <2>2, ItemFacts DEF ItemEnds, Notes
      <3> QED
        BY <1>1, <1>2, <1>3, <2>2, <3>1, ItemNoted
    <2> QED
      BY <2>1, <2>2
  <1>5. Typed'
    BY <1>3, <1>4 DEF ServiceInv, Typed
  <1> QED
    BY <1>4, <1>5, SilentStep, WritersAreAdmitted

(***************************************************************************)
(* The validation of an item and the lookup of its key.                    *)
(***************************************************************************)
LEMMA CheckItemInv ==
    ASSUME ServiceInv, NEW c \in Calls, CheckItem(c)
    PROVE  ServiceInv'
  <1>1. call[c].pc = "check" /\ UNCHANGED <<log, policies, now>>
    BY DEF CheckItem
  <1>2. \/ \E e \in LedgerErrors(LedgerOf(c)) \cup {"Other", "ErrInvalidIdempotencyInput"} : ItemFails(c, e)
        \/ Goto(c, "write")
        \/ \E n \in Records(c, Item(c).key) : ItemEnds(c, n, TRUE)
    BY DEF CheckItem
  <1>3. ASSUME NEW e \in LedgerErrors(LedgerOf(c)) \cup {"Other", "ErrInvalidIdempotencyInput"}, ItemFails(c, e)
        PROVE  ServiceInv'
    <2>1. LedgerOf(c) \in Ledgers
      BY <1>1, ItemFacts
    <2>2. e \in DOMAIN MapPlannerError
      BY <2>1, ErrorFacts
    <2> QED
      BY <1>1, <1>3, <2>2, ItemFailsStep
  <1>4. ASSUME NEW n \in Records(c, Item(c).key), ItemEnds(c, n, TRUE) PROVE ServiceInv'
    BY <1>1, <1>4, ItemHitStep
  <1>5. CASE Goto(c, "write")
    <2> DEFINE pc == "write"
    <2>1. pc \in Running \cup {"done"} /\ pc \notin Early /\ pc \notin {"batch", "all", "done", "incr"}
      BY DEF Running, Serving, Submitting, Planning, Early
    <2>2. Goto(c, pc)
      BY <1>5
    <2>3. InFlight(c) /\ CallInv(c) /\ (Own(c) = {} \/ IsBatch(c))
      BY <1>1, ItemFacts
    <2>4. call[c].pc \in Submitting /\ call[c].pc \in Planning
      BY <1>1 DEF Submitting, Planning
    <2>5. /\ Req(c).method = "Submit" /\ Req(c).intent # NoIntent
          /\ LedgerOf(c) # None /\ AuthorizeLedger(c)
          /\ \E v \in call[c].since..Len(policies[LedgerOf(c)]) : Verdict(c, v) = "allowed"
          /\ ModeOf(c) \in {"SINGLE", "BEST_EFFORT"}
          /\ call[c].pos = Len(call[c].results) + 1 /\ call[c].pos <= Len(ItemsOf(c))
      BY <1>1, <2>3, <2>4 DEF CallInv, Passed, Placed, Req
    <2> HIDE DEF pc
    <2> QED
      BY <1>1, <2>1, <2>2, <2>3, <2>5, GotoStep DEF Early
  <1> QED
    BY <1>2, <1>3, <1>4, <1>5

-----------------------------------------------------------------------------
(***************************************************************************)
(* Events: what a call writes has its type, and is true of the call.       *)
(***************************************************************************)
LEMMA EventTyped ==
    ASSUME Typed, NEW c \in Calls, LedgerOf(c) \in Ledgers,
           NEW type \in OperationTypes \cup {"policy_denied"}, NEW key \in Keys \cup {None},
           NEW hash \in Operation \cup {NoHash}
    PROVE  /\ Event(c, type, key, hash) \in EventState
           /\ Event(c, type, key, hash).call = c /\ Event(c, type, key, hash).ledger = LedgerOf(c)
           /\ Event(c, type, key, hash).key = key /\ Event(c, type, key, hash).type = type
           /\ Event(c, type, key, hash).version = Len(policies[LedgerOf(c)])
  <1>1. Len(policies[LedgerOf(c)]) \in Nat
    BY DEF Typed
  <1> QED
    BY <1>1 DEF Event, EventState

(***************************************************************************)
(* What a call that passed its checks writes is an event of that call.     *)
(***************************************************************************)
LEMMA EventWritten ==
    ASSUME ServiceInv, NEW c \in Calls, call[c].pc \in Submitting, Keeps(c),
           call'[c].admitted = call[c].admitted, UNCHANGED policies,
           NEW n \in DOMAIN log', log'[n].call = c, log'[n].ledger = LedgerOf(c),
           log'[n].version = Len(policies[LedgerOf(c)]),
           log'[n].type # "policy_denied" => call[c].pc \in Planning
    PROVE  EventInv(n)'
  <1>1. /\ Passed(c) /\ call[c] \in CallState /\ LedgerOf(c) \in Ledgers
    BY SubmissionFacts DEF ServiceInv, CallInv, Typed
  <1>2. Len(policies[LedgerOf(c)]) \in Nat
    BY <1>1 DEF ServiceInv, Typed
  <1>3. /\ Req(c)' = Req(c) /\ LedgerOf(c)' = LedgerOf(c) /\ IdentityOf(c)' = IdentityOf(c)
        /\ Operation1(c)' = Operation1(c)
    BY DEF Keeps, Req, LedgerOf, IdentityOf, Operation1
  <1>4. Authenticates(Req(c).token) /\ call[c].admitted \in Admitted /\ AuthorizeLedger(c)
    BY <1>1 DEF Passed, Admits, MethodIsExempt, Running, Serving, Submitting, Req
  <1>5. AuthorizeLedger(c)'
    BY <1>3, <1>4 DEF AuthorizeLedger
  <1>6. log'[n].type # "policy_denied" =>
           \E v \in call'[c].since..log'[n].version : Verdict(c, v)' = "allowed"
    <2>1. \A v : Verdict(c, v)' = Verdict(c, v)
      BY <1>3 DEF Verdict
    <2> QED
      BY <1>1, <2>1 DEF Passed, Keeps
  <1> QED
    BY <1>2, <1>3, <1>4, <1>5, <1>6 DEF EventInv, Keeps

(***************************************************************************)
(* One event is appended.                                                  *)
(***************************************************************************)
LEMMA AppendFacts ==
    ASSUME Typed, NEW e \in EventState, log' = Append(log, e)
    PROVE  /\ log' \in Seq(EventState) /\ LogGrows
           /\ DOMAIN log' = DOMAIN log \cup {Len(log) + 1} /\ Len(log) + 1 \notin DOMAIN log
           /\ log'[Len(log) + 1] = e /\ Len(log) + 1 \in Nat \ {0}
           /\ Own(e.call)' = Own(e.call) \cup {Len(log) + 1}
  <1>1. /\ log' \in Seq(EventState) /\ Len(log') = Len(log) + 1 /\ Len(log) \in Nat
        /\ \A n \in 1..Len(log) : log'[n] = log[n]
        /\ log'[Len(log) + 1] = e
    BY DEF Typed
  <1>2. DOMAIN log' = 1..(Len(log) + 1) /\ DOMAIN log = 1..Len(log)
    BY <1>1 DEF Typed
  <1>3. DOMAIN log' = DOMAIN log \cup {Len(log) + 1} /\ Len(log) + 1 \notin DOMAIN log
    BY <1>1, <1>2
  <1>4. \A n \in DOMAIN log : log'[n] = log[n]
    BY <1>1, <1>2
  <1>5. Own(e.call)' = Own(e.call) \cup {Len(log) + 1}
    BY <1>1, <1>3, <1>4 DEF Own
  <1> QED
    BY <1>1, <1>3, <1>4, <1>5 DEF LogGrows

(***************************************************************************)
(* An event whose key nobody holds leaves every key written once.          *)
(***************************************************************************)
LEMMA AppendKeepsKeys ==
    ASSUME ServiceInv, NEW e \in EventState, log' = Append(log, e),
           e.key # None => \A n \in DOMAIN log : ~(log[n].ledger = e.ledger /\ log[n].key = e.key)
    PROVE  UniqueKeys'
  <1>1. /\ DOMAIN log' = DOMAIN log \cup {Len(log) + 1} /\ log'[Len(log) + 1] = e
        /\ \A n \in DOMAIN log : log'[n] = log[n]
    BY AppendFacts DEF ServiceInv, LogGrows
  <1> QED
    BY <1>1 DEF ServiceInv, UniqueKeys

(***************************************************************************)
(* The record of a denial.                                                 *)
(***************************************************************************)
LEMMA DenialInv ==
    ASSUME ServiceInv, NEW c \in Calls, WritePolicyDenialEvent(c)
    PROVE  ServiceInv'
  <1> DEFINE e == Event(c, "policy_denied", None, NoHash)
             code == MapPlannerError["ErrPolicyDenied"]
  <1>1. call[c].pc = "denied" /\ UNCHANGED <<policies, now>> /\ Answer(c, code)
        /\ (log' = log \/ log' = Append(log, e))
    BY DEF WritePolicyDenialEvent
  <1>2. code = "PermissionDenied" /\ code \in Codes
    BY DEF MapPlannerError, Codes
  <1>3. /\ call[c].pc \in Submitting /\ InFlight(c) /\ CallInv(c) /\ Own(c) = {}
        /\ call[c] \in CallState
    BY <1>1 DEF ServiceInv, Submitting, Planning, InFlight, CallInv, Placed, Early, Typed
  <1>4. LedgerOf(c) \in Ledgers
    BY <1>3, SubmissionFacts DEF ServiceInv, CallInv
  <1>5. CASE log' = log
    BY <1>1, <1>2, <1>3, <1>5, AnswerStep
  <1>6. CASE log' = Append(log, e)
    <2>1. /\ e \in EventState /\ e.call = c /\ e.ledger = LedgerOf(c) /\ e.key = None
          /\ e.type = "policy_denied" /\ e.version = Len(policies[LedgerOf(c)])
      BY <1>4, EventTyped DEF ServiceInv
    <2> HIDE DEF e, code
    <2>2. /\ log' \in Seq(EventState) /\ LogGrows
          /\ DOMAIN log' = DOMAIN log \cup {Len(log) + 1}
          /\ log'[Len(log) + 1] = e /\ Own(c)' = Own(c) \cup {Len(log) + 1}
      BY <1>6, <2>1, AppendFacts DEF ServiceInv
    <2>3. UniqueKeys'
      BY <1>6, <2>1, AppendKeepsKeys
    <2>4. /\ call' \in [Calls -> CallState]
          /\ call'[c] = [call[c] EXCEPT !.pc = "done", !.code = code]
          /\ \A d \in Calls : d # c => call'[d] = call[d]
      BY <1>1, <1>2, AnswerFacts DEF ServiceInv
    <2>5. /\ call'[c].pc = "done" /\ call'[c].code = "PermissionDenied" /\ call'[c].req = call[c].req
          /\ call'[c].since = call[c].since /\ call'[c].results = call[c].results
          /\ call'[c].admitted = call[c].admitted
      BY <1>2, <1>3, <2>4 DEF CallState
    <2>6. Typed' /\ Keeps(c)
      BY <1>1, <2>2, <2>4, <2>5 DEF ServiceInv, Typed, Keeps
    <2>7. ASSUME NEW n \in DOMAIN log', n \notin DOMAIN log
          PROVE  log'[n].call = c /\ EventInv(n)'
      <3>1. log'[n] = e
        BY <2>2, <2>7
      <3> QED
        BY <1>1, <1>3, <2>1, <2>5, <2>6, <3>1, EventWritten
    <2>8. Own(c)' = {Len(log) + 1} /\ Effects(c)' = {}
      <3>1. Own(c)' = {Len(log) + 1}
        BY <1>3, <2>2
      <3> QED
        BY <2>1, <2>2, <3>1 DEF Effects, Own
    <2>9. CallInv(c)'
      <3>1. /\ Req(c)' = Req(c) /\ LedgerOf(c)' = LedgerOf(c) /\ Operation1(c)' = Operation1(c)
            /\ (IsBatch(c)' <=> IsBatch(c))
        BY <2>5 DEF Req, LedgerOf, Operation1, IsBatch
      <3>2. Passed(c)'
        BY <1>1, <1>3, <2>5, <3>1 DEF CallInv, Passed, Planning, Submitting, Serving, Running
      <3>3. Placed(c)'
        BY <2>5, <2>8 DEF Placed, Early
      <3>4. Refused(c)' /\ Single(c)'
        BY <2>5, <2>8 DEF Refused, Single, Succeeded
      <3>5. Batched(c)'
        <4>1. call[c].results = << >> /\ DOMAIN call'[c].results = {}
          BY <1>1, <1>3, <2>5 DEF CallInv, Placed, Early
        <4>2. Cardinality({}) = 0
          BY FS_EmptySet
        <4> QED
          BY <2>5, <2>8, <4>1, <4>2 DEF Batched, Succeeded
      <3> QED
        BY <3>2, <3>3, <3>4, <3>5 DEF CallInv
    <2> QED
      BY <1>1, <1>3, <2>2, <2>3, <2>4, <2>6, <2>7, <2>9, StepOfCall
  <1> QED
    BY <1>1, <1>5, <1>6

(***************************************************************************)
(* A call that wrote is answered with an error that promises nothing.      *)
(***************************************************************************)
LEMMA UncertainAnswer ==
    ASSUME ServiceInv, NEW c \in Calls, call[c].pc \in {"write", "all"}, UNCHANGED policies,
           Answer(c, "Internal"),
           \A n \in Own(c)' : log'[n].type # "policy_denied",
           IsBatch(c) => Cardinality(Effects(c)') = Len(ItemsOf(c)) /\ call[c].results = << >>
    PROVE  /\ call' \in [Calls -> CallState] /\ CallInv(c)' /\ Keeps(c)
           /\ call'[c].admitted = call[c].admitted
           /\ \A d \in Calls : d # c => call'[d] = call[d]
  <1> DEFINE code == "Internal"
  <1>1. code \in Codes /\ code \notin Definite /\ code # "OK" /\ Answer(c, code)
    BY DEF Codes, Definite
  <1> HIDE DEF code
  <1>2. CallInv(c) /\ call[c] \in CallState
    BY DEF ServiceInv, Typed
  <1>3. /\ call' \in [Calls -> CallState]
        /\ call'[c] = [call[c] EXCEPT !.pc = "done", !.code = code]
        /\ \A d \in Calls : d # c => call'[d] = call[d]
    BY <1>1, AnswerFacts DEF ServiceInv
  <1>4. /\ call'[c].pc = "done" /\ call'[c].code = code /\ call'[c].req = call[c].req
        /\ call'[c].since = call[c].since /\ call'[c].results = call[c].results
        /\ call'[c].admitted = call[c].admitted
    BY <1>2, <1>3 DEF CallState
  <1>5. /\ Req(c)' = Req(c) /\ LedgerOf(c)' = LedgerOf(c) /\ Operation1(c)' = Operation1(c)
        /\ (IsBatch(c)' <=> IsBatch(c))
    BY <1>4 DEF Req, LedgerOf, Operation1, IsBatch
  <1>6. ModeOf(c)' = ModeOf(c) /\ ItemsOf(c)' = ItemsOf(c)
    BY <1>5 DEF ModeOf, ItemsOf
  <1>7. Passed(c)'
    BY <1>2, <1>4, <1>5 DEF CallInv, Passed, Planning, Submitting, Serving, Running
  <1>8. Placed(c)'
    BY <1>4 DEF Placed, Early
  <1>9. Refused(c)' /\ Single(c)'
    BY <1>1, <1>4 DEF Refused, Single, Succeeded
  <1>10. Batched(c)'
    <2>1. IsBatch(c) => DOMAIN call'[c].results = {}
      BY <1>4
    <2> QED
      BY <1>1, <1>4, <1>5, <1>6, <2>1 DEF Batched, Succeeded
  <1> QED
    BY <1>3, <1>4, <1>7, <1>8, <1>9, <1>10 DEF CallInv, Keeps

\* The event of the item is the log's last.
Appends(c, hash) ==
    log' = Append(log, Event(c, Item(c).operation.op, Item(c).key, hash))

(***************************************************************************)
(* The transaction of an item commits.                                     *)
(***************************************************************************)
LEMMA ItemCommits ==
    ASSUME ServiceInv, NEW c \in Calls, call[c].pc = "write",
           NEW hash \in Operation \cup {NoHash}, Holders(c, Item(c).key) = {},
           Appends(c, hash),
           ItemEnds(c, Len(log) + 1, FALSE) \/ ItemFails(c, "Other"),
           UNCHANGED <<policies, now>>
    PROVE  ServiceInv'
  <1> DEFINE e == Event(c, Item(c).operation.op, Item(c).key, hash)
             p == Len(log) + 1
  <1>1. /\ call[c] \in CallState /\ CallInv(c) /\ LedgerOf(c) \in Ledgers
        /\ Item(c).operation \in Operation /\ Item(c).key \in Keys \cup {None}
        /\ \A n \in Own(c) : log[n].type # "policy_denied"
    BY ItemFacts
  <1>2. /\ Item(c).operation.op \in OperationTypes /\ Item(c).operation.op # "policy_denied"
    BY <1>1, OperationFacts
  <1>3. /\ e \in EventState /\ e.call = c /\ e.ledger = LedgerOf(c) /\ e.key = Item(c).key
        /\ e.type # "policy_denied" /\ e.version = Len(policies[LedgerOf(c)])
    <2>1. /\ Typed /\ LedgerOf(c) \in Ledgers
          /\ Item(c).operation.op \in OperationTypes \cup {"policy_denied"}
      BY <1>1, <1>2 DEF ServiceInv
    <2>2. PICK type \in OperationTypes \cup {"policy_denied"} : type = Item(c).operation.op
      BY <2>1
    <2>3. PICK key \in Keys \cup {None} : key = Item(c).key
      BY <1>1
    <2>4. /\ Event(c, type, key, hash) \in EventState
          /\ Event(c, type, key, hash).call = c /\ Event(c, type, key, hash).ledger = LedgerOf(c)
          /\ Event(c, type, key, hash).key = key /\ Event(c, type, key, hash).type = type
          /\ Event(c, type, key, hash).version = Len(policies[LedgerOf(c)])
      <3>1. Len(policies[LedgerOf(c)]) \in Nat
        BY <2>1 DEF Typed
      <3> QED
        BY <2>1, <3>1 DEF Event, EventState
    <2>5. e = Event(c, type, key, hash)
      BY <2>2, <2>3
    <2> HIDE DEF e
    <2> QED
      BY <1>2, <2>2, <2>3, <2>4, <2>5
  <1>4. log' = Append(log, e)
    BY DEF Appends
  <1> HIDE DEF e
  <1>5. /\ log' \in Seq(EventState) /\ LogGrows
        /\ DOMAIN log' = DOMAIN log \cup {p} /\ log'[p] = e /\ p \in Nat \ {0}
        /\ Own(c)' = Own(c) \cup {p} /\ p \notin DOMAIN log
    BY <1>3, <1>4, AppendFacts DEF ServiceInv
  <1>6. UniqueKeys'
    <2>1. e.key # None => \A n \in DOMAIN log : ~(log[n].ledger = e.ledger /\ log[n].key = e.key)
      BY <1>3 DEF Holders
    <2> QED
      BY <1>3, <1>4, <2>1, AppendKeepsKeys
  <1>7. \A n \in Own(c)' : log'[n].type # "policy_denied"
    BY <1>1, <1>3, <1>5 DEF LogGrows, Own
  <1> HIDE DEF p
  <1>8. /\ call' \in [Calls -> CallState] /\ CallInv(c)' /\ Keeps(c)
        /\ call'[c].admitted = call[c].admitted
        /\ \A d \in Calls : d # c => call'[d] = call[d]
    <2>1. CASE IsBatch(c)
      <3>1. \A n \in DOMAIN log' :
               n \notin DOMAIN log => log'[n].call = c /\ log'[n].type # "policy_denied"
        BY <1>3, <1>5
      <3>2. CASE ItemEnds(c, Len(log) + 1, FALSE)
        <4>1. Notes(c, p)
          BY <2>1, <3>2, ItemFacts DEF ItemEnds, Notes, p
        <4>2. p \in Int /\ p \in DOMAIN log' /\ log'[p].key = Item(c).key
          BY <1>3, <1>5
        <4> QED
          BY <1>5, <2>1, <3>1, <4>1, <4>2, ItemNoted
      <3>3. CASE ItemFails(c, "Other")
        <4> DEFINE ev == NoEvent
        <4>1. Notes(c, ev)
          BY <2>1, <3>3, ItemFacts DEF ItemFails, Notes
        <4>2. ev \in Int /\ ev = NoEvent
          BY DEF NoEvent
        <4> HIDE DEF ev
        <4> QED
          BY <1>5, <2>1, <3>1, <4>1, <4>2, ItemNoted
      <3> QED
        BY <3>2, <3>3
    <2>2. CASE ~IsBatch(c)
      <3>1. /\ ModeOf(c) = "SINGLE" /\ Own(c) = {} /\ Item(c).key = Req(c).intent.key
        BY <2>2, ItemFacts
      <3>2. CASE ItemEnds(c, Len(log) + 1, FALSE)
        <4> DEFINE hit == FALSE
        <4>1. p \in Int /\ p \in DOMAIN log' /\ p # DryRunEvent /\ log'[p] = e /\ Own(c)' = {p}
          BY <1>5, <3>1 DEF DryRunEvent
        <4>2. hit \in BOOLEAN /\ ~hit /\ ItemEnds(c, p, hit)
          BY <3>2 DEF p
        <4> HIDE DEF hit
        <4> QED
          BY <1>3, <2>2, <3>1, <4>1, <4>2, SingleEnds
      <3>3. CASE ItemFails(c, "Other")
        <4>1. Answer(c, "Internal")
          BY <3>1, <3>3, ErrorFacts DEF ItemFails
        <4> QED
          BY <1>7, <2>2, <4>1, UncertainAnswer
      <3> QED
        BY <3>2, <3>3
    <2> QED
      BY <2>1, <2>2
  <1>9. Typed'
    BY <1>5, <1>8 DEF ServiceInv, Typed
  <1>10. ASSUME NEW n \in DOMAIN log', n \notin DOMAIN log
         PROVE  log'[n].call = c /\ EventInv(n)'
    <2>1. log'[n] = e
      BY <1>5, <1>10
    <2>2. call[c].pc \in Submitting /\ call[c].pc \in Planning
      BY DEF Submitting, Planning
    <2> QED
      BY <1>3, <1>8, <2>1, <2>2, EventWritten
  <1> QED
    BY <1>5, <1>6, <1>8, <1>9, <1>10, StepOfCall, WritersAreAdmitted

(***************************************************************************)
(* The transaction of an item, in each of its outcomes.                    *)
(***************************************************************************)
LEMMA WriteItemInv ==
    ASSUME ServiceInv, NEW c \in Calls, WriteItem(c)
    PROVE  ServiceInv'
  <1> DEFINE o == Item(c).operation
             key == Item(c).key
             dry == o.op = "post" /\ Req(c).intent.dry_run /\ ~IsBatch(c)
             hash == IF key = None THEN NoHash ELSE InputHash(o)
  <1>1. call[c].pc = "write" /\ UNCHANGED <<policies, now>>
    BY DEF WriteItem
  <1>2. o \in Operation /\ o.op \in OperationTypes /\ hash \in Operation \cup {NoHash}
    BY <1>1, ItemFacts, OperationFacts, HashFacts
  <1>3. ASSUME NEW e \in BusinessErrors[o.op] \cup {"ErrIdempotencyKeyConflict"}, ItemFails(c, e), log' = log
        PROVE  ServiceInv'
    <2>1. e \in DOMAIN MapPlannerError
      BY <1>2, ErrorFacts
    <2> QED
      BY <1>1, <1>3, <2>1, ItemFailsStep
  <1>4. CASE dry /\ log' = log /\ ItemEnds(c, DryRunEvent, FALSE)
    <2> DEFINE hit == FALSE
               event == DryRunEvent
    <2>1. hit \in BOOLEAN /\ event = DryRunEvent /\ ItemEnds(c, event, hit)
      BY <1>4
    <2>1a. event \in Int
      BY DEF DryRunEvent
    <2>2. Own(c) = {} /\ ~IsBatch(c) /\ Req(c).intent.dry_run
      BY <1>1, <1>4, ItemFacts
    <2>3. Own(c)' = {}
      BY <1>4, <2>2 DEF Own
    <2> HIDE DEF hit, event
    <2>4. /\ call' \in [Calls -> CallState] /\ CallInv(c)' /\ Keeps(c)
          /\ call'[c].admitted = call[c].admitted
          /\ \A d \in Calls : d # c => call'[d] = call[d]
      BY <1>1, <2>1, <2>1a, <2>2, <2>3, SingleEnds
    <2>5. Typed'
      BY <1>1, <1>4, <2>4 DEF ServiceInv, Typed
    <2> QED
      BY <1>1, <1>4, <2>4, <2>5, SilentStep, WritersAreAdmitted
  <1>5. CASE /\ Holders(c, key) = {} /\ log' = Append(log, Event(c, o.op, key, hash))
             /\ ItemEnds(c, Len(log) + 1, FALSE) \/ ItemFails(c, "Other")
    <2>1. PICK h \in Operation \cup {NoHash} : h = hash
      BY <1>2
    <2>2. Appends(c, h)
      BY <1>5, <2>1 DEF Appends
    <2> QED
      BY <1>1, <1>5, <2>2, ItemCommits
  <1>6. ASSUME NEW n \in Records(c, key), ItemEnds(c, n, TRUE), log' = log
        PROVE  ServiceInv'
    BY <1>1, <1>6, ItemHitStep
  <1> HIDE DEF dry, hash
  <1>7. \/ \E e \in BusinessErrors[o.op] \cup {"ErrIdempotencyKeyConflict"} : ItemFails(c, e) /\ log' = log
        \/ dry /\ log' = log /\ ItemEnds(c, DryRunEvent, FALSE)
        \/ /\ Holders(c, key) = {} /\ log' = Append(log, Event(c, o.op, key, hash))
           /\ ItemEnds(c, Len(log) + 1, FALSE) \/ ItemFails(c, "Other")
        \/ \E n \in Records(c, key) : ItemEnds(c, n, TRUE) /\ log' = log
    BY Zenon DEF WriteItem, dry, hash
  <1> QED
    BY <1>3, <1>4, <1>5, <1>6, <1>7

-----------------------------------------------------------------------------
(***************************************************************************)
(* The transaction of an all-or-nothing batch.                             *)
(***************************************************************************)
EventsOf(c) ==
    [i \in DOMAIN ItemsOf(c) |-> Event(c, ItemsOf(c)[i].operation.op, KeyOf(c, i), NoHash)]

AppendsAll(c) == log' = log \o EventsOf(c)

\* No key of the batch is in the log, and none is in the batch twice.
KeysAreFree(c) ==
    \A i \in DOMAIN ItemsOf(c) :
        /\ Holders(c, KeyOf(c, i)) = {}
        /\ \A j \in 1..(i - 1) : ~(KeyOf(c, j) = KeyOf(c, i) /\ KeyOf(c, i) # None)

(***************************************************************************)
(* What the log is after the commit.                                       *)
(***************************************************************************)
LEMMA AllAppended ==
    ASSUME ServiceInv, NEW c \in Calls, call[c].pc = "all", AppendsAll(c)
    PROVE  /\ log' \in Seq(EventState) /\ LogGrows
           /\ ItemsOf(c) \in Seq(Nested) /\ Len(log) \in Nat /\ Len(ItemsOf(c)) \in Nat
           /\ DOMAIN log = 1..Len(log) /\ DOMAIN log' = 1..(Len(log) + Len(ItemsOf(c)))
           /\ DOMAIN ItemsOf(c) = 1..Len(ItemsOf(c))
           /\ \A i \in 1..Len(ItemsOf(c)) :
                 /\ log'[Len(log) + i].call = c /\ log'[Len(log) + i].ledger = LedgerOf(c)
                 /\ log'[Len(log) + i].key = KeyOf(c, i)
                 /\ log'[Len(log) + i].type # "policy_denied"
                 /\ log'[Len(log) + i].version = Len(policies[LedgerOf(c)])
  <1> DEFINE items == ItemsOf(c)
             events == EventsOf(c)
  <1>1. LedgerOf(c) \in Ledgers /\ items \in Seq(Nested)
    BY SubmissionFacts DEF ServiceInv, CallInv, Submitting, Planning
  <1>2. ASSUME NEW i \in DOMAIN items
        PROVE  /\ Event(c, items[i].operation.op, KeyOf(c, i), NoHash) \in EventState
               /\ Event(c, items[i].operation.op, KeyOf(c, i), NoHash).call = c
               /\ Event(c, items[i].operation.op, KeyOf(c, i), NoHash).ledger = LedgerOf(c)
               /\ Event(c, items[i].operation.op, KeyOf(c, i), NoHash).key = KeyOf(c, i)
               /\ Event(c, items[i].operation.op, KeyOf(c, i), NoHash).type # "policy_denied"
               /\ Event(c, items[i].operation.op, KeyOf(c, i), NoHash).version = Len(policies[LedgerOf(c)])
    <2>1. items[i] \in Nested
      BY <1>1, <1>2
    <2>2. items[i].operation \in Operation /\ KeyOf(c, i) \in Keys \cup {None}
      BY <2>1 DEF Nested, KeyOf
    <2>3. items[i].operation.op \in OperationTypes /\ items[i].operation.op # "policy_denied"
      BY <2>2, OperationFacts
    <2>4. Len(policies[LedgerOf(c)]) \in Nat
      BY <1>1 DEF ServiceInv, Typed
    <2> HIDE DEF items
    <2> QED
      BY <1>1, <2>2, <2>3, <2>4 DEF Event, EventState
  <1>3. DOMAIN items = 1..Len(items) /\ Len(items) \in Nat
    BY <1>1
  <1>4. /\ events \in Seq(EventState) /\ Len(events) = Len(items)
        /\ \A i \in 1..Len(items) : events[i] = Event(c, items[i].operation.op, KeyOf(c, i), NoHash)
    <2>1. events = [i \in 1..Len(items) |-> Event(c, items[i].operation.op, KeyOf(c, i), NoHash)]
      BY <1>3 DEF EventsOf
    <2>2. \A i \in 1..Len(items) : Event(c, items[i].operation.op, KeyOf(c, i), NoHash) \in EventState
      BY <1>2, <1>3
    <2> HIDE DEF items, events
    <2> QED
      BY <1>3, <2>1, <2>2
  <1>5. log \in Seq(EventState) /\ Len(log) \in Nat /\ DOMAIN log = 1..Len(log)
    BY DEF ServiceInv, Typed
  <1> HIDE DEF events
  <1>6. log' = log \o events
    BY DEF AppendsAll, events
  <1>7. /\ log' \in Seq(EventState) /\ Len(log') = Len(log) + Len(items)
        /\ \A n \in 1..Len(log) : log'[n] = log[n]
        /\ \A i \in 1..Len(items) : log'[Len(log) + i] = events[i]
    <2> HIDE DEF items
    <2>1. /\ log \o events \in Seq(EventState) /\ Len(log \o events) = Len(log) + Len(events)
          /\ \A n \in 1..(Len(log) + Len(events)) :
                (log \o events)[n] = IF n <= Len(log) THEN log[n] ELSE events[n - Len(log)]
      BY <1>4, <1>5, ConcatProperties, ZenonT(40)
    <2>2. ASSUME NEW i \in 1..Len(items) PROVE log'[Len(log) + i] = events[i]
      <3>1. Len(log) + i \in 1..(Len(log) + Len(events)) /\ ~(Len(log) + i <= Len(log))
            /\ (Len(log) + i) - Len(log) = i
        BY <1>3, <1>4, <1>5
      <3> QED
        BY <1>6, <2>1, <3>1
    <2>3. ASSUME NEW n \in 1..Len(log) PROVE log'[n] = log[n]
      <3>1. n \in 1..(Len(log) + Len(events)) /\ n <= Len(log)
        BY <1>3, <1>4, <1>5
      <3> QED
        BY <1>6, <2>1, <3>1
    <2> QED
      BY <1>4, <1>6, <2>1, <2>2, <2>3
  <1>8. DOMAIN log' = 1..(Len(log) + Len(items))
    BY <1>7
  <1>9. LogGrows
    BY <1>3, <1>5, <1>7 DEF LogGrows
  <1>10. ASSUME NEW i \in 1..Len(items)
         PROVE  /\ log'[Len(log) + i].call = c /\ log'[Len(log) + i].ledger = LedgerOf(c)
                /\ log'[Len(log) + i].key = KeyOf(c, i)
                /\ log'[Len(log) + i].type # "policy_denied"
                /\ log'[Len(log) + i].version = Len(policies[LedgerOf(c)])
    <2>1. i \in DOMAIN items /\ log'[Len(log) + i] = Event(c, items[i].operation.op, KeyOf(c, i), NoHash)
      BY <1>3, <1>4, <1>7
    <2> HIDE DEF items
    <2> QED
      BY <1>2, <2>1
  <1> QED
    BY <1>1, <1>3, <1>5, <1>7, <1>8, <1>9, <1>10

(***************************************************************************)
(* What follows the first L numbers is one of the next N.                  *)
(***************************************************************************)
LEMMA Offset ==
    ASSUME NEW L \in Nat, NEW N \in Nat, NEW n \in 1..(L + N), n \notin 1..L
    PROVE  \E i \in 1..N : n = L + i
  <1>1. n - L \in 1..N /\ n = L + (n - L)
    OBVIOUS
  <1> QED
    BY <1>1

(***************************************************************************)
(* The keys of the batch join those of the log.                            *)
(***************************************************************************)
LEMMA AllKeepsKeys ==
    ASSUME ServiceInv, NEW c \in Calls, call[c].pc = "all", AppendsAll(c), KeysAreFree(c)
    PROVE  UniqueKeys'
  <1> DEFINE L == Len(log)
             N == Len(ItemsOf(c))
  <1>1. /\ L \in Nat /\ N \in Nat /\ DOMAIN log = 1..L /\ DOMAIN log' = 1..(L + N)
        /\ DOMAIN ItemsOf(c) = 1..N
        /\ \A n \in 1..L : log'[n] = log[n]
        /\ \A i \in 1..N : log'[L + i].ledger = LedgerOf(c) /\ log'[L + i].key = KeyOf(c, i)
    BY AllAppended DEF LogGrows
  <1> HIDE DEF L, N
  <1>2. \A m, n \in 1..L :
           log'[m].key # None /\ log'[m].key = log'[n].key /\ log'[m].ledger = log'[n].ledger => m = n
    BY <1>1 DEF ServiceInv, UniqueKeys
  <1>3. ASSUME NEW m \in 1..L, NEW i \in 1..N
        PROVE  ~(log'[m].key # None /\ log'[m].key = log'[L + i].key /\ log'[m].ledger = log'[L + i].ledger)
    <2>1. /\ log'[m] = log[m] /\ log'[L + i].key = KeyOf(c, i)
          /\ log'[L + i].ledger = LedgerOf(c) /\ m \in DOMAIN log
      BY <1>1
    <2>2. Holders(c, KeyOf(c, i)) = {}
      BY <1>1 DEF KeysAreFree
    <2> QED
      BY <2>1, <2>2 DEF Holders
  <1>4. ASSUME NEW i \in 1..N, NEW j \in 1..N, j < i
        PROVE  ~(log'[L + i].key # None /\ log'[L + i].key = log'[L + j].key)
    <2>1. j \in 1..(i - 1)
      BY <1>1, <1>4
    <2> QED
      BY <1>1, <2>1 DEF KeysAreFree
  <1>5. ASSUME NEW m \in 1..(L + N), NEW n \in 1..(L + N),
               log'[m].key # None, log'[m].key = log'[n].key, log'[m].ledger = log'[n].ledger
        PROVE  m = n
    <2>1. CASE m \in 1..L /\ n \in 1..L
      BY <1>2, <1>5, <2>1
    <2>2. CASE m \in 1..L /\ n \notin 1..L
      <3>1. PICK i \in 1..N : n = L + i
        BY <1>1, <2>2, Offset
      <3> QED
        BY <1>3, <1>5, <2>2, <3>1
    <2>3. CASE m \notin 1..L /\ n \in 1..L
      <3>1. PICK i \in 1..N : m = L + i
        BY <1>1, <2>3, Offset
      <3> QED
        BY <1>3, <1>5, <2>3, <3>1
    <2>4. CASE m \notin 1..L /\ n \notin 1..L
      <3>1. PICK i \in 1..N : m = L + i
        BY <1>1, <2>4, Offset
      <3>2. PICK j \in 1..N : n = L + j
        BY <1>1, <2>4, Offset
      <3>3. ~(j < i) /\ ~(i < j)
        BY <1>4, <1>5, <3>1, <3>2
      <3> QED
        BY <3>1, <3>2, <3>3
    <2> QED
      BY <2>1, <2>2, <2>3, <2>4
  <1> QED
    BY <1>1, <1>5 DEF UniqueKeys

(***************************************************************************)
(* The batch commits, whatever its client is told.                         *)
(***************************************************************************)
LEMMA AllCommits ==
    ASSUME ServiceInv, NEW c \in Calls, call[c].pc = "all", AppendsAll(c), KeysAreFree(c),
           \/ call' = [call EXCEPT ![c].pc = "done",
                         ![c].results = [i \in DOMAIN ItemsOf(c) |-> Len(log) + i]]
           \/ Answer(c, "Internal"),
           UNCHANGED <<policies, now>>
    PROVE  ServiceInv'
  <1> DEFINE L == Len(log)
             N == Len(ItemsOf(c))
  <1>1. /\ log' \in Seq(EventState) /\ LogGrows
        /\ L \in Nat /\ N \in Nat /\ DOMAIN log = 1..L /\ DOMAIN log' = 1..(L + N)
        /\ DOMAIN ItemsOf(c) = 1..N
        /\ \A i \in 1..N :
                 /\ log'[L + i].call = c /\ log'[L + i].ledger = LedgerOf(c)
                 /\ log'[L + i].key = KeyOf(c, i)
                 /\ log'[L + i].type # "policy_denied"
                 /\ log'[L + i].version = Len(policies[LedgerOf(c)])
    BY AllAppended
  <1>2. UniqueKeys'
    BY AllKeepsKeys
  <1>3. /\ CallInv(c) /\ call[c] \in CallState /\ Own(c) = {} /\ call[c].results = << >>
        /\ IsBatch(c) /\ ModeOf(c) = "ALL_OR_NOTHING" /\ call[c].code = "OK"
        /\ call[c].pc \in Submitting /\ call[c].pc \in Planning
    BY DEF ServiceInv, Typed, CallInv, Placed, Early, Submitting, Planning
  <1> HIDE DEF L, N
  <1>4. Own(c)' = (L + 1)..(L + N)
    <2>1. \A n \in 1..L : log'[n] = log[n] /\ log[n].call # c
      BY <1>1, <1>3 DEF LogGrows, Own
    <2>2. \A n \in (L + 1)..(L + N) : n \in 1..(L + N) /\ log'[n].call = c
      <3> SUFFICES ASSUME NEW n \in (L + 1)..(L + N) PROVE n \in 1..(L + N) /\ log'[n].call = c
        OBVIOUS
      <3>1. PICK i \in 1..N : n = L + i
        <4>1. n \in 1..(L + N) /\ n \notin 1..L
          BY <1>1
        <4> QED
          BY <1>1, <4>1, Offset
      <3> QED
        BY <1>1, <3>1
    <2>3. \A n \in 1..(L + N) : n \in 1..L \/ n \in (L + 1)..(L + N)
      BY <1>1
    <2> QED
      BY <1>1, <2>1, <2>2, <2>3 DEF Own
  <1>5. \A n \in Own(c)' : \E i \in 1..N : n = L + i
    <2>1. \A n \in (L + 1)..(L + N) : n \in 1..(L + N) /\ n \notin 1..L
      BY <1>1
    <2> QED
      BY <1>1, <1>4, <2>1, Offset
  <1>6. \A n \in Own(c)' : log'[n].type # "policy_denied"
    BY <1>1, <1>5
  <1>7. Effects(c)' = Own(c)'
    BY <1>6 DEF Effects, Own
  <1>8. Cardinality(Effects(c)') = N
    <2>1. L + 1 \in Int /\ L + N \in Int
      BY <1>1
    <2>2. Cardinality((L + 1)..(L + N)) = IF L + 1 > L + N THEN 0 ELSE (L + N) - (L + 1) + 1
      BY <2>1, FS_Interval
    <2> QED
      BY <1>1, <1>4, <1>7, <2>2
  <1>9. /\ call' \in [Calls -> CallState] /\ CallInv(c)' /\ Keeps(c)
        /\ call'[c].admitted = call[c].admitted
        /\ \A d \in Calls : d # c => call'[d] = call[d]
    <2>1. CASE Answer(c, "Internal")
      BY <1>3, <1>6, <1>8, <2>1, UncertainAnswer DEF N
    <2>2. CASE call' = [call EXCEPT ![c].pc = "done",
                          ![c].results = [i \in DOMAIN ItemsOf(c) |-> Len(log) + i]]
      <3> DEFINE r == [i \in 1..N |-> L + i]
                 k == [call[c] EXCEPT !.pc = "done", !.results = r]
      <3>1. r \in Seq(Int) /\ Len(r) = N /\ DOMAIN r = 1..N /\ \A i \in 1..N : r[i] = L + i
        BY <1>1, SMTT(30)
      <3>2. call' = [call EXCEPT ![c].pc = "done", ![c].results = r]
        BY <1>1, <2>2 DEF L
      <3> HIDE DEF r
      <3>3. call' = [call EXCEPT ![c] = k]
        BY <1>3, <3>2 DEF ServiceInv, Typed, CallState
      <3>4. k \in CallState
        BY <1>3, <3>1 DEF CallState
      <3>5. /\ k.pc = "done" /\ k.results = r /\ k.req = call[c].req /\ k.since = call[c].since
            /\ k.admitted = call[c].admitted /\ k.code = "OK"
        BY <1>3 DEF CallState
      <3> HIDE DEF k
      <3>6. call' \in [Calls -> CallState] /\ call'[c] = k /\ \A d \in Calls : d # c => call'[d] = call[d]
        BY <3>3, <3>4 DEF ServiceInv, Typed
      <3>7. /\ Req(c)' = Req(c) /\ LedgerOf(c)' = LedgerOf(c) /\ Operation1(c)' = Operation1(c)
            /\ (IsBatch(c)' <=> IsBatch(c))
        BY <3>5, <3>6 DEF Req, LedgerOf, Operation1, IsBatch
      <3>8. ModeOf(c)' = ModeOf(c) /\ ItemsOf(c)' = ItemsOf(c)
        BY <3>7 DEF ModeOf, ItemsOf
      <3>9. Passed(c)'
        BY <1>3, <3>5, <3>6, <3>7 DEF CallInv, Passed, Planning, Submitting, Serving, Running
      <3>10. Placed(c)'
        BY <1>6, <3>5, <3>6 DEF Placed, Early
      <3>11. Refused(c)' /\ Single(c)'
        BY <1>3, <3>5, <3>6, <3>7 DEF Refused, Single, Submitted, Definite
      <3>12. Batched(c)'
        <4>1. \A i \in DOMAIN r :
                 /\ i <= N /\ r[i] \in DOMAIN log' /\ log'[r[i]].key = KeyOf(c, i)
          <5> SUFFICES ASSUME NEW i \in 1..N
                       PROVE  i <= N /\ L + i \in DOMAIN log' /\ log'[L + i].key = KeyOf(c, i)
            BY <3>1
          <5> QED
            BY <1>1
        <4>2. Cardinality(Effects(c)') = Len(ItemsOf(c)) /\ Len(r) = Len(ItemsOf(c))
          BY <1>8, <3>1 DEF N
        <4> QED
          BY <3>5, <3>6, <3>8, <4>1, <4>2 DEF Batched, KeyOf, N
      <3> QED
        BY <3>5, <3>6, <3>9, <3>10, <3>11, <3>12 DEF CallInv, Keeps
    <2> QED
      BY <2>1, <2>2
  <1>10. Typed'
    BY <1>1, <1>9 DEF ServiceInv, Typed
  <1>11. ASSUME NEW n \in DOMAIN log', n \notin DOMAIN log
         PROVE  log'[n].call = c /\ EventInv(n)'
    <2>1. PICK i \in 1..N : n = L + i
      BY <1>1, <1>11, Offset
    <2>2. /\ log'[n].call = c /\ log'[n].ledger = LedgerOf(c)
          /\ log'[n].version = Len(policies[LedgerOf(c)])
      BY <1>1, <2>1
    <2> QED
      BY <1>3, <1>9, <2>2, EventWritten
  <1> QED
    BY <1>1, <1>2, <1>3, <1>9, <1>10, <1>11, StepOfCall

(***************************************************************************)
(* The transaction of a batch, in each of its outcomes.                    *)
(***************************************************************************)
LEMMA WriteAllInv ==
    ASSUME ServiceInv, NEW c \in Calls, WriteAll(c)
    PROVE  ServiceInv'
  <1>1. call[c].pc = "all" /\ UNCHANGED <<policies, now>>
    BY DEF WriteAll
  <1>2. /\ InFlight(c) /\ Own(c) = {} /\ call[c].pc \in Submitting /\ Passed(c)
    BY <1>1 DEF InFlight, ServiceInv, CallInv, Placed, Early, Submitting, Planning
  <1>3. ItemsOf(c) \in Seq(Nested)
    BY <1>2, SubmissionFacts DEF ServiceInv
  <1>4. CASE log' = log /\ \E e \in DOMAIN MapPlannerError : Answer(c, MapPlannerError[e])
    BY <1>1, <1>2, <1>4, ErrorFacts, AnswerStep
  <1>5. CASE /\ KeysAreFree(c) /\ AppendsAll(c)
             /\ \/ call' = [call EXCEPT ![c].pc = "done",
                              ![c].results = [i \in DOMAIN ItemsOf(c) |-> Len(log) + i]]
                \/ Answer(c, "Internal")
    BY <1>1, <1>5, AllCommits
  <1>6. ASSUME NEW i \in DOMAIN ItemsOf(c)
        PROVE  BusinessErrors[ItemsOf(c)[i].operation.op] \subseteq DOMAIN MapPlannerError
    <2>1. ItemsOf(c)[i].operation \in Operation
      <3>1. ItemsOf(c)[i] \in Nested
        BY <1>3, <1>6
      <3> QED
        BY <3>1 DEF Nested
    <2> QED
      BY <2>1, OperationFacts, ErrorFacts
  <1>7. \/ log' = log /\ \E e \in DOMAIN MapPlannerError : Answer(c, MapPlannerError[e])
        \/ /\ KeysAreFree(c) /\ AppendsAll(c)
           /\ \/ call' = [call EXCEPT ![c].pc = "done",
                            ![c].results = [i \in DOMAIN ItemsOf(c) |-> Len(log) + i]]
              \/ Answer(c, "Internal")
    <2>1. "ErrIdempotencyKeyConflict" \in DOMAIN MapPlannerError
      BY ErrorFacts
    <2> QED
      BY <1>6, <2>1, Zenon DEF WriteAll, KeysAreFree, AppendsAll, EventsOf
  <1> QED
    BY <1>4, <1>5, <1>7

-----------------------------------------------------------------------------
(***************************************************************************)
(* The limiter lets a call through to its handler, or refuses it.          *)
(***************************************************************************)
LEMMA LimitedCall ==
    ASSUME ServiceInv, NEW c \in Calls, call[c].pc = "incr", UNCHANGED <<log, policies, now>>,
           NEW k \in CallState, call' = [call EXCEPT ![c] = k],
           k.req = call[c].req, k.since = call[c].since,
           k.results = call[c].results, k.pos = call[c].pos,
           \/ k.pc = "handler" /\ k.code = "OK" /\ k.admitted \in Admitted
           \/ k.pc = "done" /\ k.code = "ResourceExhausted"
    PROVE  ServiceInv'
  <1>0. call[c] \in CallState /\ CallInv(c)
    BY DEF ServiceInv, Typed
  <1>1. call' \in [Calls -> CallState] /\ call'[c] = k /\ \A d \in Calls : d # c => call'[d] = call[d]
    BY DEF ServiceInv, Typed
  <1>2. Typed'
    BY <1>1 DEF ServiceInv, Typed
  <1>3. Keeps(c)
    BY <1>1 DEF Keeps
  <1>4. Own(c) = {} /\ Effects(c) = {} /\ k.results = << >> /\ k.pos = 1
    BY <1>0 DEF CallInv, Placed, Early, Own, Effects
  <1>5. /\ Req(c)' = Req(c) /\ LedgerOf(c)' = LedgerOf(c) /\ Operation1(c)' = Operation1(c)
        /\ (IsBatch(c)' <=> IsBatch(c)) /\ Own(c)' = {} /\ Effects(c)' = {}
    BY <1>1, <1>4 DEF Req, LedgerOf, Operation1, IsBatch, Own, Effects
  <1>6. Passed(c)'
    BY <1>0, <1>1, <1>5 DEF CallInv, Passed, Planning, Submitting, Serving, Running
  <1>7. Placed(c)'
    BY <1>1, <1>4, <1>5 DEF Placed, Early
  <1>8. ~Succeeded(c)' /\ Refused(c)' /\ Single(c)'
    BY <1>1, <1>5 DEF Refused, Single, Succeeded, Submitted
  <1>9. Batched(c)'
    <2>1. Cardinality({}) = 0
      BY FS_EmptySet
    <2> QED
      BY <1>1, <1>4, <1>5, <1>8, <2>1 DEF Batched
  <1> QED
    BY <1>1, <1>2, <1>3, <1>4, <1>6, <1>7, <1>8, <1>9, SilentStep DEF CallInv

(***************************************************************************)
(* Counting a call, or failing to.                                         *)
(***************************************************************************)
LEMMA IncrInv ==
    ASSUME ServiceInv, NEW c \in Calls, Incr(c) \/ IncrFails(c)
    PROVE  ServiceInv'
  <1>0. call[c] \in CallState /\ call \in [Calls -> CallState] /\ now \in Nat
    BY DEF ServiceInv, Typed
  <1>1. CASE Incr(c)
    <2> DEFINE ok == Count(CounterOf(c)) + 1 <= LimitFor(Req(c).method)
               k == [call[c] EXCEPT !.pc = IF ok THEN "handler" ELSE "done",
                                    !.code = IF ok THEN "OK" ELSE "ResourceExhausted",
                                    !.admitted = IF ok THEN "counted" ELSE "refused",
                                    !.time = now]
    <2> HIDE DEF ok
    <2>1. k \in CallState
      BY <1>0 DEF CallState, Running, Serving, Admitted, Codes
    <2>2. /\ k.pc = (IF ok THEN "handler" ELSE "done") /\ k.req = call[c].req
          /\ k.since = call[c].since /\ k.results = call[c].results /\ k.pos = call[c].pos
          /\ k.code = (IF ok THEN "OK" ELSE "ResourceExhausted")
          /\ k.admitted = (IF ok THEN "counted" ELSE "refused")
      BY <1>0 DEF CallState
    <2>3. call' = [call EXCEPT ![c] = k]
      BY <1>0, <1>1 DEF Incr, ok, CallState
    <2>4. call[c].pc = "incr" /\ UNCHANGED <<log, policies, now>>
      BY <1>1 DEF Incr
    <2> HIDE DEF k
    <2> QED
      BY <2>1, <2>2, <2>3, <2>4, LimitedCall DEF Admitted
  <1>2. CASE IncrFails(c)
    <2> DEFINE k == [call[c] EXCEPT !.pc = "handler", !.admitted = "open"]
    <2>1. k \in CallState
      BY <1>0 DEF CallState, Running, Serving, Admitted
    <2>2. /\ k.pc = "handler" /\ k.req = call[c].req /\ k.code = call[c].code
          /\ k.since = call[c].since /\ k.results = call[c].results /\ k.pos = call[c].pos
          /\ k.admitted = "open"
      BY <1>0 DEF CallState
    <2>3. call' = [call EXCEPT ![c] = k]
      BY <1>0, <1>2 DEF IncrFails, CallState
    <2>4. call[c].pc = "incr" /\ UNCHANGED <<log, policies, now>>
      BY <1>2 DEF IncrFails
    <2>5. call[c].code = "OK"
      BY <2>4 DEF ServiceInv, CallInv, Placed
    <2> HIDE DEF k
    <2> QED
      BY <2>1, <2>2, <2>3, <2>4, <2>5, LimitedCall DEF Admitted
  <1> QED
    BY <1>1, <1>2

(***************************************************************************)
(* A call that is refused on arrival, or let in.                           *)
(***************************************************************************)
LEMMA ArrivalFacts ==
    ASSUME Typed, NEW r \in Requests
    PROVE  /\ Arrival(r) \in CallState
           /\ Arrival(r).req = r /\ Arrival(r).results = << >> /\ Arrival(r).pos = 1
           /\ \/ ~Admits(r) /\ Arrival(r).pc = "done" /\ Arrival(r).code = "Unauthenticated"
                 /\ Arrival(r).since = 0
              \/ /\ Admits(r) /\ Arrival(r).code = "OK"
                 /\ \/ Arrival(r).pc = "handler" /\ Arrival(r).admitted = "unlimited"
                    \/ Arrival(r).pc = "incr" /\ Arrival(r).admitted = "no"
                 /\ Arrival(r).since = (IF r.ledger = None THEN 0 ELSE Len(policies[r.ledger]))
  <1>1. r \in Request
    BY RequestsAssumption
  <1>2. (IF r.ledger = None THEN 0 ELSE Len(policies[r.ledger])) \in Nat
    BY <1>1 DEF Request, Typed
  <1>3. CASE ~Admits(r)
    <2>1. Arrival(r) = [pc |-> "done", req |-> r, since |-> 0, window |-> 0, admitted |-> "no", time |-> 0,
                        pos |-> 1, results |-> << >>, code |-> "Unauthenticated", event |-> 0, hit |-> FALSE, id |-> FALSE]
      BY <1>3 DEF Arrival, Free, NoEvent
    <2>2. Arrival(r) \in CallState
      BY <1>1, <2>1, EmptySeq DEF CallState, Codes
    <2> QED
      BY <1>3, <2>1, <2>2
  <1>4. CASE Admits(r)
    <2>1. PICK since \in Nat : since = IF r.ledger = None THEN 0 ELSE Len(policies[r.ledger])
      BY <1>2
    <2>2. PICK window \in Nat : window = IF LimitFor(r.method) = 0 THEN 0 ELSE now
      BY DEF Typed
    <2>3. CASE LimitFor(r.method) = 0
      <3>1. Arrival(r) = [pc |-> "handler", req |-> r, since |-> since, window |-> window, admitted |-> "unlimited", time |-> 0,
                          pos |-> 1, results |-> << >>, code |-> "OK", event |-> 0, hit |-> FALSE, id |-> FALSE]
        BY <1>4, <2>1, <2>2, <2>3, ZenonT(40) DEF Arrival, Free, NoEvent
      <3>2. Arrival(r) \in CallState
        BY <1>1, <3>1, EmptySeq DEF CallState, Codes, Running, Serving, Admitted
      <3> QED
        BY <1>4, <2>1, <3>1, <3>2
    <2>4. CASE LimitFor(r.method) # 0
      <3>1. Arrival(r) = [pc |-> "incr", req |-> r, since |-> since, window |-> window, admitted |-> "no", time |-> 0,
                          pos |-> 1, results |-> << >>, code |-> "OK", event |-> 0, hit |-> FALSE, id |-> FALSE]
        BY <1>4, <2>1, <2>2, <2>4 DEF Arrival, Free, NoEvent
      <3>2. Arrival(r) \in CallState
        BY <1>1, <3>1, EmptySeq DEF CallState, Codes, Running, Serving, Admitted
      <3> QED
        BY <1>4, <2>1, <3>1, <3>2
    <2> QED
      BY <2>3, <2>4
  <1> QED
    BY <1>3, <1>4

(***************************************************************************)
(* Arrival.  The place of the call was free, so no event is of this call.  *)
(***************************************************************************)
LEMMA ArriveInv ==
    ASSUME ServiceInv, NEW c \in Calls, NEW r \in Requests, Arrive(c, r)
    PROVE  ServiceInv'
  <1> DEFINE k == Arrival(r)
  <1> HIDE DEF k
  <1>0. r \in Request /\ Typed
    BY RequestsAssumption DEF ServiceInv
  <1>1. /\ call' = [call EXCEPT ![c] = k] /\ call[c].pc = "free"
        /\ UNCHANGED <<log, policies, now>>
    BY DEF Arrive, k
  <1>2. /\ k \in CallState /\ k.req = r /\ k.results = << >> /\ k.pos = 1
        /\ \/ ~Admits(r) /\ k.pc = "done" /\ k.code = "Unauthenticated" /\ k.since = 0
           \/ /\ Admits(r) /\ k.code = "OK"
              /\ \/ k.pc = "handler" /\ k.admitted = "unlimited"
                 \/ k.pc = "incr" /\ k.admitted = "no"
              /\ k.since = (IF r.ledger = None THEN 0 ELSE Len(policies[r.ledger]))
    BY <1>0, ArrivalFacts DEF k
  <1>3. call' \in [Calls -> CallState] /\ call'[c] = k /\ \A d \in Calls : d # c => call'[d] = call[d]
    BY <1>0, <1>1, <1>2 DEF Typed
  <1>4. Typed' /\ LogGrows /\ PoliciesGrow
    BY <1>0, <1>1, <1>3 DEF Typed, LogGrows, PoliciesGrow
  <1>5. Own(c) = {}
    BY <1>1 DEF ServiceInv, CallInv, Placed, Early
  <1>6. CallInv(c)'
    <2>1. Req(c)' = r /\ LedgerOf(c)' = r.ledger /\ Own(c)' = {} /\ Effects(c)' = {}
      BY <1>1, <1>2, <1>3, <1>5 DEF Req, LedgerOf, Own, Effects
    <2>2. Passed(c)'
      <3>1. r.ledger # None => Len(policies'[r.ledger]) \in Nat /\ policies' = policies
        BY <1>0, <1>1 DEF Request, Typed
      <3> QED
        BY <1>2, <1>3, <2>1, <3>1 DEF Passed, Planning, Submitting, Serving, Running, Admitted
    <2>3. Placed(c)'
      BY <1>2, <1>3, <2>1 DEF Placed, Early
    <2>4. ~Succeeded(c)' /\ Refused(c)' /\ Single(c)'
      BY <1>2, <1>3, <2>1 DEF Refused, Single, Succeeded, Submitted
    <2>5. Batched(c)'
      <3>1. Cardinality({}) = 0
        BY FS_EmptySet
      <3> QED
        BY <1>2, <1>3, <2>1, <2>4, <3>1 DEF Batched
    <2> QED
      BY <2>2, <2>3, <2>4, <2>5 DEF CallInv
  <1>7. ASSUME NEW d \in Calls PROVE CallInv(d)'
    <2>1. CASE d = c
      BY <1>6, <2>1
    <2>2. CASE d # c
      BY <1>0, <1>1, <1>3, <1>4, <2>2, OtherCall DEF ServiceInv
    <2> QED
      BY <2>1, <2>2
  <1>8. ASSUME NEW n \in DOMAIN log' PROVE EventInv(n)'
    <2>1. n \in DOMAIN log /\ EventInv(n)
      BY <1>1 DEF ServiceInv
    <2>2. PICK d \in Calls : d = log[n].call
      <3>1. log[n] \in EventState
        BY <1>0, <2>1 DEF Typed
      <3> QED
        BY <3>1 DEF EventState
    <2>3. d # c
      BY <1>5, <2>1, <2>2 DEF Own
    <2>4. Keeps(d) /\ call'[d].admitted \in Admitted
      BY <1>3, <2>1, <2>2, <2>3 DEF Keeps, EventInv
    <2> QED
      BY <1>0, <1>4, <2>1, <2>2, <2>4, EventStays
  <1>9. UniqueKeys'
    BY <1>1 DEF ServiceInv, UniqueKeys
  <1> QED
    BY <1>4, <1>7, <1>8, <1>9 DEF ServiceInv

(***************************************************************************)
(* Steps that touch no call, no event and no policy but a new one.         *)
(***************************************************************************)
LEMMA WorldStep ==
    ASSUME ServiceInv, Typed', PoliciesGrow, UNCHANGED <<call, log>>
    PROVE  ServiceInv'
  <1>1. LogGrows /\ Typed
    BY DEF LogGrows, ServiceInv, Typed
  <1>2. \A d \in Calls : CallInv(d)'
    BY <1>1, OtherCall DEF ServiceInv
  <1>3. ASSUME NEW n \in DOMAIN log' PROVE EventInv(n)'
    <2>1. n \in DOMAIN log /\ EventInv(n)
      BY DEF ServiceInv
    <2>2. PICK d \in Calls : d = log[n].call
      <3>1. log[n] \in EventState
        BY <1>1, <2>1 DEF Typed
      <3> QED
        BY <3>1 DEF EventState
    <2>3. Keeps(d) /\ call'[d].admitted \in Admitted
      BY <2>1, <2>2 DEF Keeps, EventInv
    <2> QED
      BY <1>1, <2>1, <2>2, <2>3, EventStays
  <1>4. UniqueKeys'
    BY DEF ServiceInv, UniqueKeys
  <1> QED
    BY <1>2, <1>3, <1>4 DEF ServiceInv

(***************************************************************************)
(* A policy is replaced.                                                   *)
(***************************************************************************)
LEMMA InsertPolicyInv ==
    ASSUME ServiceInv, NEW l \in Existing, NEW policy \in Policies, InsertPolicy(l, policy)
    PROVE  ServiceInv'
  <1>1. l \in Ledgers /\ Typed /\ policies \in [Ledgers -> Seq(Policies)]
    BY ServiceAssumption DEF ServiceInv, Typed
  <1>2. policies' = [policies EXCEPT ![l] = Append(policies[l], policy)]
        /\ UNCHANGED <<call, log, now>>
    BY DEF InsertPolicy
  <1>3. Typed'
    BY <1>1, <1>2 DEF Typed
  <1>4. PoliciesGrow
    <2> SUFFICES ASSUME NEW m \in Ledgers
                 PROVE  /\ Len(policies[m]) <= Len(policies'[m])
                        /\ \A v \in 1..Len(policies[m]) : policies'[m][v] = policies[m][v]
      BY DEF PoliciesGrow
    <2>1. CASE m = l
      BY <1>1, <1>2, <2>1
    <2>2. CASE m # l
      BY <1>1, <1>2, <2>2
    <2> QED
      BY <2>1, <2>2
  <1> QED
    BY <1>2, <1>3, <1>4, WorldStep

(***************************************************************************)
(* The client leaves.                                                      *)
(***************************************************************************)
LEMMA CancelInv ==
    ASSUME ServiceInv, NEW c \in Calls, Cancel(c)
    PROVE  ServiceInv'
  <1> DEFINE code == "Unavailable"
  <1>1. code \in Codes /\ code # "OK" /\ code \notin Definite
    BY DEF Codes, Definite
  <1>2. InFlight(c) /\ UNCHANGED <<log, policies, now>> /\ Answer(c, code)
    BY DEF Cancel
  <1> HIDE DEF code
  <1> QED
    BY <1>1, <1>2, AnswerStep

\* A call in flight when the process ends.
Ended(k) == [k EXCEPT !.pc = "done", !.code = "Unavailable"]

(***************************************************************************)
(* The process ends: every call in flight is answered by its absence.      *)
(***************************************************************************)
LEMMA CrashInv ==
    ASSUME ServiceInv, Crash
    PROVE  ServiceInv'
  <1>1. PICK code \in Codes : code = "Unavailable" /\ code # "OK" /\ code \notin Definite
    BY DEF Codes, Definite
  <1>2. /\ UNCHANGED <<log, policies, now>>
        /\ call' = [c \in Calls |-> IF InFlight(c) THEN Ended(call[c]) ELSE call[c]]
    BY Zenon DEF Crash, Ended
  <1>3. ASSUME NEW c \in Calls
        PROVE  /\ call'[c] \in CallState /\ call'[c].admitted = call[c].admitted
               /\ call'[c].req = call[c].req /\ call'[c].since = call[c].since
               /\ call[c].pc # "free" => call'[c].pc # "free"
    <2>1. call[c] \in CallState
      BY DEF ServiceInv, Typed
    <2>2. CASE InFlight(c)
      <3>1. call'[c] = Ended(call[c])
        BY <1>2, <2>2
      <3> QED
        BY <1>1, <2>1, <2>2, <3>1 DEF CallState, Ended, InFlight
    <2>3. CASE ~InFlight(c)
      BY <1>2, <2>1, <2>3
    <2> QED
      BY <2>2, <2>3
  <1>4. Typed' /\ Typed /\ LogGrows /\ PoliciesGrow
    <2>1. call' \in [Calls -> CallState]
      BY <1>2, <1>3
    <2> QED
      BY <1>2, <2>1 DEF ServiceInv, Typed, LogGrows, PoliciesGrow
  <1>5. ASSUME NEW c \in Calls PROVE CallInv(c)'
    <2>1. CASE InFlight(c)
      <3>1. call'[c] = [call[c] EXCEPT !.pc = "done", !.code = code]
        <4>1. call'[c] = Ended(call[c])
          BY <1>2, <2>1
        <4> QED
          BY <1>1, <4>1 DEF Ended
      <3>2. /\ code = "OK" => Req(c).method # "Submit"
            /\ code \in Definite => Own(c) = {}
            /\ CallInv(c) /\ UNCHANGED <<log, policies>>
        BY <1>1, <1>2 DEF ServiceInv
      <3> QED
        BY <1>4, <2>1, <3>1, <3>2, AnsweredCall, ZenonT(30)
    <2>2. CASE ~InFlight(c)
      <3>1. call'[c] = call[c]
        BY <1>2, <2>2
      <3> QED
        BY <1>2, <1>4, <3>1, OtherCall DEF ServiceInv
    <2> QED
      BY <2>1, <2>2
  <1>6. ASSUME NEW n \in DOMAIN log' PROVE EventInv(n)'
    <2>1. n \in DOMAIN log /\ EventInv(n)
      BY <1>2 DEF ServiceInv
    <2>2. PICK d \in Calls : d = log[n].call
      <3>1. log[n] \in EventState
        BY <1>4, <2>1 DEF Typed
      <3> QED
        BY <3>1 DEF EventState
    <2>3. Keeps(d) /\ call'[d].admitted \in Admitted
      BY <1>3, <2>1, <2>2 DEF Keeps, EventInv
    <2> QED
      BY <1>4, <2>1, <2>2, <2>3, EventStays
  <1>7. UniqueKeys'
    BY <1>2 DEF ServiceInv, UniqueKeys
  <1> QED
    BY <1>4, <1>5, <1>6, <1>7 DEF ServiceInv

-----------------------------------------------------------------------------
(***************************************************************************)
(* The invariant holds at first: every call is free and no event exists.   *)
(***************************************************************************)
LEMMA ServiceInvInit ==
    ASSUME Init
    PROVE  ServiceInv
  <1>0. /\ call = [c \in Calls |-> Free] /\ log = << >> /\ policies = [l \in Ledgers |-> << >>]
        /\ now = 0
    BY DEF Init
  <1>1. Free \in CallState
    <2>1. NoRequest \in Request
      BY DEF NoRequest, Request, NoToken, Token, NoText, Text
    <2> QED
      BY <2>1, EmptySeq DEF Free, CallState, Codes, NoEvent
  <1>2. Typed
    BY <1>0, <1>1, EmptySeq DEF Typed
  <1>3. DOMAIN log = {}
    BY <1>0
  <1>4. ASSUME NEW c \in Calls PROVE CallInv(c)
    <2>1. call[c].pc = "free" /\ call[c].results = << >> /\ call[c].pos = 1
      BY <1>0 DEF Free
    <2>2. Own(c) = {} /\ Effects(c) = {}
      BY <1>3 DEF Own, Effects
    <2>3. Passed(c) /\ Placed(c)
      BY <2>1, <2>2 DEF Passed, Placed, Running, Serving, Submitting, Planning, Early
    <2>4. Refused(c) /\ Single(c) /\ Batched(c)
      BY <2>1 DEF Refused, Single, Batched, Succeeded, Submitted
    <2> QED
      BY <2>3, <2>4 DEF CallInv
  <1> QED
    BY <1>2, <1>3, <1>4 DEF ServiceInv, UniqueKeys

(***************************************************************************)
(* Every step of the service keeps it.                                     *)
(***************************************************************************)
LEMMA ServiceInvNext ==
    ASSUME ServiceInv, [Next]_vars
    PROVE  ServiceInv'
  <1>1. ASSUME NEW c \in Calls, Step(c) PROVE ServiceInv'
    BY <1>1, IncrInv, HandlerInv, SubscribeInv, EvaluatePolicyInv, DenialInv, CheckItemInv,
       WriteItemInv, HandleBatchInv, WriteAllInv DEF Step
  <1>2. ASSUME NEW c \in Calls, Cancel(c) PROVE ServiceInv'
    BY <1>2, CancelInv
  <1>3. ASSUME NEW c \in Calls, NEW r \in Requests, Arrive(c, r) PROVE ServiceInv'
    BY <1>3, ArriveInv
  <1>4. ASSUME NEW l \in Existing, NEW policy \in Policies, InsertPolicy(l, policy) PROVE ServiceInv'
    BY <1>4, InsertPolicyInv
  <1>5. CASE Crash
    BY <1>5, CrashInv
  <1>6. CASE Tick \/ RedisFails \/ RedisRecovers \/ Stop \/ StopEnds \/ Start \/ UNCHANGED vars
    <2>1. UNCHANGED <<call, log, policies>>
      BY <1>6 DEF Tick, RedisFails, RedisRecovers, Stop, StopEnds, Start, vars
    <2>2. now' \in Nat
      BY <1>6 DEF Tick, RedisFails, RedisRecovers, Stop, StopEnds, Start, vars, ServiceInv, Typed
    <2>3. Typed' /\ PoliciesGrow
      BY <2>1, <2>2 DEF ServiceInv, Typed, PoliciesGrow
    <2> QED
      BY <2>1, <2>3, WorldStep
  <1> QED
    BY <1>1, <1>2, <1>3, <1>4, <1>5, <1>6 DEF Next

(***************************************************************************)
(* The inductive invariant of the service: what is true of a call at each  *)
(* step of its way, and of every event (service.go, planner_errors.go).    *)
(***************************************************************************)
THEOREM ServiceInvariance == Spec => []ServiceInv
  <1>1. Init => ServiceInv
    BY ServiceInvInit
  <1>2. ServiceInv /\ [Next]_vars => ServiceInv'
    BY ServiceInvNext
  <1> QED
    BY <1>1, <1>2, PTL DEF Spec

(***************************************************************************)
(* What the invariant says of answers.                                     *)
(***************************************************************************)
LEMMA InvariantAnswers ==
    ASSUME ServiceInv
    PROVE  AnswersAreTrue
  <1> SUFFICES ASSUME NEW c \in Calls
               PROVE  /\ Submitted(c) /\ call[c].code \in Definite => Effects(c) = {}
                      /\ Succeeded(c) /\ ~IsBatch(c) =>
                            IF call[c].event = DryRunEvent
                            THEN Req(c).intent.dry_run /\ Effects(c) = {}
                            ELSE /\ call[c].event \in DOMAIN log
                                 /\ log[call[c].event].ledger = LedgerOf(c)
                                 /\ log[call[c].event].key = Req(c).intent.key
                                 /\ Effects(c) = IF log[call[c].event].call = c
                                                 THEN {call[c].event} ELSE {}
                      /\ Succeeded(c) /\ IsBatch(c) =>
                            /\ Len(call[c].results) = Len(ItemsOf(c))
                            /\ \A i \in DOMAIN call[c].results :
                                  call[c].results[i] # NoEvent =>
                                     log[call[c].results[i]].key = KeyOf(c, i)
                      /\ Submitted(c) /\ IsBatch(c) /\ ModeOf(c) = "ALL_OR_NOTHING" =>
                            Cardinality(Effects(c)) \in {0, Len(ItemsOf(c))}
                      /\ \A n \in DOMAIN log : log[n].call = c /\ log[n].type = "policy_denied" =>
                            Effects(c) = {} /\ call[c].code \in {"PermissionDenied", "Unavailable"}
    BY DEF AnswersAreTrue
  <1>1. CallInv(c)
    BY DEF ServiceInv
  <1>2. DryRunEvent \notin DOMAIN log
    BY DEF ServiceInv, Typed, DryRunEvent
  <1>3. Single(c) /\ Succeeded(c) /\ ~IsBatch(c) =>
          IF call[c].event = DryRunEvent THEN Req(c).intent.dry_run /\ Effects(c) = {}
          ELSE /\ call[c].event \in DOMAIN log
               /\ log[call[c].event].ledger = LedgerOf(c)
               /\ log[call[c].event].key = Req(c).intent.key
               /\ Effects(c) = IF log[call[c].event].call = c THEN {call[c].event} ELSE {}
    BY <1>2 DEF Single
  <1>4. \A n \in DOMAIN log : log[n].call = c /\ log[n].type = "policy_denied" =>
           Effects(c) = {} /\ call[c].code = "PermissionDenied"
    BY <1>1 DEF CallInv, Placed, Own
  <1>5. Refused(c) /\ Single(c) /\ Batched(c)
    BY <1>1 DEF CallInv
  <1> QED
    BY <1>3, <1>4, <1>5 DEF Refused, Batched

(***************************************************************************)
(* What the server answers is true, for any number of calls and any        *)
(* requests: a refusal means nothing was written, a success names the      *)
(* event, a batch is all or nothing when it says so (Submit, handleBatch,  *)
(* mapPlannerError).                                                       *)
(***************************************************************************)
THEOREM ServiceAnswersAreTrue == Spec => []AnswersAreTrue
  <1>1. ServiceInv => AnswersAreTrue
    BY InvariantAnswers
  <1> QED
    BY <1>1, ServiceInvariance, PTL

(***************************************************************************)
(* What the invariant says of two calls with one key.                      *)
(***************************************************************************)
LEMMA InvariantRetries ==
    ASSUME ServiceInv
    PROVE  RetriesAgree
  <1>1. \A c \in Calls : Single(c)
    BY DEF ServiceInv, CallInv
  <1>2. \A m, n \in DOMAIN log :
          log[m].key # None /\ log[m].key = log[n].key /\ log[m].ledger = log[n].ledger => m = n
    BY DEF ServiceInv, UniqueKeys
  <1>3. ASSUME NEW c \in Calls, NEW d \in Calls,
               Succeeded(c), Succeeded(d), ~IsBatch(c), ~IsBatch(d),
               Req(c).intent.key # None, Req(c).intent.key = Req(d).intent.key,
               LedgerOf(c) = LedgerOf(d), DryRunEvent \notin {call[c].event, call[d].event}
        PROVE  call[c].event = call[d].event
    <2>1. /\ call[c].event \in DOMAIN log /\ log[call[c].event].ledger = LedgerOf(c)
          /\ log[call[c].event].key = Req(c).intent.key
      BY <1>1, <1>3 DEF Single
    <2>2. /\ call[d].event \in DOMAIN log /\ log[call[d].event].ledger = LedgerOf(d)
          /\ log[call[d].event].key = Req(d).intent.key
      BY <1>1, <1>3 DEF Single
    <2> QED
      BY <1>2, <1>3, <2>1, <2>2
  <1>4. ASSUME NEW c \in Calls, Succeeded(c), ~IsBatch(c)
        PROVE  /\ call[c].id => Effects(c) # {}
               /\ Effects(c) # {} => ~call[c].hit /\ (Named(Operation1(c)) => call[c].id)
    <2>1. call[c].event \in {call[c].event}
      OBVIOUS
    <2> QED
      BY <1>1, <1>4, <2>1, Zenon DEF Single
  <1> QED
    BY <1>2, <1>3, <1>4 DEF RetriesAgree

(***************************************************************************)
(* A key of a ledger is written once, and the calls that succeed with it   *)
(* name the same event (idempotency of Submit).                            *)
(***************************************************************************)
THEOREM ServiceRetriesAgree == Spec => []RetriesAgree
  <1>1. ServiceInv => RetriesAgree
    BY InvariantRetries
  <1> QED
    BY <1>1, ServiceInvariance, PTL

(***************************************************************************)
(* What the invariant says of the writers of events.                       *)
(***************************************************************************)
LEMMA InvariantEffects ==
    ASSUME ServiceInv
    PROVE  EffectsWereAllowed
  <1> SUFFICES ASSUME NEW n \in DOMAIN log
               PROVE  /\ Authenticates(Req(log[n].call).token)
                      /\ CanAccessLedger(IdentityOf(log[n].call), log[n].ledger)
                      /\ call[log[n].call].admitted \in {"unlimited", "counted", "open"}
                      /\ log[n].type # "policy_denied" =>
                            \E v \in call[log[n].call].since..log[n].version :
                               Verdict(log[n].call, v) = "allowed"
    BY DEF EffectsWereAllowed
  <1>1. EventInv(n)
    BY DEF ServiceInv
  <1> QED
    BY <1>1, Zenon DEF EventInv, AuthorizeLedger, Admitted

(***************************************************************************)
(* Whoever wrote an event authenticated, had the ledger in scope, was      *)
(* admitted, and was allowed by a policy in force between the arrival of   *)
(* the call and the commit (Submit, auth.go, ratelimit.go, policy.go).     *)
(***************************************************************************)
THEOREM ServiceEffectsWereAllowed == Spec => []EffectsWereAllowed
  <1>1. ServiceInv => EffectsWereAllowed
    BY InvariantEffects
  <1> QED
    BY <1>1, ServiceInvariance, PTL

-----------------------------------------------------------------------------
(***************************************************************************)
(* The rate limiter.                                                       *)
(***************************************************************************)

\* What the limiter knows of a call stays what it was, or the call was not
\* counted and is not now.
Untouched(d) ==
    \/ /\ call'[d].admitted = call[d].admitted /\ call'[d].window = call[d].window
       /\ call'[d].time = call[d].time /\ call'[d].req = call[d].req
    \/ call[d].admitted = "no" /\ call'[d].admitted # "counted"

\* The first three parts of the invariant, for one call.
Timed(d) ==
    /\ call[d].window <= now
    /\ call[d].pc \in {"free", "incr"} => call[d].admitted = "no"

\* A call that is no longer free and waits for no counter.
Passes(d) == call'[d] = call[d] \/ call'[d].pc \notin {"free", "incr"}

(***************************************************************************)
(* A counter nobody was admitted by bounds nothing, so the invariant is    *)
(* about every key.                                                        *)
(***************************************************************************)
LEMMA EveryCounter ==
    LimiterInv <=> /\ \A c \in Calls : Timed(c)
                   /\ \A key \in DOMAIN counters :
                         /\ counters[key].n \in Nat /\ counters[key].expires \in Nat
                         /\ counters[key].expires >= key[3] + WindowTTL
                   /\ \A key : CounterInv(key)
  <1>1. ASSUME \A c \in Calls : CounterInv(CounterOf(c)), NEW key
        PROVE  CounterInv(key)
    <2>1. CASE Counted(key) = {}
      BY <2>1 DEF CounterInv
    <2>2. CASE Counted(key) # {}
      <3>1. PICK d \in Calls : CounterOf(d) = key
        BY <2>2 DEF Counted
      <3> QED
        BY <1>1, <3>1
    <2> QED
      BY <2>1, <2>2
  <1> QED
    BY <1>1 DEF LimiterInv, Timed

(***************************************************************************)
(* Counted calls stay the same calls.                                      *)
(***************************************************************************)
LEMMA CountedStays ==
    ASSUME NEW key, \A d \in Calls : Untouched(d)
    PROVE  Counted(key)' = Counted(key)
  <1>1. ASSUME NEW d \in Calls
        PROVE  (/\ call'[d].admitted = "counted"
                /\ CounterOf(d)' = key
                /\ call'[d].time < call'[d].window + WindowTTL)
               <=>
               (/\ call[d].admitted = "counted"
                /\ CounterOf(d) = key
                /\ call[d].time < call[d].window + WindowTTL)
    <2>1. CASE call[d].admitted = "no" /\ call'[d].admitted # "counted"
      BY <2>1
    <2>2. CASE /\ call'[d].admitted = call[d].admitted /\ call'[d].window = call[d].window
               /\ call'[d].time = call[d].time /\ call'[d].req = call[d].req
      <3>1. CounterOf(d)' = CounterOf(d)
        BY <2>2 DEF CounterOf, Req
      <3> QED
        BY <2>2, <3>1
    <2> QED
      BY <2>1, <2>2 DEF Untouched
  <1> QED
    BY <1>1 DEF Counted

(***************************************************************************)
(* The invariant after a step, from what is true of every key.             *)
(***************************************************************************)
LEMMA LimiterHolds ==
    ASSUME \A d \in Calls : Timed(d)',
           \A key \in DOMAIN counters' :
              /\ counters'[key].n \in Nat /\ counters'[key].expires \in Nat
              /\ counters'[key].expires >= key[3] + WindowTTL,
           \A key : CounterInv(key)'
    PROVE  LimiterInv'
  <1>1. ASSUME NEW c \in Calls PROVE CounterInv(CounterOf(c))'
    <2>1. PICK key : key = CounterOf(c)'
      OBVIOUS
    <2>2. CounterInv(key)'
      OBVIOUS
    <2> QED
      BY <2>1, <2>2 DEF CounterInv, Counted
  <1> QED
    BY <1>1 DEF LimiterInv, Timed

(***************************************************************************)
(* A step that counts nothing.                                             *)
(***************************************************************************)
LEMMA UncountedStep ==
    ASSUME Typed, LimiterInv, UNCHANGED counters, \A d \in Calls : Untouched(d) /\ Timed(d)',
           now' \in Nat, now <= now'
    PROVE  LimiterInv'
  <1>1. ASSUME NEW key PROVE CounterInv(key)'
    <2>1. Counted(key)' = Counted(key)
      BY CountedStays
    <2>2. CounterInv(key)
      BY EveryCounter
    <2>3. CASE Counted(key) = {}
      BY <2>1, <2>3 DEF CounterInv
    <2>4. CASE Counted(key) # {}
      <3>1. PICK d \in Calls : CounterOf(d) = key
        BY <2>4 DEF Counted
      <3>2. key[3] \in Nat /\ now \in Nat
        BY <3>1 DEF CounterOf, Typed, CallState
      <3>3. now' < key[3] + WindowTTL => now < key[3] + WindowTTL
        BY <3>2 DEF WindowTTL
      <3> QED
        BY <2>1, <2>2, <2>4, <3>3 DEF CounterInv
    <2> QED
      BY <2>3, <2>4
  <1>2. \A key \in DOMAIN counters' :
           /\ counters'[key].n \in Nat /\ counters'[key].expires \in Nat
           /\ counters'[key].expires >= key[3] + WindowTTL
    BY DEF LimiterInv
  <1>3. (\A d \in Calls : Timed(d)') /\ (\A key : CounterInv(key)')
    BY <1>1
  <1> QED
    BY <1>2, <1>3, LimiterHolds

(***************************************************************************)
(* The calls a counter admitted are finitely many, and a counter that      *)
(* admitted a call of a second that may not have expired is still there.   *)
(***************************************************************************)
LEMMA CountFacts ==
    ASSUME Typed, LimiterInv, NEW key, key[3] \in Nat
    PROVE  /\ IsFiniteSet(Counted(key)) /\ Cardinality(Counted(key)) \in Nat
           /\ Count(key) \in Nat
           /\ now < key[3] + WindowTTL => Cardinality(Counted(key)) <= Count(key)
           /\ Count(key) # 0 => key \in DOMAIN counters
  <1>1. IsFiniteSet(Calls)
    BY ServiceAssumption, FS_Interval
  <1>2. IsFiniteSet(Counted(key)) /\ Cardinality(Counted(key)) \in Nat
    BY <1>1, FS_Subset, FS_CardinalityType DEF Counted
  <1>3. Count(key) \in Nat
    BY DEF LimiterInv, Count
  <1>4. ASSUME now < key[3] + WindowTTL
        PROVE  Cardinality(Counted(key)) <= Count(key)
    <2>1. CASE Counted(key) = {}
      BY <1>3, <2>1, FS_EmptySet
    <2>2. CASE Counted(key) # {}
      <3>1. key \in DOMAIN counters /\ counters[key].n >= Cardinality(Counted(key))
        BY <1>4, <2>2, EveryCounter DEF CounterInv
      <3>2. counters[key].expires \in Nat /\ counters[key].expires >= key[3] + WindowTTL
            /\ counters[key].n \in Nat
        BY <3>1 DEF LimiterInv
      <3>3. now < counters[key].expires
        BY <1>4, <3>2 DEF Typed, WindowTTL
      <3>4. Count(key) = counters[key].n
        BY <3>1, <3>3 DEF Count
      <3> QED
        BY <1>2, <3>1, <3>2, <3>4
    <2> QED
      BY <2>1, <2>2
  <1> QED
    BY <1>2, <1>3, <1>4 DEF Count

(***************************************************************************)
(* What counting a call does to the call and to its counter.               *)
(***************************************************************************)
LEMMA IncrFacts ==
    ASSUME Typed, NEW c \in Calls, Incr(c), NEW key, key = CounterOf(c)
    PROVE  /\ call[c].pc = "incr" /\ now' = now /\ key[3] = call[c].window /\ key[3] \in Nat
           /\ LimitFor(Req(c).method) = LimitOf(key[1])
           /\ DOMAIN counters' = DOMAIN counters \cup {key}
           /\ counters'[key].n = Count(key) + 1
           /\ counters'[key].expires = Expire(Count(key) + 1, key)
           /\ \A k \in DOMAIN counters : k # key => counters'[k] = counters[k]
           /\ \A d \in Calls : d # c => call'[d] = call[d]
           /\ call'[c].window = call[c].window /\ call'[c].req = call[c].req /\ call'[c].time = now
           /\ call'[c].admitted = (IF Count(key) + 1 <= LimitOf(key[1]) THEN "counted" ELSE "refused")
           /\ call'[c].pc \in {"handler", "done"}
  <1>0. call[c] \in CallState /\ call \in [Calls -> CallState]
    BY DEF Typed
  <1>1. key[3] = call[c].window /\ key[1] = Class(Req(c).method) /\ key[3] \in Nat
    BY <1>0 DEF CounterOf, CallState
  <1>2. LimitFor(Req(c).method) = LimitOf(key[1])
    BY <1>1 DEF LimitFor, LimitOf, Class
  <1>3. counters' = [k \in DOMAIN counters \cup {key} |->
           IF k = key THEN [n |-> Count(key) + 1, expires |-> Expire(Count(key) + 1, key)]
           ELSE counters[k]]
    BY Zenon DEF Incr
  <1>4. /\ DOMAIN counters' = DOMAIN counters \cup {key}
        /\ counters'[key].n = Count(key) + 1
        /\ counters'[key].expires = Expire(Count(key) + 1, key)
        /\ \A k \in DOMAIN counters : k # key => counters'[k] = counters[k]
    BY <1>3
  <1> DEFINE ok == Count(key) + 1 <= LimitFor(Req(c).method)
             e == [call[c] EXCEPT !.pc = IF ok THEN "handler" ELSE "done",
                                  !.code = IF ok THEN "OK" ELSE "ResourceExhausted",
                                  !.admitted = IF ok THEN "counted" ELSE "refused",
                                  !.time = now]
  <1> HIDE DEF ok
  <1>5. /\ e.pc \in {"handler", "done"} /\ e.req = call[c].req /\ e.window = call[c].window
        /\ e.time = now /\ e.admitted = (IF ok THEN "counted" ELSE "refused")
    BY <1>0 DEF CallState
  <1>6. call' = [call EXCEPT ![c] = e] /\ call[c].pc = "incr" /\ now' = now
    BY <1>0 DEF Incr, ok, CallState
  <1> HIDE DEF e
  <1>7. call'[c] = e /\ \A d \in Calls : d # c => call'[d] = call[d]
    BY <1>0, <1>6
  <1> QED
    BY <1>1, <1>2, <1>4, <1>5, <1>6, <1>7 DEF ok

(***************************************************************************)
(* Counting a call keeps the invariant: the counter grew before the call   *)
(* was admitted, and it cannot have been lost since its second began.      *)
(***************************************************************************)
LEMMA IncrLimiter ==
    ASSUME Typed, LimiterInv, NEW c \in Calls, Incr(c)
    PROVE  LimiterInv'
  <1>0. PICK key : key = CounterOf(c)
    OBVIOUS
  <1>1. /\ call[c].pc = "incr" /\ now' = now /\ key[3] = call[c].window /\ key[3] \in Nat
        /\ LimitFor(Req(c).method) = LimitOf(key[1])
        /\ DOMAIN counters' = DOMAIN counters \cup {key}
        /\ counters'[key].n = Count(key) + 1
        /\ counters'[key].expires = Expire(Count(key) + 1, key)
        /\ \A k \in DOMAIN counters : k # key => counters'[k] = counters[k]
        /\ \A d \in Calls : d # c => call'[d] = call[d]
        /\ call'[c].window = call[c].window /\ call'[c].req = call[c].req /\ call'[c].time = now
        /\ call'[c].admitted = (IF Count(key) + 1 <= LimitOf(key[1]) THEN "counted" ELSE "refused")
        /\ call'[c].pc \in {"handler", "done"}
    BY <1>0, IncrFacts
  <1>2. /\ call[c].admitted = "no" /\ call[c].window <= now
        /\ now \in Nat /\ LimitOf(key[1]) \in Nat /\ call[c].window \in Nat
    BY <1>1, LimitsAssumption DEF LimiterInv, LimitOf, Typed, CallState
  <1>3. /\ IsFiniteSet(Counted(key)) /\ Cardinality(Counted(key)) \in Nat
        /\ Count(key) \in Nat
        /\ now < key[3] + WindowTTL => Cardinality(Counted(key)) <= Count(key)
        /\ Count(key) # 0 => key \in DOMAIN counters
    BY <1>1, CountFacts
  <1>4. ASSUME NEW d \in Calls PROVE Timed(d)'
    <2>1. CASE d = c
      BY <1>1, <1>2, <2>1 DEF Timed
    <2>2. CASE d # c
      BY <1>1, <2>2 DEF Timed, LimiterInv
    <2> QED
      BY <2>1, <2>2
  <1>5. ASSUME NEW k \in DOMAIN counters'
        PROVE  /\ counters'[k].n \in Nat /\ counters'[k].expires \in Nat
               /\ counters'[k].expires >= k[3] + WindowTTL
    <2>1. CASE k # key
      BY <1>1, <2>1 DEF LimiterInv
    <2>2. CASE k = key
      <3>1. CASE Count(key) = 0
        BY <1>1, <1>2, <1>3, <2>2, <3>1 DEF Expire, WindowTTL
      <3>2. CASE Count(key) # 0
        <4>1. key \in DOMAIN counters
          BY <1>3, <3>2
        <4>2. counters[key].expires \in Nat /\ counters[key].expires >= key[3] + WindowTTL
          BY <4>1 DEF LimiterInv
        <4>3. Expire(Count(key) + 1, key) = counters[key].expires
          BY <1>3, <3>2 DEF Expire
        <4> QED
          BY <1>1, <1>3, <2>2, <4>2, <4>3
      <3> QED
        BY <3>1, <3>2
    <2> QED
      BY <2>1, <2>2
  <1>6. ASSUME NEW d \in Calls, d # c
        PROVE  CounterOf(d)' = CounterOf(d)
    BY <1>1, <1>6 DEF CounterOf, Req
  <1>7. CounterOf(c)' = key
    BY <1>0, <1>1 DEF CounterOf, Req
  <1>8. \A k : c \notin Counted(k)
    BY <1>2 DEF Counted
  <1>9. ASSUME NEW k,
               ~(k = key /\ Count(key) + 1 <= LimitOf(key[1]) /\ now < key[3] + WindowTTL)
        PROVE  Counted(k)' = Counted(k)
    <2>1. c \notin Counted(k)'
      BY <1>1, <1>7, <1>9 DEF Counted
    <2> QED
      BY <1>1, <1>6, <1>8, <2>1 DEF Counted
  <1>10. ASSUME NEW k PROVE CounterInv(k)'
    <2>0. CounterInv(k)
      BY EveryCounter
    <2>1. CASE k # key
      <3>1. Counted(k)' = Counted(k)
        BY <1>9, <2>1
      <3> QED
        BY <1>1, <2>0, <2>1, <3>1 DEF CounterInv
    <2>2. CASE k = key /\ ~(Count(key) + 1 <= LimitOf(key[1]) /\ now < key[3] + WindowTTL)
      <3>1. Counted(key)' = Counted(key)
        BY <1>9, <2>2
      <3>2. now < key[3] + WindowTTL => Count(key) + 1 >= Cardinality(Counted(key))
        BY <1>3
      <3> QED
        BY <1>1, <2>0, <2>2, <3>1, <3>2 DEF CounterInv
    <2>3. CASE k = key /\ Count(key) + 1 <= LimitOf(key[1]) /\ now < key[3] + WindowTTL
      <3>1. c \in Counted(key)'
        BY <1>1, <1>7, <2>3 DEF Counted
      <3>2. Counted(key)' = Counted(key) \cup {c}
        BY <1>1, <1>6, <1>8, <3>1 DEF Counted
      <3>3. Cardinality(Counted(key) \cup {c}) = Cardinality(Counted(key)) + 1
        BY <1>3, <1>8, FS_AddElement
      <3>4. /\ Cardinality(Counted(key)) + 1 <= LimitOf(key[1])
            /\ Cardinality(Counted(key)) + 1 <= Count(key) + 1
        BY <1>2, <1>3, <2>3
      <3>5. /\ Cardinality(Counted(key)') <= LimitOf(key[1])
            /\ Cardinality(Counted(key)') <= counters'[key].n
        BY <1>1, <3>2, <3>3, <3>4
      <3> QED
        BY <1>1, <1>3, <2>3, <3>5 DEF CounterInv
    <2> QED
      BY <2>1, <2>2, <2>3
  <1>11. (\A d \in Calls : Timed(d)') /\ (\A k : CounterInv(k)')
    BY <1>4, <1>10
  <1> QED
    BY <1>5, <1>11, LimiterHolds

\* A step of one call past the limiter, as the limiter sees it.
Moves(c) ==
    /\ \A d \in Calls : d # c => call'[d] = call[d]
    /\ call'[c].admitted = call[c].admitted /\ call'[c].window = call[c].window
    /\ call'[c].time = call[c].time /\ call'[c].req = call[c].req
    /\ call'[c].pc \notin {"free", "incr"}

(***************************************************************************)
(* An answer changes nothing the limiter looks at.                         *)
(***************************************************************************)
LEMMA AnswerMoves ==
    ASSUME Typed, NEW c \in Calls, NEW code, Answer(c, code)
    PROVE  Moves(c)
  <1>1. call[c] \in CallState /\ call \in [Calls -> CallState]
    BY DEF Typed
  <1> QED
    BY <1>1 DEF Answer, Moves, CallState

(***************************************************************************)
(* Going on to another step.                                               *)
(***************************************************************************)
LEMMA GotoMoves ==
    ASSUME Typed, NEW c \in Calls, NEW pc, pc \notin {"free", "incr"}, Goto(c, pc)
    PROVE  Moves(c)
  <1>1. call[c] \in CallState /\ call \in [Calls -> CallState]
    BY DEF Typed
  <1> QED
    BY <1>1 DEF Goto, Moves, CallState

(***************************************************************************)
(* The end of an item.                                                     *)
(***************************************************************************)
LEMMA ItemMoves ==
    ASSUME Typed, NEW c \in Calls,
           (\E e : ItemFails(c, e)) \/ (\E n, hit : ItemEnds(c, n, hit))
    PROVE  Moves(c)
  <1>1. call[c] \in CallState /\ call \in [Calls -> CallState]
    BY DEF Typed
  <1>4. ASSUME NEW n, Notes(c, n) PROVE Moves(c)
    <2>1. PICK k : k = [call[c] EXCEPT !.pc = IF call[c].pos = Len(ItemsOf(c)) THEN "done" ELSE "check",
                                       !.pos = @ + 1, !.results = Append(@, n)]
      OBVIOUS
    <2>2. /\ k.admitted = call[c].admitted /\ k.window = call[c].window
          /\ k.time = call[c].time /\ k.req = call[c].req /\ k.pc \in {"done", "check"}
      BY <1>1, <2>1 DEF CallState
    <2>3. call' = [call EXCEPT ![c] = k]
      BY <1>1, <1>4, <2>1 DEF Notes, CallState
    <2> QED
      BY <1>1, <2>2, <2>3 DEF Moves
  <1>2. ASSUME NEW e, ItemFails(c, e) PROVE Moves(c)
    <2>1. CASE ModeOf(c) = "SINGLE"
      BY <1>2, <2>1, AnswerMoves DEF ItemFails
    <2>2. CASE ModeOf(c) # "SINGLE"
      BY <1>2, <2>2, <1>4 DEF ItemFails, Notes
    <2> QED
      BY <2>1, <2>2
  <1>3. ASSUME NEW n, NEW hit, ItemEnds(c, n, hit) PROVE Moves(c)
    <2>1. CASE ModeOf(c) = "SINGLE"
      <3> DEFINE h == hit /\ Operation1(c).op # "convert"
                 i == ~hit /\ n # DryRunEvent /\ Named(Operation1(c))
      <3>1. call' = [call EXCEPT ![c].pc = "done", ![c].event = n, ![c].hit = h, ![c].id = i]
        BY <1>3, <2>1, Zenon DEF ItemEnds
      <3> HIDE DEF h, i
      <3> QED
        BY <1>1, <3>1 DEF Moves, CallState
    <2>2. CASE ModeOf(c) # "SINGLE"
      BY <1>3, <2>2, <1>4 DEF ItemEnds, Notes
    <2> QED
      BY <2>1, <2>2
  <1> QED
    BY <1>2, <1>3

(***************************************************************************)
(* The transaction of a batch.                                             *)
(***************************************************************************)
LEMMA AllMoves ==
    ASSUME Typed, NEW c \in Calls, WriteAll(c)
    PROVE  Moves(c)
  <1>1. call[c] \in CallState /\ call \in [Calls -> CallState]
    BY DEF Typed
  <1>2. \/ \E code : Answer(c, code)
        \/ \E r : call' = [call EXCEPT ![c].pc = "done", ![c].results = r]
    BY Zenon DEF WriteAll
  <1>3. ASSUME NEW r, call' = [call EXCEPT ![c].pc = "done", ![c].results = r]
        PROVE  Moves(c)
    BY <1>1, <1>3 DEF Moves, CallState
  <1> QED
    BY <1>2, <1>3, AnswerMoves

(***************************************************************************)
(* Every step of a call that is not its count.                             *)
(***************************************************************************)
LEMMA StepMoves ==
    ASSUME Typed, NEW c \in Calls, Step(c), ~Incr(c), ~IncrFails(c)
    PROVE  Moves(c) /\ UNCHANGED <<counters, now>>
  <1>1. CASE \/ Denied(c) \/ Read(c) \/ ReadAny(c) \/ CreateLedger(c) \/ GetLedger(c)
             \/ SealLedger(c) \/ WritePolicyDenialEvent(c)
    <2>1. (\E code : Answer(c, code)) /\ UNCHANGED <<counters, now>>
      BY <1>1, Zenon DEF Denied, Read, ReadAny, CreateLedger, GetLedger, SealLedger, WritePolicyDenialEvent
    <2> QED
      BY <2>1, AnswerMoves
  <1>2. CASE Subscribe(c)
    BY <1>2, AnswerMoves, GotoMoves DEF Subscribe
  <1>3. CASE EvaluatePolicy(c)
    BY <1>3, AnswerMoves, GotoMoves DEF EvaluatePolicy
  <1>4. CASE HandleBatch(c)
    BY <1>4, AnswerMoves, GotoMoves DEF HandleBatch
  <1>5. CASE CheckItem(c)
    <2>1. \/ \E e : ItemFails(c, e)
          \/ \E n, hit : ItemEnds(c, n, hit)
          \/ Goto(c, "write")
      BY <1>5, Zenon DEF CheckItem
    <2> QED
      BY <1>5, <2>1, ItemMoves, GotoMoves DEF CheckItem
  <1>6. CASE WriteItem(c)
    <2>1. \/ \E e : ItemFails(c, e)
          \/ \E n, hit : ItemEnds(c, n, hit)
      BY <1>6, Zenon DEF WriteItem
    <2> QED
      BY <1>6, <2>1, ItemMoves DEF WriteItem
  <1>7. CASE WriteAll(c)
    BY <1>7, AllMoves DEF WriteAll
  <1> QED
    BY <1>1, <1>2, <1>3, <1>4, <1>5, <1>6, <1>7 DEF Step

(***************************************************************************)
(* Such a step is none of the limiter's.                                   *)
(***************************************************************************)
LEMMA MovesLimiter ==
    ASSUME Typed, LimiterInv, NEW c \in Calls, Moves(c), UNCHANGED <<counters, now>>
    PROVE  LimiterInv'
  <1>1. ASSUME NEW d \in Calls PROVE Untouched(d) /\ Timed(d)'
    <2>1. CASE d = c
      BY <2>1 DEF Moves, Untouched, Timed, LimiterInv
    <2>2. CASE d # c
      BY <2>2 DEF Moves, Untouched, Timed, LimiterInv
    <2> QED
      BY <2>1, <2>2
  <1> QED
    BY <1>1, UncountedStep DEF Typed

(***************************************************************************)
(* A call that Redis could not count is admitted, and not counted.         *)
(***************************************************************************)
LEMMA IncrFailsLimiter ==
    ASSUME Typed, LimiterInv, NEW c \in Calls, IncrFails(c)
    PROVE  LimiterInv'
  <1>0. call[c] \in CallState /\ call \in [Calls -> CallState]
    BY DEF Typed
  <1>1. /\ call[c].pc = "incr" /\ call'[c].admitted = "open" /\ call'[c].window = call[c].window
        /\ call'[c].pc = "handler" /\ UNCHANGED <<counters, now>>
        /\ \A d \in Calls : d # c => call'[d] = call[d]
    BY <1>0 DEF IncrFails, CallState
  <1>2. ASSUME NEW d \in Calls PROVE Untouched(d) /\ Timed(d)'
    <2>1. CASE d = c
      BY <1>1, <2>1 DEF Untouched, Timed, LimiterInv
    <2>2. CASE d # c
      BY <1>1, <2>2 DEF Untouched, Timed, LimiterInv
    <2> QED
      BY <2>1, <2>2
  <1> QED
    BY <1>1, <1>2, UncountedStep DEF Typed

(***************************************************************************)
(* A call arrives: the clock is read, nothing is counted yet.              *)
(***************************************************************************)
LEMMA ArriveLimiter ==
    ASSUME Typed, LimiterInv, NEW c \in Calls, NEW r \in Requests, Arrive(c, r)
    PROVE  LimiterInv'
  <1>0. call \in [Calls -> CallState] /\ now \in Nat
    BY DEF Typed
  <1>1. /\ call[c].pc = "free" /\ UNCHANGED <<counters, now>>
        /\ call'[c] = Arrival(r) /\ \A d \in Calls : d # c => call'[d] = call[d]
    BY <1>0 DEF Arrive
  <1>2. /\ Arrival(r).window \in {0, now}
        /\ \/ Arrival(r).pc = "done" /\ Arrival(r).admitted = "no"
           \/ Arrival(r).pc = "incr" /\ Arrival(r).admitted = "no"
           \/ Arrival(r).pc = "handler" /\ Arrival(r).admitted = "unlimited"
    BY DEF Arrival, Free
  <1>3. ASSUME NEW d \in Calls PROVE Untouched(d) /\ Timed(d)'
    <2>1. CASE d = c
      BY <1>0, <1>1, <1>2, <2>1 DEF Untouched, Timed, LimiterInv
    <2>2. CASE d # c
      BY <1>1, <2>2 DEF Untouched, Timed, LimiterInv
    <2> QED
      BY <2>1, <2>2
  <1> QED
    BY <1>0, <1>1, <1>3, UncountedStep

(***************************************************************************)
(* The limiter's invariant holds at first and every step keeps it.         *)
(***************************************************************************)
LEMMA LimiterInvNext ==
    ASSUME Typed, Typed', LimiterInv, [Next]_vars
    PROVE  LimiterInv'
  <1>1. ASSUME NEW c \in Calls, Step(c) PROVE LimiterInv'
    BY <1>1, IncrLimiter, IncrFailsLimiter, StepMoves, MovesLimiter
  <1>2. ASSUME NEW c \in Calls, Cancel(c) PROVE LimiterInv'
    BY <1>2, AnswerMoves, MovesLimiter DEF Cancel
  <1>3. ASSUME NEW c \in Calls, NEW r \in Requests, Arrive(c, r) PROVE LimiterInv'
    BY <1>3, ArriveLimiter
  <1>4. CASE Crash
    <2>1. /\ UNCHANGED <<counters, now>>
          /\ call' = [c \in Calls |-> IF InFlight(c) THEN Ended(call[c]) ELSE call[c]]
      BY <1>4, Zenon DEF Crash, Ended
    <2>2. ASSUME NEW d \in Calls PROVE Untouched(d) /\ Timed(d)'
      <3>1. call[d] \in CallState
        BY DEF Typed
      <3>2. CASE InFlight(d)
        <4>1. call'[d] = Ended(call[d])
          BY <2>1, <3>2
        <4>2. /\ call'[d].admitted = call[d].admitted /\ call'[d].window = call[d].window
              /\ call'[d].time = call[d].time /\ call'[d].req = call[d].req
              /\ call'[d].pc = "done"
          BY <3>1, <4>1 DEF Ended, CallState
        <4> QED
          BY <2>1, <4>2 DEF Untouched, Timed, LimiterInv
      <3>3. CASE ~InFlight(d)
        BY <2>1, <3>3 DEF Untouched, Timed, LimiterInv
      <3> QED
        BY <3>2, <3>3
    <2> QED
      BY <2>1, <2>2, UncountedStep DEF Typed
  <1>5. CASE \/ (\E l \in Existing, policy \in Policies : InsertPolicy(l, policy))
             \/ Tick \/ RedisFails \/ RedisRecovers \/ Stop \/ StopEnds \/ Start \/ UNCHANGED vars
    <2>1. UNCHANGED <<call, counters>>
      BY <1>5 DEF InsertPolicy, Tick, RedisFails, RedisRecovers, Stop, StopEnds, Start, vars
    <2>2. now' = now \/ now' = now + 1
      BY <1>5 DEF InsertPolicy, Tick, RedisFails, RedisRecovers, Stop, StopEnds, Start, vars
    <2>3. ASSUME NEW d \in Calls PROVE Untouched(d) /\ Timed(d)'
      <3>1. call[d].window \in Nat /\ now \in Nat
        BY DEF Typed, CallState
      <3> QED
        BY <2>1, <2>2, <3>1 DEF Untouched, Timed, LimiterInv
    <2> QED
      BY <2>1, <2>2, <2>3, UncountedStep DEF Typed
  <1> QED
    BY <1>1, <1>2, <1>3, <1>4, <1>5 DEF Next

(***************************************************************************)
(* The inductive invariant of the rate limiter: the calls a counter        *)
(* admitted before it may have expired are no more than it counted         *)
(* (Limiter.allow).                                                        *)
(***************************************************************************)
THEOREM LimiterInvariance == Spec => []LimiterInv
  <1>1. Init => LimiterInv
    <2> SUFFICES ASSUME Init PROVE LimiterInv
      OBVIOUS
    <2>1. \A c \in Calls : call[c].pc = "free" /\ call[c].window = 0 /\ call[c].admitted = "no"
      BY DEF Init, Free
    <2>2. now = 0 /\ DOMAIN counters = {}
      BY DEF Init
    <2>3. \A c \in Calls : Timed(c)
      BY <2>1, <2>2 DEF Timed
    <2>4. \A key : Counted(key) = {}
      BY <2>1 DEF Counted
    <2>5. \A key : CounterInv(key)
      BY <2>4 DEF CounterInv
    <2> QED
      BY <2>2, <2>3, <2>5, EveryCounter
  <1>2. ServiceInv => Typed
    BY DEF ServiceInv
  <1>3. Typed /\ Typed' /\ LimiterInv /\ [Next]_vars => LimiterInv'
    BY LimiterInvNext
  <1> QED
    BY <1>1, <1>2, <1>3, ServiceInvariance, PTL DEF Spec

(***************************************************************************)
(* Of the calls counted for one principal and one second before that       *)
(* second's counter may expire, no more than the limit are admitted, for   *)
(* any number of calls and any limits (Limiter.allow).                     *)
(***************************************************************************)
THEOREM ServiceWindowLimit == Spec => []WindowLimit
  <1>1. LimiterInv => WindowLimit
    <2> SUFFICES ASSUME LimiterInv, NEW c \in Calls, call[c].admitted = "counted"
                 PROVE  Cardinality({d \in Calls : /\ call[d].admitted = "counted"
                                                   /\ CounterOf(d) = CounterOf(c)
                                                   /\ call[d].time < call[d].window + WindowTTL})
                           <= LimitFor(Req(c).method)
      BY DEF WindowLimit
    <2>1. PICK key : key = CounterOf(c)
      OBVIOUS
    <2>2. LimitOf(key[1]) = LimitFor(Req(c).method) /\ LimitOf(key[1]) \in Nat
      BY <2>1, LimitsAssumption DEF CounterOf, LimitOf, LimitFor, Class
    <2>3. CounterInv(key)
      BY EveryCounter
    <2>4. CASE Counted(key) = {}
      BY <2>1, <2>2, <2>4, FS_EmptySet DEF Counted
    <2>5. CASE Counted(key) # {}
      BY <2>1, <2>2, <2>3, <2>5 DEF CounterInv, Counted
    <2> QED
      BY <2>4, <2>5
  <1> QED
    BY <1>1, LimiterInvariance, PTL

-----------------------------------------------------------------------------
(***************************************************************************)
(* The clients.                                                            *)
(***************************************************************************)

(***************************************************************************)
(* What the SDK rejects.                                                   *)
(***************************************************************************)
LEMMA RejectedDrafts ==
    ASSUME NEW o, o.op \in {"post", "convert"}, o.op = "convert" => o.slippage_amount = NoText,
           Sent(o) = Rejected
    PROVE  ~ServerAccepts(o)
  <1>1. CASE o.op = "post"
    <2>1. [op |-> "post", postings |-> o.postings].op # Rejected.op
      BY DEF Rejected
    <2>2. Sent(o) = Checked(o.postings # << >> /\ \A i \in DOMAIN o.postings : ValidatePosting(o.postings[i]),
                            [op |-> "post", postings |-> o.postings])
      BY <1>1 DEF Sent, SubmitTransaction
    <2>3. ~(o.postings # << >> /\ \A i \in DOMAIN o.postings : ValidatePosting(o.postings[i]))
      BY <2>1, <2>2 DEF Checked
    <2>4. ~ValidatePostings(o)
      BY <2>3 DEF ValidatePostings, ValidatePosting
    <2> QED
      BY <1>1, <2>4 DEF ServerAccepts, PlannerAccepts
  <1>2. CASE o.op = "convert"
    <2>1. o # Rejected
      BY <1>2 DEF Rejected
    <2>2. ~(/\ ValidAccount(o.source) /\ ValidAccount(o.destination)
            /\ ValidAsset(o.source_asset) /\ ValidAsset(o.destination_asset)
            /\ Positive(o.source_amount) /\ Positive(o.destination_amount))
      BY <1>2, <2>1, Zenon DEF Sent, Convert, Checked
    <2>3. ~ValidateConvertParams(o)
      BY <2>2 DEF ValidateConvertParams
    <2> QED
      BY <1>2, <2>3 DEF ServerAccepts, PlannerAccepts
  <1> QED
    BY <1>1, <1>2

(***************************************************************************)
(* A text of one part.                                                     *)
(***************************************************************************)
LEMMA OnePart ==
    ASSUME NEW s \in Text, NEW x, Len(s) = 1, s[1] = x
    PROVE  s = <<x>>
  <1>1. s \in Seq(Parts) /\ 1 \in 1..Len(s)
    BY DEF Text
  <1>2. x \in Parts
    BY <1>1, ElementOfSeq
  <1>3. <<x>> \in Seq(Parts) /\ Len(<<x>>) = 1 /\ <<x>>[1] = x
    BY <1>2
  <1> QED
    BY <1>1, <1>3, SeqEqual

(***************************************************************************)
(* A text of one part joined to another text: the parts of the whole.      *)
(***************************************************************************)
LEMMA PartJoined ==
    ASSUME NEW t \in Seq(Parts), NEW s \in Seq(Parts), Len(s) = 1
    PROVE  \E u \in Seq(Parts) : /\ u = t \o s /\ Len(u) = Len(t) + 1
                                 /\ \A i \in 1..Len(t) : u[i] = t[i]
                                 /\ u[Len(t) + 1] = s[1]
  <1>1. PICK u : u = t \o s
    OBVIOUS
  <1>2. /\ u \in Seq(Parts) /\ Len(u) = Len(t) + Len(s)
        /\ \A i \in 1..Len(t) + Len(s) : u[i] = IF i <= Len(t) THEN t[i] ELSE s[i - Len(t)]
    BY <1>1, ConcatProperties, Zenon
  <1>3. Len(t) \in Nat
    OBVIOUS
  <1>4. \A i \in 1..Len(t) : u[i] = t[i]
    BY <1>2, <1>3
  <1>5. u[Len(t) + 1] = s[1]
    <2>1. Len(t) + 1 \in 1..Len(t) + Len(s) /\ ~(Len(t) + 1 <= Len(t)) /\ (Len(t) + 1) - Len(t) = 1
      BY <1>3
    <2> QED
      BY <1>2, <2>1
  <1> QED
    BY <1>1, <1>2, <1>4, <1>5

\* The fields of a posting on the command line.
Joined(a, b, m, s) == a \o b \o m \o s

(***************************************************************************)
(* Four texts of one part each, joined.                                    *)
(***************************************************************************)
LEMMA JoinedParts ==
    ASSUME NEW a \in Text, NEW b \in Text, NEW m \in Text, NEW s \in Text,
           Len(a) = 1, Len(b) = 1, Len(m) = 1, Len(s) = 1
    PROVE  ParsePosting(Joined(a, b, m, s)) = [source |-> a, destination |-> b, amount |-> m, asset |-> s]
  <1>0. a \in Seq(Parts) /\ b \in Seq(Parts) /\ m \in Seq(Parts) /\ s \in Seq(Parts)
    BY DEF Text
  <1>1. PICK u \in Seq(Parts) : u = a \o b /\ Len(u) = 2 /\ u[1] = a[1] /\ u[2] = b[1]
    <2>1. PICK u \in Seq(Parts) : /\ u = a \o b /\ Len(u) = Len(a) + 1
                                  /\ \A i \in 1..Len(a) : u[i] = a[i]
                                  /\ u[Len(a) + 1] = b[1]
      BY <1>0, PartJoined, Zenon
    <2>2. Len(u) = 2 /\ u[1] = a[1] /\ u[2] = b[1]
      BY <2>1
    <2> QED
      BY <2>1, <2>2, Zenon
  <1>2. PICK v \in Seq(Parts) : /\ v = u \o m /\ Len(v) = 3
                                /\ v[1] = a[1] /\ v[2] = b[1] /\ v[3] = m[1]
    <2>1. PICK v \in Seq(Parts) : /\ v = u \o m /\ Len(v) = Len(u) + 1
                                  /\ \A i \in 1..Len(u) : v[i] = u[i]
                                  /\ v[Len(u) + 1] = m[1]
      BY <1>0, PartJoined, Zenon
    <2>2. Len(v) = 3 /\ v[1] = a[1] /\ v[2] = b[1] /\ v[3] = m[1]
      BY <1>1, <2>1
    <2> QED
      BY <2>1, <2>2, Zenon
  <1>3. PICK raw \in Seq(Parts) :
           /\ raw = Joined(a, b, m, s) /\ Len(raw) = 4
           /\ raw[1] = a[1] /\ raw[2] = b[1] /\ raw[3] = m[1] /\ raw[4] = s[1]
    <2>1. PICK w \in Seq(Parts) : /\ w = v \o s /\ Len(w) = Len(v) + 1
                                  /\ \A i \in 1..Len(v) : w[i] = v[i]
                                  /\ w[Len(v) + 1] = s[1]
      BY <1>0, PartJoined, Zenon
    <2>2. Len(w) = 4 /\ w[1] = a[1] /\ w[2] = b[1] /\ w[3] = m[1] /\ w[4] = s[1]
      BY <1>2, <2>1
    <2>3. w = Joined(a, b, m, s)
      BY <1>1, <1>2, <2>1, Zenon DEF Joined
    <2> QED
      BY <2>2, <2>3, Zenon
  <1>4. a = <<raw[1]>> /\ b = <<raw[2]>> /\ m = <<raw[3]>> /\ s = <<raw[4]>>
    BY <1>3, OnePart
  <1>5. SubSeq(raw, 4, Len(raw)) = <<raw[4]>>
    <2>1. PICK w : w = SubSeq(raw, 4, Len(raw))
      OBVIOUS
    <2>2. w \in Seq(Parts)
      <3>1. \A i \in 4..Len(raw) : raw[i] \in Parts
        <4>1. ASSUME NEW i \in 4..Len(raw) PROVE i \in 1..Len(raw)
          OBVIOUS
        <4> QED
          BY <4>1, ElementOfSeq, Zenon
      <3>2. 4 \in Int /\ Len(raw) \in Int
        BY <1>3
      <3> QED
        BY <2>1, <3>1, <3>2, SubSeqProperties, Zenon
    <2>3. Len(w) = 1 /\ w[1] = raw[4]
      BY <1>3, <2>1
    <2> QED
      BY <2>1, <2>2, <2>3, OnePart, Zenon DEF Text
  <1> QED
    BY <1>3, <1>4, <1>5, Zenon DEF ParsePosting

(***************************************************************************)
(* The parts of a joined posting are as many as its texts have.            *)
(***************************************************************************)
LEMMA JoinedLength ==
    ASSUME NEW a \in Text, NEW b \in Text, NEW m \in Text, NEW s \in Text
    PROVE  /\ Joined(a, b, m, s) \in Text
           /\ Len(Joined(a, b, m, s)) = Len(a) + Len(b) + Len(m) + Len(s)
  <1>1. a \o b \in Text /\ Len(a \o b) = Len(a) + Len(b)
    BY ConcatProperties DEF Text
  <1>2. a \o b \o m \in Text /\ Len(a \o b \o m) = Len(a) + Len(b) + Len(m)
    BY <1>1, ConcatProperties DEF Text
  <1> QED
    BY <1>2, ConcatProperties DEF Text, Joined

(***************************************************************************)
(* A posting of the command line that the server takes is the one meant.   *)
(***************************************************************************)
LEMMA TakenAsMeant ==
    ASSUME NEW a \in Text, NEW b \in Text, NEW m \in Text, NEW s \in Text,
           NoText \notin {a, b, m, s},
           ServerAccepts(SubmitPostCmd(<<Joined(a, b, m, s)>>))
    PROVE  SubmitPostCmd(<<Joined(a, b, m, s)>>).postings =
              <<[source |-> a, destination |-> b, amount |-> m, asset |-> s]>>
  <1>1. PICK raw \in Text : raw = Joined(a, b, m, s) /\ Len(raw) = Len(a) + Len(b) + Len(m) + Len(s)
    BY JoinedLength
  <1>2. Len(a) \in Nat \ {0} /\ Len(b) \in Nat \ {0} /\ Len(m) \in Nat \ {0} /\ Len(s) \in Nat \ {0}
    BY EmptySeq DEF Text, NoText
  <1>3. Len(raw) \in Nat /\ Len(raw) >= 4
    BY <1>1, <1>2
  <1>4. SubmitPostCmd(<<raw>>) = [op |-> "post", postings |-> ParsePostings(<<raw>>)]
    BY <1>3 DEF SubmitPostCmd, Checked
  <1>5. ParsePostings(<<raw>>) = <<ParsePosting(raw)>>
    BY DEF ParsePostings
  <1>6. ValidAsset(SubSeq(raw, 4, Len(raw)))
    <2>1. ValidatePostings(SubmitPostCmd(<<raw>>))
      BY <1>1, <1>4 DEF ServerAccepts, PlannerAccepts
    <2>2. ValidAsset(ParsePosting(raw).asset)
      BY <1>4, <1>5, <2>1 DEF ValidatePostings
    <2> QED
      BY <2>2 DEF ParsePosting
  <1>7. Len(raw) = 4
    <2>1. Len(SubSeq(raw, 4, Len(raw))) = Len(raw) - 3
      BY <1>3 DEF Text
    <2> QED
      BY <1>3, <1>6, <2>1 DEF ValidAsset
  <1>8. Len(a) = 1 /\ Len(b) = 1 /\ Len(m) = 1 /\ Len(s) = 1
    <2>1. PICK i \in Nat \ {0}, j \in Nat \ {0}, k \in Nat \ {0}, l \in Nat \ {0} :
             i = Len(a) /\ j = Len(b) /\ k = Len(m) /\ l = Len(s)
      BY <1>2, Zenon
    <2>2. i + j + k + l = 4
      BY <1>1, <1>7, <2>1, Zenon
    <2>3. i = 1 /\ j = 1 /\ k = 1 /\ l = 1
      BY <2>2
    <2> QED
      BY <2>1, <2>3, Zenon
  <1>9. ParsePosting(Joined(a, b, m, s)) = [source |-> a, destination |-> b, amount |-> m, asset |-> s]
    BY <1>8, JoinedParts, SMT
  <1> QED
    BY <1>1, <1>4, <1>5, <1>9

(***************************************************************************)
(* Whatever a user of the SDK drafts or a user of ledgerctl means, the     *)
(* clients agree with the server: what the SDK rejects the server rejects  *)
(* (validate.go), and a posting of the command line that the server takes  *)
(* is the one that was meant (parsePostings).                              *)
(***************************************************************************)
THEOREM ServiceClientsAgree == Spec => []ClientsAgreeWithServer
  <1>1. ClientsAgreeWithServer
    <2>1. ASSUME NEW o \in Drafts, o.op \in {"post", "convert"},
                 o.op = "convert" => o.slippage_amount = NoText, Sent(o) = Rejected
          PROVE  ~ServerAccepts(o)
      BY <2>1, RejectedDrafts
    <2>2. ASSUME NEW p \in Intended,
                 ServerAccepts(SubmitPostCmd(<<p.source \o p.destination \o p.amount \o p.asset>>))
          PROVE  SubmitPostCmd(<<p.source \o p.destination \o p.amount \o p.asset>>).postings = <<p>>
      <3>1. p \in Posting /\ NoText \notin {p.source, p.destination, p.amount, p.asset}
        BY <2>2, IntendedAssumption
      <3>2. p = [source |-> p.source, destination |-> p.destination, amount |-> p.amount, asset |-> p.asset]
            /\ p.source \in Text /\ p.destination \in Text /\ p.amount \in Text /\ p.asset \in Text
        BY <3>1 DEF Posting
      <3>3. p.source \o p.destination \o p.amount \o p.asset
               = Joined(p.source, p.destination, p.amount, p.asset)
        BY DEF Joined
      <3>4. SubmitPostCmd(<<Joined(p.source, p.destination, p.amount, p.asset)>>).postings =
               <<[source |-> p.source, destination |-> p.destination, amount |-> p.amount, asset |-> p.asset]>>
        BY <2>2, <3>1, <3>2, <3>3, TakenAsMeant
      <3> QED
        BY <3>2, <3>3, <3>4, Zenon
    <2> QED
      BY <2>1, <2>2, Zenon DEF ClientsAgreeWithServer
  <1> QED
    BY <1>1, PTL
=============================================================================
