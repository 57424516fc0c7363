------------------------ MODULE FormValidationProofs ------------------------
(***************************************************************************)
(* First about UnobtrusiveValidation: the inductive invariant IInv, and      *)
(* from it the types, the counter of pending requests and what is sent; then   *)
(* the inductive invariant TruthInv, and from it what the page says.           *)
(*                                                                          *)
(* The handlers of the code are operators from a validator's state to the     *)
(* next.  For each there is a lemma that it keeps Sound, what is remembered    *)
(* and counted of requests: first the check of some fields, then showing       *)
(* messages, a whole check, a submit, the end of a request, the answers, and   *)
(* what a reset or a removed element forgets.  The step of an action then      *)
(* follows from the lemmas of the handlers it calls.  The second part goes     *)
(* the same way with Told, that the messages are true.                        *)
(*                                                                          *)
(* The last part is about UnobtrusiveAdapters: what each adapter writes, that   *)
(* of two that write the same rule the later has it, and so what the rules of   *)
(* an input that was parsed make of a text.                                    *)
(***************************************************************************)
EXTENDS UnobtrusiveValidation, UnobtrusiveAdapters, FiniteSetTheorems, TLAPS

(* The fields of S that the server is asked about when s checks them. *)
Asked(s, S) == {f \in S : Outcome(s, f) = "pending"}

(* The two states agree on all that requests are about. *)
SameRequests(s, t) ==
  /\ t.pending = s.pending /\ t.pendingRequest = s.pendingRequest
  /\ t.previous = s.previous /\ t.ajax = s.ajax /\ t.verdict = s.verdict

(* What every handler keeps. *)
Sound(s) == s \in FormState /\ RequestInv(s) /\ CountInv(s)

----------------------------------------------------------------------------
LEMMA DataType ==
  ASSUME value \in [Field -> Value], NEW f \in Field
  PROVE  Data(f) \in AnyData /\ Data(f) # NoData
  <1>1. Data(f) \in [{f} \cup Rides[f] -> Value]
    BY RulesAssumption DEF Data, Carried
  <1>2. QED
    BY <1>1, NoDataAssumption DEF AnyData

LEMMA FieldSetsFinite ==
  ASSUME NEW s \in FormState
  PROVE  IsFiniteSet(s.pending)
  BY FieldsAssumption, FS_Subset DEF FormState

LEMMA SameRequestsInv ==
  ASSUME NEW s, NEW t, SameRequests(s, t), RequestInv(s), CountInv(s)
  PROVE  RequestInv(t) /\ CountInv(t)
  BY DEF SameRequests, RequestInv, CountInv

LEMMA OutcomeCases ==
  ASSUME NEW s, NEW f
  PROVE  Outcome(s, f) \in {"error", "ok", "pending"}
  BY DEF Outcome

LEMMA OutcomeOk ==
  ASSUME NEW s, NEW f, Outcome(s, f) = "ok"
  PROVE  /\ PassesLocal(f)
         /\ AsksServer(f) => s.previous[f].old = Data(f) /\ s.previous[f].valid
  BY DEF Outcome

----------------------------------------------------------------------------
LEMMA CheckSets ==
  ASSUME NEW s \in FormState, NEW S \in SUBSET Field
  PROVE  /\ Check(s, S).errors = {f \in S : Outcome(s, f) = "error"}
         /\ Check(s, S).success = {f \in S : Outcome(s, f) = "ok"}
         /\ Check(s, S).submitted \in SUBSET Field
         /\ Check(s, S).pending = s.pending \cup Asked(s, S)
         /\ Check(s, S).pendingRequest
              = s.pendingRequest + Cardinality(Asked(s, S) \ s.pending)
  <1>1. Check(s, S).errors = {f \in S : Outcome(s, f) = "error"}
    BY DEF FormState, Check
  <1>2. Check(s, S).success = {f \in S : Outcome(s, f) = "ok"}
    BY DEF FormState, Check
  <1>3. Check(s, S).submitted = s.submitted \cup {f \in S : Outcome(s, f) = "error"}
    BY DEF FormState, Check
  <1>4. s.submitted \in SUBSET Field
    BY DEF FormState
  <1>5. Check(s, S).pending = s.pending \cup {f \in S : Outcome(s, f) = "pending"}
    BY DEF FormState, Check
  <1>6. Check(s, S).pendingRequest
          = s.pendingRequest + Cardinality({f \in S : Outcome(s, f) = "pending"} \ s.pending)
    BY DEF FormState, Check
  <1>7. QED
    BY <1>1, <1>2, <1>3, <1>4, <1>5, <1>6 DEF Asked

LEMMA CheckRequests ==
  ASSUME NEW s \in FormState, NEW S \in SUBSET Field
  PROVE  /\ Check(s, S).previous
              = [f \in Field |-> IF f \in Asked(s, S)
                                 THEN [old |-> Data(f), valid |-> s.previous[f].valid]
                                 ELSE s.previous[f]]
         /\ Check(s, S).ajax
              = [f \in Field |-> IF f \in Asked(s, S)
                                 THEN [data |-> Data(f), own |-> TRUE] ELSE s.ajax[f]]
         /\ Check(s, S).seen
              = [f \in Field |-> IF f \in Asked(s, S) THEN "asked"
                                 ELSE IF f \in S THEN "fresh" ELSE s.seen[f]]
  <1>1. Check(s, S).previous
          = [f \in Field |-> IF f \in {g \in S : Outcome(s, g) = "pending"}
                             THEN [old |-> Data(f), valid |-> s.previous[f].valid]
                             ELSE s.previous[f]]
    BY DEF FormState, Check
  <1>2. Check(s, S).ajax
          = [f \in Field |-> IF f \in {g \in S : Outcome(s, g) = "pending"}
                             THEN [data |-> Data(f), own |-> TRUE] ELSE s.ajax[f]]
    BY DEF FormState, Check
  <1>3. Check(s, S).seen
          = [f \in Field |-> IF f \in {g \in S : Outcome(s, g) = "pending"} THEN "asked"
                             ELSE IF f \in S THEN "fresh" ELSE s.seen[f]]
    BY DEF FormState, Check
  <1>4. QED
    BY <1>1, <1>2, <1>3 DEF Asked

LEMMA CheckKeeps ==
  ASSUME NEW s \in FormState, NEW S \in SUBSET Field
  PROVE  /\ Check(s, S).invalid = s.invalid
         /\ Check(s, S).formSubmitted = s.formSubmitted /\ Check(s, S).sent = s.sent
         /\ Check(s, S).at = s.at /\ Check(s, S).list = s.list
         /\ Check(s, S).summary = s.summary /\ Check(s, S).verdict = s.verdict
  BY DEF FormState, Check

LEMMA CheckRecord ==
  ASSUME NEW s \in FormState, NEW S \in SUBSET Field, NEW c, c = Check(s, S)
  PROVE  c = [errors |-> c.errors, success |-> c.success, submitted |-> c.submitted,
              invalid |-> c.invalid, pending |-> c.pending,
              pendingRequest |-> c.pendingRequest,
              formSubmitted |-> c.formSubmitted, sent |-> c.sent,
              previous |-> c.previous, ajax |-> c.ajax,
              at |-> c.at, list |-> c.list, summary |-> c.summary,
              verdict |-> c.verdict, seen |-> c.seen]
  BY DEF FormState, Check

LEMMA CheckType ==
  ASSUME NEW s \in FormState, NEW S \in SUBSET Field, value \in [Field -> Value]
  PROVE  Check(s, S) \in FormState
  <1> DEFINE c == Check(s, S)
  <1> DEFINE asked == Asked(s, S)
  <1>1. /\ c.errors = {f \in S : Outcome(s, f) = "error"}
        /\ c.success = {f \in S : Outcome(s, f) = "ok"}
        /\ c.submitted \in SUBSET Field
        /\ c.pending = s.pending \cup asked
        /\ c.pendingRequest = s.pendingRequest + Cardinality(asked \ s.pending)
    BY CheckSets
  <1>2. /\ c.previous = [f \in Field |-> IF f \in asked
                                        THEN [old |-> Data(f), valid |-> s.previous[f].valid]
                                        ELSE s.previous[f]]
        /\ c.ajax = [f \in Field |-> IF f \in asked
                                    THEN [data |-> Data(f), own |-> TRUE] ELSE s.ajax[f]]
        /\ c.seen = [f \in Field |-> IF f \in asked THEN "asked"
                                    ELSE IF f \in S THEN "fresh" ELSE s.seen[f]]
    BY CheckRequests
  <1>3. /\ c.invalid \in SUBSET Field /\ c.formSubmitted \in BOOLEAN /\ c.sent \in BOOLEAN
        /\ c.at \in [Field -> Container] /\ c.list \in SUBSET Field
        /\ c.summary \in {"valid", "errors"} /\ c.verdict \in [Field -> Previous]
    BY CheckKeeps DEF FormState
  <1>4. c = [errors |-> c.errors, success |-> c.success, submitted |-> c.submitted,
             invalid |-> c.invalid, pending |-> c.pending,
             pendingRequest |-> c.pendingRequest,
             formSubmitted |-> c.formSubmitted, sent |-> c.sent,
             previous |-> c.previous, ajax |-> c.ajax,
             at |-> c.at, list |-> c.list, summary |-> c.summary,
             verdict |-> c.verdict, seen |-> c.seen]
    BY CheckRecord
  <1>5. asked \in SUBSET Field
    BY DEF Asked
  <1>6. \A f \in Field : Data(f) \in AnyData
    BY DataType
  <1> HIDE DEF c, asked
  <1>7. /\ s.pending \in SUBSET Field /\ s.pendingRequest \in Nat
        /\ s.previous \in [Field -> Previous] /\ s.ajax \in [Field -> Request]
        /\ s.seen \in [Field -> {"clean", "edited", "asked", "fresh", "late"}]
    BY DEF FormState
  <1>8. c.errors \in SUBSET Field /\ c.success \in SUBSET Field
    BY <1>1
  <1>9. IsFiniteSet(asked \ s.pending)
    BY <1>5, FieldsAssumption, FS_Subset
  <1>10. c.pending \in SUBSET Field /\ c.pendingRequest \in Nat
    BY <1>1, <1>5, <1>7, <1>9, FS_CardinalityType
  <1>11. c.previous \in [Field -> Previous]
    <2>1. \A f \in Field : s.previous[f] \in Previous /\ s.previous[f].valid \in BOOLEAN
      BY <1>7 DEF Previous
    <2>2. \A f \in Field : [old |-> Data(f), valid |-> s.previous[f].valid] \in Previous
      BY <1>6, <2>1 DEF Previous
    <2>3. QED
      BY <1>2, <2>1, <2>2
  <1>12. c.ajax \in [Field -> Request]
    <2>1. \A f \in Field : [data |-> Data(f), own |-> TRUE] \in Request
      BY <1>6 DEF Request
    <2>2. QED
      BY <1>2, <1>7, <2>1
  <1>13. c.seen \in [Field -> {"clean", "edited", "asked", "fresh", "late"}]
    BY <1>2, <1>7
  <1>14. c \in FormState
    BY <1>1, <1>3, <1>4, <1>8, <1>10, <1>11, <1>12, <1>13 DEF FormState
  <1>15. QED
    BY <1>14 DEF c

(* What is remembered and counted of requests survives a check. *)
LEMMA CheckSound ==
  ASSUME NEW s, Sound(s), NEW S \in SUBSET Field, value \in [Field -> Value]
  PROVE  Sound(Check(s, S))
  <1> DEFINE c == Check(s, S)
  <1> DEFINE asked == Asked(s, S)
  <1>1. s \in FormState /\ RequestInv(s) /\ CountInv(s)
    BY DEF Sound
  <1>2. c \in FormState
    BY <1>1, CheckType
  <1>3. /\ c.pending = s.pending \cup asked
        /\ c.pendingRequest = s.pendingRequest + Cardinality(asked \ s.pending)
    BY <1>1, CheckSets
  <1>4. /\ c.previous = [f \in Field |-> IF f \in asked
                                        THEN [old |-> Data(f), valid |-> s.previous[f].valid]
                                        ELSE s.previous[f]]
        /\ c.ajax = [f \in Field |-> IF f \in asked
                                    THEN [data |-> Data(f), own |-> TRUE] ELSE s.ajax[f]]
        /\ c.verdict = s.verdict
    BY <1>1, CheckRequests, CheckKeeps
  <1>5. asked \in SUBSET Field /\ s.pending \in SUBSET Field
    BY <1>1 DEF Asked, FormState
  <1> HIDE DEF c, asked
  <1>6. CountInv(c)
    <2>1. IsFiniteSet(s.pending) /\ IsFiniteSet(asked \ s.pending)
      BY <1>5, FieldsAssumption, FS_Subset
    <2>2. s.pending \cap (asked \ s.pending) = {}
      OBVIOUS
    <2>3. c.pending = s.pending \cup (asked \ s.pending)
      BY <1>3
    <2>4. Cardinality(s.pending \cap (asked \ s.pending)) = 0
      BY <2>2, FS_EmptySet
    <2>5. Cardinality(s.pending) \in Nat /\ Cardinality(asked \ s.pending) \in Nat
      BY <2>1, FS_CardinalityType
    <2>6. Cardinality(c.pending) = Cardinality(s.pending) + Cardinality(asked \ s.pending)
                                   - Cardinality(s.pending \cap (asked \ s.pending))
      BY <2>1, <2>3, FS_Union
    <2>7. QED
      BY <1>1, <1>3, <2>4, <2>5, <2>6 DEF CountInv
  <1>7. RequestInv(c)
    <2> SUFFICES ASSUME NEW f \in Field
                 PROVE  /\ c.ajax[f].data # NoData => f \in c.pending
                        /\ c.ajax[f].data # NoData /\ c.ajax[f].own
                             => c.previous[f].old = c.ajax[f].data
                        /\ c.ajax[f].data # NoData /\ ~c.ajax[f].own
                             => c.previous[f].old = NoData
                        /\ f \notin c.pending /\ c.previous[f].old # NoData
                             => c.verdict[f] = c.previous[f]
      BY DEF RequestInv
    <2>1. CASE f \in asked
      BY <1>3, <1>4, <2>1
    <2>2. CASE f \notin asked
      <3>1. c.ajax[f] = s.ajax[f] /\ c.previous[f] = s.previous[f] /\ c.verdict[f] = s.verdict[f]
        BY <1>4, <2>2
      <3>2. f \in c.pending <=> f \in s.pending
        BY <1>3, <2>2
      <3>3. QED
        BY <1>1, <3>1, <3>2 DEF RequestInv
    <2>3. QED
      BY <2>1, <2>2
  <1>8. Sound(c)
    BY <1>2, <1>6, <1>7 DEF Sound
  <1>9. QED
    BY <1>8 DEF c

(* A check without an error, after which nothing is pending, vouches for the   *)
(* fields it was about.                                                        *)
LEMMA CheckVouches ==
  ASSUME NEW s, Sound(s), NEW S \in SUBSET Field, value \in [Field -> Value],
         Check(s, S).errors = {}, Check(s, S).pending = {}
  PROVE  \A f \in S : /\ PassesLocal(f)
                      /\ AsksServer(f) => s.verdict[f] = [old |-> Data(f), valid |-> TRUE]
  <1>1. s \in FormState /\ RequestInv(s)
    BY DEF Sound
  <1>2. {f \in S : Outcome(s, f) = "error"} = {} /\ s.pending = {} /\ Asked(s, S) = {}
    <2>1. /\ Check(s, S).errors = {f \in S : Outcome(s, f) = "error"}
          /\ Check(s, S).pending = s.pending \cup Asked(s, S)
      BY <1>1, CheckSets
    <2>2. QED
      BY <2>1
  <1>3. SUFFICES ASSUME NEW f \in S
                 PROVE  /\ PassesLocal(f)
                        /\ AsksServer(f) => s.verdict[f] = [old |-> Data(f), valid |-> TRUE]
    OBVIOUS
  <1>4. Outcome(s, f) = "ok"
    BY <1>2, OutcomeCases DEF Asked
  <1>5. ASSUME AsksServer(f)
        PROVE  s.verdict[f] = [old |-> Data(f), valid |-> TRUE]
    <2>1. s.previous[f].old = Data(f) /\ s.previous[f].valid
      BY <1>4, <1>5, OutcomeOk
    <2>2. Data(f) # NoData
      BY DataType
    <2>3. s.verdict[f] = s.previous[f]
      BY <1>1, <1>2, <2>1, <2>2 DEF RequestInv
    <2>4. s.previous[f] \in [old : AnyData \cup {NoData}, valid : BOOLEAN]
      BY <1>1 DEF FormState, Previous
    <2>5. s.previous[f] = [old |-> Data(f), valid |-> TRUE]
      BY <2>1, <2>4
    <2>6. QED
      BY <2>3, <2>5
  <1>6. QED
    BY <1>4, <1>5, OutcomeOk

----------------------------------------------------------------------------
(* Showing messages touches nothing that requests are about. *)
LEMMA OnErrorType ==
  ASSUME NEW c \in Container, NEW f, NEW message \in BOOLEAN
  PROVE  OnError(c, f, message) \in Container /\ OnSuccess(c, f) \in Container
  BY DEF OnError, OnSuccess, Container

LEMMA ShowLabelsSound ==
  ASSUME NEW s, Sound(s), NEW errs, NEW oks
  PROVE  /\ Sound(ShowLabels(s, errs, oks))
         /\ SameRequests(s, ShowLabels(s, errs, oks))
         /\ ShowLabels(s, errs, oks).errors = s.errors
         /\ ShowLabels(s, errs, oks).sent = s.sent
         /\ ShowLabels(s, errs, oks).formSubmitted = s.formSubmitted
  <1> DEFINE at == [f \in Field |->
                      IF f \in errs \cap Present THEN OnError(s.at[f], f, TRUE)
                      ELSE IF f \in oks \cap Present
                           THEN OnSuccess(OnError(s.at[f], f, FALSE), f)
                           ELSE s.at[f]]
  <1>1. s \in FormState /\ RequestInv(s) /\ CountInv(s)
    BY DEF Sound
  <1>2. at \in [Field -> Container]
    <2>1. s.at \in [Field -> Container]
      BY <1>1 DEF FormState
    <2>2. \A f \in Field : /\ OnError(s.at[f], f, TRUE) \in Container
                           /\ OnSuccess(OnError(s.at[f], f, FALSE), f) \in Container
      BY <2>1, OnErrorType
    <2>3. QED
      BY <2>1, <2>2
  <1>3. ShowLabels(s, errs, oks) = [s EXCEPT !.at = at]
    BY DEF ShowLabels
  <1> HIDE DEF at
  <1>4. [s EXCEPT !.at = at] \in FormState
    BY <1>1, <1>2 DEF FormState
  <1>5. SameRequests(s, [s EXCEPT !.at = at])
    BY <1>1 DEF SameRequests, FormState
  <1>6. /\ [s EXCEPT !.at = at].errors = s.errors
        /\ [s EXCEPT !.at = at].sent = s.sent
        /\ [s EXCEPT !.at = at].formSubmitted = s.formSubmitted
    BY <1>1 DEF FormState
  <1>7. QED
    BY <1>1, <1>3, <1>4, <1>5, <1>6, SameRequestsInv DEF Sound

LEMMA ShowErrorsSound ==
  ASSUME NEW s, Sound(s)
  PROVE  /\ Sound(ShowErrors(s)) /\ SameRequests(s, ShowErrors(s))
         /\ ShowErrors(s).errors = s.errors
         /\ ShowErrors(s).sent = s.sent
         /\ ShowErrors(s).formSubmitted = s.formSubmitted
  BY ShowLabelsSound DEF ShowErrors

LEMMA OnErrorsSound ==
  ASSUME NEW s, Sound(s)
  PROVE  /\ Sound(OnErrors(s)) /\ SameRequests(s, OnErrors(s))
         /\ OnErrors(s).errors = s.errors
         /\ OnErrors(s).sent = s.sent
         /\ OnErrors(s).formSubmitted = s.formSubmitted
  <1>1. s \in FormState /\ RequestInv(s) /\ CountInv(s)
    BY DEF Sound
  <1>2. s.errors \in SUBSET Field
    BY <1>1 DEF FormState
  <1>3. OnErrors(s) \in FormState
    BY <1>1, <1>2 DEF FormState, OnErrors
  <1>4. SameRequests(s, OnErrors(s))
    BY <1>1 DEF SameRequests, FormState, OnErrors
  <1>5. /\ OnErrors(s).errors = s.errors
        /\ OnErrors(s).sent = s.sent
        /\ OnErrors(s).formSubmitted = s.formSubmitted
    BY <1>1 DEF FormState, OnErrors
  <1>6. QED
    BY <1>1, <1>3, <1>4, <1>5, SameRequestsInv DEF Sound

LEMMA InvalidSound ==
  ASSUME NEW s, Sound(s), NEW S \in SUBSET Field
  PROVE  /\ Sound([s EXCEPT !.invalid = S]) /\ SameRequests(s, [s EXCEPT !.invalid = S])
         /\ [s EXCEPT !.invalid = S].errors = s.errors
         /\ [s EXCEPT !.invalid = S].sent = s.sent
         /\ [s EXCEPT !.invalid = S].formSubmitted = s.formSubmitted
  <1>1. s \in FormState /\ RequestInv(s) /\ CountInv(s)
    BY DEF Sound
  <1>2. [s EXCEPT !.invalid = S] \in FormState
    BY <1>1 DEF FormState
  <1>3. SameRequests(s, [s EXCEPT !.invalid = S])
    BY <1>1 DEF SameRequests, FormState
  <1>4. /\ [s EXCEPT !.invalid = S].errors = s.errors
        /\ [s EXCEPT !.invalid = S].sent = s.sent
        /\ [s EXCEPT !.invalid = S].formSubmitted = s.formSubmitted
    BY <1>1 DEF FormState
  <1>5. QED
    BY <1>1, <1>2, <1>3, <1>4, SameRequestsInv DEF Sound

LEMMA SentSound ==
  ASSUME NEW s, Sound(s), NEW b \in BOOLEAN
  PROVE  /\ Sound([s EXCEPT !.sent = b]) /\ Sound([s EXCEPT !.formSubmitted = b])
         /\ [s EXCEPT !.sent = b].sent = b /\ [s EXCEPT !.formSubmitted = b].sent = s.sent
         /\ SameRequests(s, [s EXCEPT !.sent = b])
         /\ SameRequests(s, [s EXCEPT !.formSubmitted = b])
  <1>1. s \in FormState /\ RequestInv(s) /\ CountInv(s)
    BY DEF Sound
  <1>2. [s EXCEPT !.sent = b] \in FormState /\ [s EXCEPT !.formSubmitted = b] \in FormState
    BY <1>1 DEF FormState
  <1>3. SameRequests(s, [s EXCEPT !.sent = b])
    BY <1>1 DEF SameRequests, FormState
  <1>4. SameRequests(s, [s EXCEPT !.formSubmitted = b])
    BY <1>1 DEF SameRequests, FormState
  <1>5. [s EXCEPT !.sent = b].sent = b /\ [s EXCEPT !.formSubmitted = b].sent = s.sent
    BY <1>1 DEF FormState
  <1>6. QED
    BY <1>1, <1>2, <1>3, <1>4, <1>5, SameRequestsInv DEF Sound

----------------------------------------------------------------------------
LEMMA ElementsType == settings \subseteq Field => Elements \in SUBSET Field
  BY DEF Elements

LEMMA ValidateFormSound ==
  ASSUME NEW s, Sound(s), value \in [Field -> Value], settings \subseteq Field
  PROVE  /\ Sound(ValidateForm(s)) /\ SameRequests(Check(s, Elements), ValidateForm(s))
         /\ ValidateForm(s).errors = Check(s, Elements).errors
         /\ ValidateForm(s).sent = s.sent
  <1> DEFINE checked == Check(s, Elements)
  <1> DEFINE counted == [checked EXCEPT !.invalid = checked.errors]
  <1>1. Sound(checked) /\ checked.sent = s.sent
    BY ElementsType, CheckSound, CheckKeeps DEF Sound
  <1>2. ValidateForm(s) = ShowErrors(IF counted.errors = {} THEN counted ELSE OnErrors(counted))
    BY DEF ValidateForm
  <1> HIDE DEF checked
  <1>3. checked.errors \in SUBSET Field
    BY <1>1 DEF Sound, FormState
  <1>4. /\ Sound(counted) /\ SameRequests(checked, counted)
        /\ counted.errors = checked.errors /\ counted.sent = s.sent
    BY <1>1, <1>3, InvalidSound
  <1> HIDE DEF counted
  <1> DEFINE listed == IF counted.errors = {} THEN counted ELSE OnErrors(counted)
  <1>5. /\ Sound(listed) /\ SameRequests(counted, listed)
        /\ listed.errors = counted.errors /\ listed.sent = counted.sent
    BY <1>4, OnErrorsSound DEF SameRequests
  <1> HIDE DEF listed
  <1>6. /\ Sound(ShowErrors(listed)) /\ SameRequests(listed, ShowErrors(listed))
        /\ ShowErrors(listed).errors = listed.errors
        /\ ShowErrors(listed).sent = listed.sent
    BY <1>5, ShowErrorsSound
  <1>7. SameRequests(checked, ShowErrors(listed))
    BY <1>4, <1>5, <1>6 DEF SameRequests
  <1>8. ValidateForm(s) = ShowErrors(listed)
    BY <1>2 DEF listed
  <1>9. QED
    BY <1>4, <1>5, <1>6, <1>7, <1>8 DEF checked

LEMMA ValidateElementSound ==
  ASSUME NEW s, Sound(s), value \in [Field -> Value], settings \subseteq Field,
         NEW f \in Field
  PROVE  Sound(ValidateElement(s, f)) /\ ValidateElement(s, f).sent = s.sent
  <1> DEFINE checked == Check(s, {f} \cap settings)
  <1> DEFINE counted == [checked EXCEPT !.invalid = checked.invalid \cup {f}]
  <1>1. ValidateElement(s, f) = ShowErrors(counted)
    BY DEF ValidateElement
  <1>2. Sound(checked) /\ checked.sent = s.sent
    BY CheckSound, CheckKeeps DEF Sound
  <1> HIDE DEF checked
  <1>3. checked.invalid \cup {f} \in SUBSET Field
    BY <1>2 DEF Sound, FormState
  <1>4. Sound(counted) /\ counted.sent = s.sent
    BY <1>2, <1>3, InvalidSound
  <1> HIDE DEF counted
  <1>5. QED
    BY <1>1, <1>4, ShowErrorsSound

(* A form that is sent by a submit is one that a check vouches for. *)
LEMMA SubmitFormSound ==
  ASSUME NEW s, Sound(s), ~s.sent, value \in [Field -> Value], settings \subseteq Field
  PROVE  Sound(SubmitForm(s)) /\ ValidIfSent(SubmitForm(s))
  <1> DEFINE checked == ValidateForm(s)
  <1>1. /\ Sound(checked) /\ SameRequests(Check(s, Elements), checked)
        /\ checked.errors = Check(s, Elements).errors
        /\ ~checked.sent
    BY ValidateFormSound
  <1>2. Check(s, Elements).verdict = s.verdict
    BY CheckKeeps, ElementsType DEF Sound
  <1>3. /\ checked.pending = Check(s, Elements).pending
        /\ checked.verdict = s.verdict
    BY <1>1, <1>2 DEF SameRequests
  <1>4. SubmitForm(s) = IF checked.errors # {} THEN checked
                        ELSE IF checked.pendingRequest > 0
                             THEN [checked EXCEPT !.formSubmitted = TRUE]
                             ELSE [checked EXCEPT !.sent = TRUE]
    BY DEF SubmitForm
  <1> HIDE DEF checked
  <1>5. CASE checked.errors # {}
    BY <1>1, <1>4, <1>5 DEF ValidIfSent
  <1>6. CASE checked.errors = {} /\ checked.pendingRequest > 0
    <2>1. SubmitForm(s) = [checked EXCEPT !.formSubmitted = TRUE]
      BY <1>4, <1>6
    <2>2. /\ Sound([checked EXCEPT !.formSubmitted = TRUE])
          /\ [checked EXCEPT !.formSubmitted = TRUE].sent = checked.sent
      BY <1>1, SentSound
    <2>3. QED
      BY <1>1, <2>1, <2>2 DEF ValidIfSent
  <1>7. CASE checked.errors = {} /\ ~(checked.pendingRequest > 0)
    <2>1. checked.pendingRequest = Cardinality(checked.pending) /\ checked \in FormState
      BY <1>1 DEF Sound, CountInv
    <2>2. IsFiniteSet(checked.pending)
      BY <2>1, FieldSetsFinite
    <2>3. Cardinality(checked.pending) = 0
      BY <1>7, <2>1, <2>2, FS_CardinalityType
    <2>4. checked.pending = {}
      BY <2>2, <2>3, FS_EmptySet
    <2>5. \A f \in Elements :
             /\ PassesLocal(f)
             /\ AsksServer(f) => s.verdict[f] = [old |-> Data(f), valid |-> TRUE]
      BY <1>1, <1>3, <1>7, <2>4, CheckVouches, ElementsType
    <2>6. [checked EXCEPT !.sent = TRUE].verdict = s.verdict
      BY <1>3, <2>1 DEF FormState
    <2>7. SubmitForm(s) = [checked EXCEPT !.sent = TRUE]
      BY <1>4, <1>7
    <2>8. Sound([checked EXCEPT !.sent = TRUE])
      BY <1>1, SentSound
    <2>9. QED
      BY <2>5, <2>6, <2>7, <2>8 DEF ValidIfSent
  <1>8. QED
    BY <1>5, <1>6, <1>7

----------------------------------------------------------------------------
(* The request of f has been answered, and its answer noted.                   *)
Answered(s, f) ==
  /\ s \in FormState /\ CountInv(s) /\ f \in s.pending
  /\ RequestInv([s EXCEPT !.pending = @ \ {f}])

LEMMA CountedSound ==
  ASSUME NEW s, NEW f \in Field, Answered(s, f)
  PROVE  Sound(Counted(s, f)) /\ Counted(s, f).sent = s.sent
         /\ Counted(s, f).formSubmitted = s.formSubmitted
  <1> DEFINE less == [s EXCEPT !.pending = s.pending \ {f}]
  <1> DEFINE c == Counted(s, f)
  <1>1. s \in FormState /\ s.pendingRequest = Cardinality(s.pending) /\ f \in s.pending
    BY DEF Answered, CountInv
  <1>2. IsFiniteSet(s.pending) /\ s.pending \in SUBSET Field /\ s.pendingRequest \in Nat
    BY <1>1, FieldSetsFinite DEF FormState
  <1>3. Cardinality(s.pending \ {f}) = Cardinality(s.pending) - 1 /\ Cardinality(s.pending \ {f}) \in Nat
    BY <1>1, <1>2, FS_RemoveElement, FS_CardinalityType
  <1>4. s.pendingRequest > 0
    BY <1>1, <1>2, <1>3
  <1>5. c = [s EXCEPT !.pendingRequest = s.pendingRequest - 1, !.pending = s.pending \ {f}]
    BY <1>4 DEF Counted
  <1>6. c.pendingRequest = s.pendingRequest - 1 /\ c.pending = s.pending \ {f}
    BY <1>1, <1>5 DEF FormState
  <1>7. c \in FormState
    <2> DEFINE n == s.pendingRequest - 1
    <2> DEFINE p == s.pending \ {f}
    <2>1. n \in Nat /\ p \in SUBSET Field
      BY <1>1, <1>2, <1>3
    <2> HIDE DEF n, p
    <2>2. [s EXCEPT !.pendingRequest = n, !.pending = p] \in FormState
      BY <1>1, <2>1 DEF FormState
    <2>3. QED
      BY <1>5, <2>2 DEF n, p
  <1>8. CountInv(c)
    BY <1>1, <1>3, <1>6 DEF CountInv
  <1>9. /\ less.pending = c.pending /\ less.previous = c.previous
        /\ less.ajax = c.ajax /\ less.verdict = c.verdict
    BY <1>1, <1>5 DEF FormState
  <1>10. RequestInv(less)
    BY DEF Answered
  <1>11. c.sent = s.sent /\ c.formSubmitted = s.formSubmitted
    BY <1>1, <1>5 DEF FormState
  <1> HIDE DEF c, less
  <1>12. RequestInv(c)
    BY <1>9, <1>10 DEF RequestInv
  <1>13. QED
    BY <1>7, <1>8, <1>11, <1>12 DEF Sound, c

LEMMA StopRequestSound ==
  ASSUME NEW s, NEW f \in Field, NEW valid \in BOOLEAN, Answered(s, f), ~s.sent,
         value \in [Field -> Value], settings \subseteq Field
  PROVE  Sound(StopRequest(s, f, valid)) /\ ValidIfSent(StopRequest(s, f, valid))
  <1> DEFINE rest == Counted(s, f)
  <1> DEFINE checked == ValidateForm(rest)
  <1> DEFINE stopped == StopRequest(s, f, valid)
  <1>1. Sound(rest) /\ ~rest.sent
    BY CountedSound
  <1>2. Sound(checked) /\ ~checked.sent
    BY <1>1, ValidateFormSound
  <1>3. \/ stopped = rest
        \/ stopped = [OnErrors(rest) EXCEPT !.formSubmitted = FALSE]
        \/ stopped = checked
        \/ stopped = [SubmitForm(checked) EXCEPT !.formSubmitted = FALSE]
    BY DEF StopRequest
  <1> HIDE DEF rest, checked
  <1>4. /\ Sound([OnErrors(rest) EXCEPT !.formSubmitted = FALSE])
        /\ ~[OnErrors(rest) EXCEPT !.formSubmitted = FALSE].sent
    BY <1>1, OnErrorsSound, SentSound
  <1> DEFINE submitted == SubmitForm(checked)
  <1>5. Sound(submitted) /\ ValidIfSent(submitted)
    BY <1>2, SubmitFormSound
  <1> HIDE DEF submitted
  <1>6. /\ Sound([submitted EXCEPT !.formSubmitted = FALSE])
        /\ [submitted EXCEPT !.formSubmitted = FALSE].sent = submitted.sent
        /\ [submitted EXCEPT !.formSubmitted = FALSE].verdict = submitted.verdict
    BY <1>5, SentSound DEF SameRequests
  <1>7. ValidIfSent([submitted EXCEPT !.formSubmitted = FALSE])
    BY <1>5, <1>6 DEF ValidIfSent
  <1>8. QED
    BY <1>1, <1>2, <1>3, <1>4, <1>6, <1>7 DEF ValidIfSent, submitted

----------------------------------------------------------------------------
(* Answers, resets and removals change what is known of one request or of some, *)
(* and leave the counter alone.                                                 *)
RequestOf(f, s, p, a, v) ==
  /\ a[f].data # NoData => f \in s.pending
  /\ a[f].data # NoData /\ a[f].own => p[f].old = a[f].data
  /\ a[f].data # NoData /\ ~a[f].own => p[f].old = NoData
  /\ f \notin s.pending /\ p[f].old # NoData => v[f] = p[f]

WithRequests(s, p, a, v) == [s EXCEPT !.previous = p, !.ajax = a, !.verdict = v]

LEMMA RequestsSound ==
  ASSUME NEW s, Sound(s), NEW p \in [Field -> Previous], NEW a \in [Field -> Request],
         NEW v \in [Field -> Previous], \A f \in Field : RequestOf(f, s, p, a, v)
  PROVE  /\ Sound(WithRequests(s, p, a, v))
         /\ WithRequests(s, p, a, v).sent = s.sent
  <1> DEFINE t == WithRequests(s, p, a, v)
  <1>1. s \in FormState /\ CountInv(s)
    BY DEF Sound
  <1>2. t \in FormState
    BY <1>1 DEF FormState, WithRequests
  <1>3. /\ t.previous = p /\ t.ajax = a /\ t.verdict = v /\ t.pending = s.pending
        /\ t.pendingRequest = s.pendingRequest /\ t.sent = s.sent
    BY <1>1 DEF FormState, WithRequests
  <1> HIDE DEF t
  <1>4. RequestInv(t) /\ CountInv(t)
    BY <1>1, <1>3 DEF RequestInv, CountInv, RequestOf
  <1>5. QED
    BY <1>2, <1>3, <1>4 DEF Sound, t

WithLists(s, e, o, i) == [s EXCEPT !.errors = e, !.success = o, !.invalid = i]

LEMMA ListsSound ==
  ASSUME NEW s, Sound(s), NEW e \in SUBSET Field, NEW o \in SUBSET Field,
         NEW i \in SUBSET Field
  PROVE  /\ Sound(WithLists(s, e, o, i))
         /\ SameRequests(s, WithLists(s, e, o, i))
         /\ WithLists(s, e, o, i).sent = s.sent
  <1> DEFINE t == WithLists(s, e, o, i)
  <1>1. s \in FormState /\ RequestInv(s) /\ CountInv(s)
    BY DEF Sound
  <1>2. t \in FormState
    BY <1>1 DEF FormState, WithLists
  <1>3. SameRequests(s, t) /\ t.sent = s.sent
    BY <1>1 DEF SameRequests, FormState, WithLists
  <1>4. QED
    BY <1>1, <1>2, <1>3, SameRequestsInv DEF Sound

Seen == {"clean", "edited", "asked", "fresh", "late"}

LEMMA SeenSound ==
  ASSUME NEW s, Sound(s), NEW x \in [Field -> Seen]
  PROVE  /\ Sound([s EXCEPT !.seen = x]) /\ SameRequests(s, [s EXCEPT !.seen = x])
         /\ [s EXCEPT !.seen = x].sent = s.sent
         /\ [s EXCEPT !.seen = x].errors = s.errors
         /\ [s EXCEPT !.seen = x].success = s.success
         /\ [s EXCEPT !.seen = x].invalid = s.invalid
  <1> DEFINE t == [s EXCEPT !.seen = x]
  <1>1. s \in FormState /\ RequestInv(s) /\ CountInv(s)
    BY DEF Sound
  <1>2. t \in FormState
    BY <1>1 DEF FormState, Seen
  <1>3. /\ SameRequests(s, t) /\ t.sent = s.sent
        /\ t.errors = s.errors /\ t.success = s.success /\ t.invalid = s.invalid
    BY <1>1 DEF SameRequests, FormState
  <1>4. QED
    BY <1>1, <1>2, <1>3, SameRequestsInv DEF Sound

LEMMA NothingTypes == NoPrevious \in Previous /\ NoRequest \in Request
                      /\ NoPrevious.old = NoData /\ NoRequest.data = NoData
  BY DEF NoPrevious, NoRequest, Previous, Request

LEMMA ReceivedSound ==
  ASSUME NEW s, Sound(s), NEW f \in Field, NEW valid \in BOOLEAN, s.ajax[f].data # NoData
  PROVE  /\ Sound(Received(s, f, valid)) /\ f \in s.pending
         /\ Received(s, f, valid).sent = s.sent
         /\ Received(s, f, valid).pending = s.pending
         /\ Received(s, f, valid).previous = s.previous
         /\ Received(s, f, valid).ajax = [s.ajax EXCEPT ![f] = NoRequest]
         /\ Received(s, f, valid).verdict
              = [s.verdict EXCEPT ![f] = [old |-> s.ajax[f].data, valid |-> valid]]
  <1> DEFINE p == s.previous
  <1> DEFINE a == [s.ajax EXCEPT ![f] = NoRequest]
  <1> DEFINE v == [s.verdict EXCEPT ![f] = [old |-> s.ajax[f].data, valid |-> valid]]
  <1> DEFINE x == [s.seen EXCEPT ![f] =
                     CASE s.seen[f] = "edited" -> "edited"
                       [] s.seen[f] # "edited" /\ s.ajax[f].own /\ s.ajax[f].data = Data(f) -> "fresh"
                       [] OTHER -> "late"]
  <1>1. s \in FormState /\ RequestInv(s)
    BY DEF Sound
  <1>2. /\ s.previous \in [Field -> Previous] /\ s.ajax \in [Field -> Request]
        /\ s.verdict \in [Field -> Previous] /\ s.seen \in [Field -> Seen]
    BY <1>1 DEF FormState, Seen
  <1>3. a \in [Field -> Request] /\ p \in [Field -> Previous]
    BY <1>2, NothingTypes
  <1>4. v \in [Field -> Previous]
    <2>1. [old |-> s.ajax[f].data, valid |-> valid] \in Previous
      BY <1>2 DEF Previous, Request
    <2>2. QED
      BY <1>2, <2>1
  <1>5. x \in [Field -> Seen]
    BY <1>2 DEF Seen
  <1>6. f \in s.pending
    BY <1>1 DEF RequestInv
  <1>7. \A g \in Field : RequestOf(g, s, p, a, v)
    <2> SUFFICES ASSUME NEW g \in Field
                 PROVE  RequestOf(g, s, p, a, v)
      OBVIOUS
    <2>1. CASE g = f
      BY <1>2, <1>6, <2>1, NothingTypes DEF RequestOf
    <2>2. CASE g # f
      <3>1. a[g] = s.ajax[g] /\ v[g] = s.verdict[g]
        BY <1>2, <2>2
      <3>2. QED
        BY <1>1, <3>1 DEF RequestInv, RequestOf
    <2>3. QED
      BY <2>1, <2>2
  <1>8. Received(s, f, valid) = [s EXCEPT !.ajax = a, !.verdict = v, !.seen = x]
    BY <1>1, <1>2 DEF Received, FormState
  <1> HIDE DEF p, a, v, x
  <1> DEFINE t == WithRequests(s, p, a, v)
  <1>9. Sound(t) /\ t.sent = s.sent
    BY <1>3, <1>4, <1>7, RequestsSound
  <1>10. /\ t.pending = s.pending /\ t.previous = p
         /\ t.ajax = a /\ t.verdict = v
    BY <1>1 DEF FormState, WithRequests
  <1>11. [s EXCEPT !.ajax = a, !.verdict = v, !.seen = x] = [t EXCEPT !.seen = x]
    BY <1>1 DEF FormState, WithRequests, p
  <1> HIDE DEF t
  <1>12. /\ Sound([t EXCEPT !.seen = x]) /\ SameRequests(t, [t EXCEPT !.seen = x])
         /\ [t EXCEPT !.seen = x].sent = t.sent
    BY <1>5, <1>9, SeenSound
  <1>13. QED
    BY <1>6, <1>8, <1>9, <1>10, <1>11, <1>12 DEF SameRequests, p, a, v

LEMMA NotedPrevious ==
  ASSUME NEW s, Sound(s), NEW f \in Field, NEW valid \in BOOLEAN
  PROVE  /\ Noted(s, f, valid).previous \in [Field -> Previous]
         /\ \A g \in Field \ {f} : Noted(s, f, valid).previous[g] = s.previous[g]
         /\ Noted(s, f, valid).previous[f].old = s.previous[f].old
         /\ s.ajax[f].own => Noted(s, f, valid).previous[f].valid = valid
  <1> DEFINE b == IF s.ajax[f].own THEN valid ELSE s.previous[f].valid
  <1> DEFINE q == [old |-> s.previous[f].old, valid |-> b]
  <1>1. s \in FormState /\ s.previous \in [Field -> Previous] /\ s.ajax \in [Field -> Request]
    BY DEF Sound, FormState
  <1>2. b \in BOOLEAN
    BY <1>1 DEF Previous
  <1>3. q \in Previous
    BY <1>1, <1>2 DEF Previous
  <1>4. [s.previous[f] EXCEPT !.valid = b] = q
    BY <1>1 DEF Previous
  <1>5. Noted(s, f, valid) = [s EXCEPT !.previous = [s.previous EXCEPT ![f] =
                                          [s.previous[f] EXCEPT !.valid = b]]]
    BY <1>1 DEF Noted, FormState
  <1> HIDE DEF q
  <1>6. Noted(s, f, valid).previous = [s.previous EXCEPT ![f] = q]
    BY <1>1, <1>4, <1>5 DEF FormState
  <1>7. q.old = s.previous[f].old /\ (s.ajax[f].own => q.valid = valid)
    BY DEF q
  <1>8. QED
    BY <1>1, <1>3, <1>6, <1>7

(* The element remembers the answer, if it still remembers the question. *)
WithPrevious(s, p) == [s EXCEPT !.previous = p]

LEMMA NotedAnswered ==
  ASSUME NEW s, Sound(s), NEW f \in Field, NEW valid \in BOOLEAN, s.ajax[f].data # NoData,
         NEW t, Sound(t), SameRequests(Received(s, f, valid), t)
  PROVE  /\ Answered(WithPrevious(t, Noted(s, f, valid).previous), f)
         /\ WithPrevious(t, Noted(s, f, valid).previous).sent = t.sent
  <1> DEFINE p == Noted(s, f, valid).previous
  <1> DEFINE u == WithPrevious(t, p)
  <1> DEFINE w == [u EXCEPT !.pending = u.pending \ {f}]
  <1>1. /\ p \in [Field -> Previous]
        /\ \A g \in Field \ {f} : p[g] = s.previous[g]
        /\ p[f].old = s.previous[f].old
        /\ s.ajax[f].own => p[f].valid = valid
    BY NotedPrevious
  <1>2. /\ f \in s.pending /\ t.pending = s.pending
        /\ t.ajax = [s.ajax EXCEPT ![f] = NoRequest]
        /\ t.verdict = [s.verdict EXCEPT ![f] = [old |-> s.ajax[f].data, valid |-> valid]]
    BY ReceivedSound DEF SameRequests
  <1> HIDE DEF p
  <1>3. t \in FormState /\ CountInv(t) /\ s \in FormState /\ RequestInv(s)
    BY DEF Sound
  <1>4. u \in FormState
    BY <1>1, <1>3 DEF FormState, WithPrevious
  <1>5. /\ u.pending = t.pending /\ u.pendingRequest = t.pendingRequest
        /\ u.previous = p /\ u.ajax = t.ajax /\ u.verdict = t.verdict /\ u.sent = t.sent
    BY <1>3 DEF FormState, WithPrevious
  <1> HIDE DEF u
  <1>6. /\ w.pending = s.pending \ {f} /\ w.previous = p
        /\ w.ajax = t.ajax /\ w.verdict = t.verdict
    BY <1>2, <1>4, <1>5 DEF FormState
  <1>7. /\ s.ajax \in [Field -> Request] /\ s.verdict \in [Field -> Previous]
        /\ s.previous \in [Field -> Previous]
    BY <1>3 DEF FormState
  <1> HIDE DEF w
  <1>8. RequestInv(w)
    <2> SUFFICES ASSUME NEW g \in Field
                 PROVE  /\ w.ajax[g].data # NoData => g \in w.pending
                        /\ w.ajax[g].data # NoData /\ w.ajax[g].own
                             => w.previous[g].old = w.ajax[g].data
                        /\ w.ajax[g].data # NoData /\ ~w.ajax[g].own
                             => w.previous[g].old = NoData
                        /\ g \notin w.pending /\ w.previous[g].old # NoData
                             => w.verdict[g] = w.previous[g]
      BY DEF RequestInv
    <2>1. CASE g = f
      <3>1. w.ajax[g] = NoRequest /\ NoRequest.data = NoData
        BY <1>2, <1>6, <1>7, <2>1, NothingTypes
      <3>2. w.verdict[g] = [old |-> s.ajax[f].data, valid |-> valid]
        BY <1>2, <1>6, <1>7, <2>1
      <3>3. p[f] \in Previous
        BY <1>1
      <3>4. p[f].old # NoData => p[f] = [old |-> s.ajax[f].data, valid |-> valid]
        <4>1. p[f].old # NoData => s.ajax[f].own /\ p[f].old = s.ajax[f].data
          BY <1>1, <1>3 DEF RequestInv
        <4>2. QED
          BY <1>1, <3>3, <4>1 DEF Previous
      <3>5. QED
        BY <1>6, <2>1, <3>1, <3>2, <3>4
    <2>2. CASE g # f
      <3>1. /\ w.ajax[g] = s.ajax[g] /\ w.verdict[g] = s.verdict[g]
            /\ w.previous[g] = s.previous[g]
        BY <1>1, <1>2, <1>6, <1>7, <2>2
      <3>2. g \in w.pending <=> g \in s.pending
        BY <1>6, <2>2
      <3>3. QED
        BY <1>3, <3>1, <3>2 DEF RequestInv
    <2>3. QED
      BY <2>1, <2>2
  <1>9. Answered(u, f)
    BY <1>2, <1>3, <1>4, <1>5, <1>8 DEF Answered, CountInv, w
  <1>10. QED
    BY <1>5, <1>9 DEF u, p

LEMMA AnswerValidSound ==
  ASSUME NEW s, Sound(s), ~s.sent, NEW f \in Field, s.ajax[f].data # NoData,
         value \in [Field -> Value], settings \subseteq Field
  PROVE  Sound(AnswerValid(s, f)) /\ ValidIfSent(AnswerValid(s, f))
  <1> DEFINE r == Received(s, f, TRUE)
  <1> DEFINE i == r.invalid \cup {f}
  <1> DEFINE l == WithLists(r, {}, {f}, i)
  <1> DEFINE shown == ShowErrors(l)
  <1> DEFINE u == WithPrevious(shown, Noted(s, f, TRUE).previous)
  <1>1. Sound(r) /\ ~r.sent
    <2>1. \A valid \in BOOLEAN : /\ Sound(Received(s, f, valid))
                                 /\ Received(s, f, valid).sent = s.sent
      BY ReceivedSound, ZenonT(60)
    <2>2. Sound(Received(s, f, TRUE)) /\ Received(s, f, TRUE).sent = s.sent
      BY <2>1, ZenonT(60)
    <2>3. QED
      BY <2>2
  <1>2. AnswerValid(s, f) = StopRequest(u, f, TRUE)
    BY DEF AnswerValid, WithPrevious, WithLists
  <1>3. Sound(l) /\ SameRequests(r, l) /\ ~l.sent
    <2>1. i \in SUBSET Field /\ {} \in SUBSET Field /\ {f} \in SUBSET Field
      BY <1>1 DEF Sound, FormState
    <2> HIDE DEF r, i
    <2>2. QED
      BY <1>1, <2>1, ListsSound
  <1> HIDE DEF l
  <1>4. Sound(shown) /\ SameRequests(l, shown) /\ ~shown.sent
    BY <1>3, ShowErrorsSound
  <1>5. SameRequests(Received(s, f, TRUE), shown)
    BY <1>3, <1>4 DEF SameRequests
  <1> HIDE DEF shown
  <1>6. Answered(u, f) /\ u.sent = shown.sent
    BY <1>4, <1>5, NotedAnswered
  <1> HIDE DEF u
  <1>7. QED
    BY <1>2, <1>4, <1>6, StopRequestSound

LEMMA WithErrorSound ==
  ASSUME NEW s, Sound(s), NEW f \in Field, s.ajax[f].data # NoData
  PROVE  /\ Sound(WithError(s, f)) /\ SameRequests(Received(s, f, FALSE), WithError(s, f))
         /\ WithError(s, f).sent = s.sent
  <1> DEFINE r == Received(s, f, FALSE)
  <1> DEFINE e == r.errors \cup {f}
  <1> DEFINE o == r.success \ {f}
  <1> DEFINE i == r.invalid \cup {f}
  <1> DEFINE x == [g \in Field |-> IF g \in s.errors /\ g # f /\ s.seen[g] = "clean"
                                   THEN "late" ELSE r.seen[g]]
  <1> DEFINE l == WithLists(r, e, o, i)
  <1>1. Sound(r) /\ r.sent = s.sent
    BY ReceivedSound
  <1>2. WithError(s, f) = [r EXCEPT !.errors = e, !.success = o, !.invalid = i, !.seen = x]
    BY DEF WithError
  <1> HIDE DEF r
  <1>3. /\ r \in FormState /\ e \in SUBSET Field /\ o \in SUBSET Field /\ i \in SUBSET Field
        /\ x \in [Field -> Seen]
    BY <1>1 DEF Sound, FormState, Seen
  <1> HIDE DEF e, o, i, x
  <1>4. [r EXCEPT !.errors = e, !.success = o, !.invalid = i, !.seen = x] = [l EXCEPT !.seen = x]
    BY <1>3 DEF FormState, WithLists
  <1>5. Sound(l) /\ SameRequests(r, l) /\ l.sent = r.sent
    BY <1>1, <1>3, ListsSound
  <1> HIDE DEF l
  <1>6. Sound([l EXCEPT !.seen = x]) /\ SameRequests(l, [l EXCEPT !.seen = x])
        /\ [l EXCEPT !.seen = x].sent = l.sent
    BY <1>3, <1>5, SeenSound
  <1>7. SameRequests(r, [l EXCEPT !.seen = x])
    BY <1>5, <1>6 DEF SameRequests
  <1>8. QED
    BY <1>1, <1>2, <1>4, <1>5, <1>6, <1>7 DEF r

LEMMA AnswerInvalidSound ==
  ASSUME NEW s, Sound(s), ~s.sent, NEW f \in Field, s.ajax[f].data # NoData,
         value \in [Field -> Value], settings \subseteq Field
  PROVE  Sound(AnswerInvalid(s, f)) /\ ValidIfSent(AnswerInvalid(s, f))
  <1> DEFINE shown == ShowErrors(WithError(s, f))
  <1> DEFINE u == WithPrevious(shown, Noted(s, f, FALSE).previous)
  <1>1. /\ Sound(WithError(s, f)) /\ ~WithError(s, f).sent
        /\ SameRequests(Received(s, f, FALSE), WithError(s, f))
    BY WithErrorSound
  <1>2. AnswerInvalid(s, f) = StopRequest(u, f, FALSE)
    BY DEF AnswerInvalid, WithPrevious
  <1>3. Sound(shown) /\ SameRequests(WithError(s, f), shown) /\ ~shown.sent
    BY <1>1, ShowErrorsSound
  <1>4. SameRequests(Received(s, f, FALSE), shown)
    BY <1>1, <1>3 DEF SameRequests
  <1> HIDE DEF shown
  <1>5. Answered(u, f) /\ u.sent = shown.sent
    BY <1>3, <1>4, NotedAnswered
  <1> HIDE DEF u
  <1>6. QED
    BY <1>2, <1>3, <1>5, StopRequestSound

LEMMA AnswerThrowsSound ==
  ASSUME NEW s, Sound(s), ~s.sent, NEW f \in Field, s.ajax[f].data # NoData,
         NEW t \in AnswerThrows(s, f)
  PROVE  Sound(t) /\ ~t.sent
  <1>1. Sound(WithError(s, f)) /\ ~WithError(s, f).sent
    BY WithErrorSound
  <1>2. PICK shown : t = ShowLabels(WithError(s, f), shown, {})
    BY DEF AnswerThrows
  <1>3. QED
    BY <1>1, <1>2, ShowLabelsSound

----------------------------------------------------------------------------
(* Forgetting: elements that are reset or removed no longer wait for an answer. *)
Unasked(s, S) == [f \in Field |-> IF f \in S THEN NoPrevious ELSE s.previous[f]]

Disowned(s, S) ==
  [f \in Field |-> IF f \in S THEN [s.ajax[f] EXCEPT !.own = FALSE] ELSE s.ajax[f]]

Forgotten(s, S) == WithRequests(s, Unasked(s, S), Disowned(s, S), s.verdict)

LEMMA ForgottenSound ==
  ASSUME NEW s, Sound(s), NEW S \in SUBSET Field
  PROVE  Sound(Forgotten(s, S)) /\ Forgotten(s, S).sent = s.sent
  <1> DEFINE p == Unasked(s, S)
  <1> DEFINE a == Disowned(s, S)
  <1>1. /\ s \in FormState /\ RequestInv(s) /\ s.previous \in [Field -> Previous]
        /\ s.ajax \in [Field -> Request] /\ s.verdict \in [Field -> Previous]
    BY DEF Sound, FormState
  <1>2. p \in [Field -> Previous]
    BY <1>1, NothingTypes DEF Unasked
  <1>3. \A f \in Field : /\ [s.ajax[f] EXCEPT !.own = FALSE] \in Request
                         /\ [s.ajax[f] EXCEPT !.own = FALSE].data = s.ajax[f].data
                         /\ ~[s.ajax[f] EXCEPT !.own = FALSE].own
    BY <1>1 DEF Request
  <1>4. a \in [Field -> Request]
    BY <1>1, <1>3 DEF Disowned
  <1>5. \A f \in Field : RequestOf(f, s, p, a, s.verdict)
    <2> SUFFICES ASSUME NEW f \in Field
                 PROVE  RequestOf(f, s, p, a, s.verdict)
      OBVIOUS
    <2>1. CASE f \in S
      <3>1. /\ a[f].data = s.ajax[f].data /\ ~a[f].own
            /\ p[f].old = NoData
        BY <1>3, <2>1, NothingTypes DEF Unasked, Disowned
      <3>2. QED
        BY <1>1, <3>1 DEF RequestOf, RequestInv
    <2>2. CASE f \notin S
      BY <1>1, <2>2 DEF RequestOf, RequestInv, Unasked, Disowned
    <2>3. QED
      BY <2>1, <2>2
  <1> DEFINE v == s.verdict
  <1>6. v \in [Field -> Previous] /\ \A f \in Field : RequestOf(f, s, p, a, v)
    BY <1>1, <1>5
  <1> HIDE DEF p, a, v
  <1>7. Sound(WithRequests(s, p, a, v)) /\ WithRequests(s, p, a, v).sent = s.sent
    BY <1>2, <1>4, <1>6, RequestsSound
  <1>8. QED
    BY <1>7 DEF p, a, v, Forgotten

LEMMA MessagesSound ==
  ASSUME NEW s, Sound(s), NEW at \in [Field -> Container], NEW y \in {"valid", "errors"},
         NEW S \in SUBSET Field
  PROVE  /\ Sound([s EXCEPT !.at = at]) /\ [s EXCEPT !.at = at].sent = s.sent
         /\ Sound([s EXCEPT !.summary = y]) /\ [s EXCEPT !.summary = y].sent = s.sent
         /\ Sound([s EXCEPT !.submitted = S]) /\ [s EXCEPT !.submitted = S].sent = s.sent
  <1>1. s \in FormState /\ RequestInv(s) /\ CountInv(s)
    BY DEF Sound
  <1>2. /\ [s EXCEPT !.at = at] \in FormState
        /\ [s EXCEPT !.at = at].sent = s.sent /\ SameRequests(s, [s EXCEPT !.at = at])
    BY <1>1 DEF FormState, SameRequests
  <1>3. /\ [s EXCEPT !.summary = y] \in FormState
        /\ [s EXCEPT !.summary = y].sent = s.sent /\ SameRequests(s, [s EXCEPT !.summary = y])
    BY <1>1 DEF FormState, SameRequests
  <1>4. /\ [s EXCEPT !.submitted = S] \in FormState
        /\ [s EXCEPT !.submitted = S].sent = s.sent /\ SameRequests(s, [s EXCEPT !.submitted = S])
    BY <1>1 DEF FormState, SameRequests
  <1>5. QED
    BY <1>1, <1>2, <1>3, <1>4, SameRequestsInv DEF Sound

LEMMA ResetFormSound ==
  ASSUME NEW s, Sound(s), settings \subseteq Field
  PROVE  Sound(ResetForm(s)) /\ ResetForm(s).sent = s.sent
  <1> DEFINE t == Forgotten(s, Elements)
  <1> DEFINE l == WithLists(t, {}, {}, {})
  <1>1. Elements \in SUBSET Field
    BY ElementsType
  <1>2. Sound(t) /\ t.sent = s.sent
    BY <1>1, ForgottenSound
  <1>3. ResetForm(s) = [s EXCEPT !.invalid = {}, !.submitted = {}, !.errors = {},
                                 !.success = {}, !.previous = Unasked(s, Elements),
                                 !.ajax = Disowned(s, Elements)]
    BY DEF ResetForm, Unasked, Disowned
  <1>4. s \in FormState
    BY DEF Sound
  <1>5. ResetForm(s) = [l EXCEPT !.submitted = {}]
    BY <1>3, <1>4, ZenonT(60) DEF FormState, Forgotten, WithRequests, WithLists
  <1> HIDE DEF t
  <1>6. Sound(l) /\ l.sent = t.sent
    BY <1>2, ListsSound
  <1> HIDE DEF l
  <1>7. CleanContainer \in Container
    BY DEF CleanContainer, Container
  <1>8. [f \in Field |-> CleanContainer] \in [Field -> Container]
    BY <1>7
  <1>9. Sound([l EXCEPT !.submitted = {}]) /\ [l EXCEPT !.submitted = {}].sent = l.sent
    BY <1>6, <1>8, MessagesSound
  <1>10. QED
    BY <1>2, <1>5, <1>6, <1>9

LEMMA ResetMessagesSound ==
  ASSUME NEW s, Sound(s)
  PROVE  Sound(ResetMessages(s)) /\ ResetMessages(s).sent = s.sent
  <1> DEFINE at == [f \in Field |-> [s.at[f] EXCEPT !.class = "valid"]]
  <1> DEFINE t == [s EXCEPT !.at = at]
  <1>1. s \in FormState /\ s.at \in [Field -> Container]
    BY DEF Sound, FormState
  <1>2. \A f \in Field : [s.at[f] EXCEPT !.class = "valid"] \in Container
    BY <1>1 DEF Container
  <1>3. at \in [Field -> Container]
    BY <1>2
  <1>4. ResetMessages(s) = [s EXCEPT !.summary = "valid", !.at = at]
    BY DEF ResetMessages
  <1> HIDE DEF at
  <1>5. [s EXCEPT !.summary = "valid", !.at = at] = [t EXCEPT !.summary = "valid"]
    BY <1>1 DEF FormState
  <1>6. Sound(t) /\ t.sent = s.sent
    BY <1>3, MessagesSound
  <1> HIDE DEF t
  <1>7. Sound([t EXCEPT !.summary = "valid"]) /\ [t EXCEPT !.summary = "valid"].sent = t.sent
    BY <1>3, <1>6, MessagesSound
  <1>8. QED
    BY <1>4, <1>5, <1>6, <1>7

LEMMA OutdatedType ==
  ASSUME NEW x \in [Field -> Seen], NEW f
  PROVE  Outdated(x, f) \in [Field -> Seen]
  BY DEF Outdated, Seen

----------------------------------------------------------------------------
(* What the parts of the invariant say of a step that leaves the form unsent. *)
LEMMA SoundIsInv ==
  ASSUME IInv
  PROVE  /\ Sound(form) /\ form.seen \in [Field -> Seen]
         /\ value \in [Field -> Value] /\ settings \subseteq Field
         /\ dom \in [Field -> {"absent", "hidden", "visible"}]
  BY DEF IInv, TypeOK, Sound, FormState, Seen

LEMMA InvInit == Init => IInv
  <1> SUFFICES ASSUME Init
               PROVE  IInv
    OBVIOUS
  <1>1. CleanContainer \in Container
    BY DEF CleanContainer, Container
  <1>2. form = NewForm
    BY DEF Init
  <1>3. /\ [f \in Field |-> NoPrevious] \in [Field -> Previous]
        /\ [f \in Field |-> NoRequest] \in [Field -> Request]
        /\ [f \in Field |-> CleanContainer] \in [Field -> Container]
        /\ [f \in Field |-> "clean"] \in [Field -> Seen]
    BY <1>1, NothingTypes DEF Seen
  <1>4. NewForm \in FormState
    BY <1>3 DEF NewForm, FormState, Seen
  <1>5. RequestInv(NewForm)
    BY NothingTypes DEF NewForm, RequestInv
  <1>6. CountInv(NewForm)
    BY FS_EmptySet DEF NewForm, CountInv
  <1>7. ValidIfSent(NewForm)
    BY DEF NewForm, ValidIfSent
  <1>8. TypeOK
    <2>1. form \in FormState
      BY <1>2, <1>4
    <2>2. /\ dom \in [Field -> {"absent", "hidden", "visible"}]
          /\ value \in [Field -> Value]
      BY RulesAssumption DEF Init
    <2>3. edits \in 0 .. MaxEdits /\ changes \in 0 .. MaxChanges
      BY BoundsAssumption DEF Init
    <2>4. QED
      BY <2>1, <2>2, <2>3 DEF Init, TypeOK
  <1>9. QED
    BY <1>2, <1>5, <1>6, <1>7, <1>8 DEF IInv, Init

(* A step that leaves the form unsent keeps the invariant if it keeps Sound. *)
LEMMA InvUnsent ==
  ASSUME Sound(form'), ~form'.sent, TypeOK,
         dom' \in [Field -> {"absent", "hidden", "visible"}],
         value' \in [Field -> Value], attached' \in BOOLEAN, bound' \in BOOLEAN,
         settings' \subseteq Field, options' \subseteq Field,
         edits' \in 0 .. MaxEdits, changes' \in 0 .. MaxChanges,
         ~attached' => settings' = {}
  PROVE  IInv'
  BY DEF IInv, TypeOK, Sound, ValidIfSent, RequestInv, CountInv

(* One that may send it leaves the page and the rules alone. *)
LEMMA InvSent ==
  ASSUME Sound(form'), ValidIfSent(form)', IInv,
         UNCHANGED <<dom, value, attached, settings, options, bound, edits, changes>>
  PROVE  IInv'
  BY DEF IInv, TypeOK, Sound, RequestInv, CountInv

LEMMA ParseInv ==
  ASSUME IInv, NEW S \in SUBSET Field, ParseFields(S), ~form.sent,
         UNCHANGED <<dom, value, form, edits, changes>>
  PROVE  IInv'
  <1>1. /\ TypeOK /\ Sound(form) /\ settings \subseteq Field /\ options \subseteq Field
        /\ (~attached => settings = {}) /\ attached \in BOOLEAN /\ bound \in BOOLEAN
    BY SoundIsInv DEF IInv, TypeOK
  <1>2. /\ attached' \in BOOLEAN /\ bound' \in BOOLEAN /\ settings' \subseteq Field
        /\ options' \subseteq Field /\ (~attached' => settings' = {})
    BY <1>1 DEF ParseFields, Attach
  <1>3. QED
    BY <1>1, <1>2, InvUnsent DEF TypeOK

LEMMA InvNext == IInv /\ [Next]_vars => IInv'
  <1> SUFFICES ASSUME IInv, [Next]_vars
               PROVE  IInv'
    OBVIOUS
  <1>t. /\ TypeOK /\ Sound(form) /\ form.seen \in [Field -> Seen]
        /\ value \in [Field -> Value] /\ settings \subseteq Field
        /\ dom \in [Field -> {"absent", "hidden", "visible"}]
        /\ ~attached => settings = {}
    BY SoundIsInv DEF IInv
  <1>1. CASE OnReady
    <2>1. Present \in SUBSET Field
      BY DEF Present
    <2>2. QED
      BY <1>1, <2>1, ParseInv DEF OnReady
  <1>2. CASE Validate
    <2>1. Sound(form') /\ ~form'.sent
      BY <1>2, <1>t, ValidateFormSound DEF Validate
    <2>2. QED
      BY <1>2, <1>t, <2>1, InvUnsent DEF Validate, TypeOK
  <1>3. CASE Submit
    <2>1. Sound(form')
      BY <1>3, <1>t, SubmitFormSound, SentSound DEF Submit
    <2>2. ValidIfSent(form)'
      <3>1. CASE attached
        <4>1. ValidIfSent(form')
          BY <1>3, <1>t, <3>1, SubmitFormSound DEF Submit
        <4>2. QED
          BY <1>3, <4>1 DEF Submit, ValidIfSent, Elements, Visible, PassesLocal, AsksServer,
                            Data, Carried
      <3>2. CASE ~attached
        <4>1. Elements' = {}
          BY <1>3, <1>t, <3>2 DEF Submit, Elements
        <4>2. QED
          BY <4>1 DEF ValidIfSent
      <3>3. QED
        BY <3>1, <3>2
    <2>3. QED
      BY <1>3, <2>1, <2>2, InvSent DEF Submit
  <1>4. CASE Reset
    <2> DEFINE cleaned == IF bound THEN ResetMessages(ResetForm(form)) ELSE form
    <2> DEFINE seen == IF bound THEN [f \in Field |-> "clean"]
                       ELSE [f \in Field |-> IF form.seen[f] = "clean" THEN "clean" ELSE "edited"]
    <2>1. Sound(cleaned) /\ ~cleaned.sent
      BY <1>4, <1>t, ResetFormSound, ResetMessagesSound DEF Reset
    <2>2. seen \in [Field -> Seen]
      BY DEF Seen
    <2>3. form' = [cleaned EXCEPT !.seen = seen]
      BY <1>4 DEF Reset
    <2> HIDE DEF cleaned, seen
    <2>4. Sound(form') /\ ~form'.sent
      BY <2>1, <2>2, <2>3, SeenSound
    <2>5. [f \in Field |-> Empty] \in [Field -> Value]
      BY RulesAssumption
    <2>6. QED
      BY <1>4, <1>t, <2>4, <2>5, InvUnsent DEF Reset, TypeOK
  <1>5. CASE Gone \/ UNCHANGED vars
    <2>1. UNCHANGED vars
      BY <1>5 DEF Gone
    <2>2. UNCHANGED <<dom, value, attached, settings, form, options, bound, edits, changes>>
      BY <2>1 DEF vars
    <2>3. TypeOK' /\ RequestInv(form') /\ CountInv(form')
      BY <2>2 DEF IInv, TypeOK, RequestInv, CountInv
    <2>4. \A f \in Field :
             (PassesLocal(f)' <=> PassesLocal(f)) /\ (AsksServer(f)' <=> AsksServer(f))
      BY <2>2 DEF PassesLocal, AsksServer
    <2>5. \A f \in Field : Data(f)' = Data(f)
      BY <2>2 DEF Data, Carried
    <2>6. Elements' = Elements /\ Elements \subseteq Field
      BY <2>2 DEF Elements, Visible, IInv, TypeOK
    <2>7. ValidIfSent(form)'
      BY <2>2, <2>4, <2>5, <2>6 DEF IInv, ValidIfSent
    <2>8. ~attached' => settings' = {}
      BY <2>2 DEF IInv
    <2>9. QED
      BY <2>2, <2>3, <2>7, <2>8 DEF IInv, RequestInv, CountInv
  <1>6. ASSUME NEW S \in SUBSET Field, Parse(S)
        PROVE  IInv'
    BY <1>6, ParseInv DEF Parse
  <1>7. ASSUME NEW f \in Field, NEW skipAttach \in BOOLEAN, ParseElement(f, skipAttach)
        PROVE  IInv'
    <2>1. /\ attached' \in BOOLEAN /\ bound' \in BOOLEAN /\ settings' \subseteq Field
          /\ options' \subseteq Field /\ (~attached' => settings' = {})
      BY <1>7, <1>t DEF ParseElement, Attach, TypeOK
    <2>2. QED
      BY <1>7, <1>t, <2>1, InvUnsent DEF ParseElement, TypeOK
  <1>8. ASSUME NEW f \in Field, NEW v \in Value, Edit(f, v)
        PROVE  IInv'
    <2> DEFINE x == Outdated(form.seen, f)
    <2>1. x \in [Field -> Seen]
      BY <1>t, OutdatedType
    <2>2. form' = [form EXCEPT !.seen = x]
      BY <1>8 DEF Edit
    <2> HIDE DEF x
    <2>3. Sound(form') /\ ~form'.sent
      BY <1>8, <1>t, <2>1, <2>2, SeenSound DEF Edit
    <2>4. value' \in [Field -> Value] /\ edits' \in 0 .. MaxEdits
      BY <1>8, <1>t, BoundsAssumption DEF Edit, TypeOK
    <2>5. QED
      BY <1>8, <1>t, <2>3, <2>4, InvUnsent DEF Edit, TypeOK
  <1>9. ASSUME NEW f \in Field, KeyUp(f) \/ FocusOut(f)
        PROVE  IInv'
    <2>1. Sound(form') /\ ~form'.sent
      BY <1>9, <1>t, ValidateElementSound DEF KeyUp, FocusOut
    <2>2. QED
      BY <1>9, <1>t, <2>1, InvUnsent DEF KeyUp, FocusOut, TypeOK
  <1>10. ASSUME NEW f \in Field, Insert(f)
         PROVE  IInv'
    <2> DEFINE at == [form.at EXCEPT ![f] = CleanContainer]
    <2> DEFINE x == [form.seen EXCEPT ![f] = "clean"]
    <2> DEFINE t == [form EXCEPT !.at = at]
    <2>1. form \in FormState /\ form.at \in [Field -> Container]
      BY <1>t DEF Sound, FormState
    <2>2. CleanContainer \in Container
      BY DEF CleanContainer, Container
    <2>3. at \in [Field -> Container] /\ x \in [Field -> Seen]
      BY <1>t, <2>1, <2>2 DEF Seen
    <2>4. form' = [form EXCEPT !.at = at, !.seen = x]
      BY <1>10 DEF Insert
    <2> HIDE DEF at, x
    <2>5. form' = [t EXCEPT !.seen = x]
      BY <2>1, <2>4 DEF FormState
    <2>6. Sound(t) /\ t.sent = form.sent
      BY <1>t, <2>3, MessagesSound
    <2> HIDE DEF t
    <2>7. Sound(form') /\ ~form'.sent
      <3>1. ~form.sent
        BY <1>10 DEF Insert
      <3>2. QED
        BY <2>3, <2>5, <2>6, <3>1, SeenSound
    <2>8. /\ dom' \in [Field -> {"absent", "hidden", "visible"}]
          /\ changes' \in 0 .. MaxChanges
      BY <1>10, <1>t, BoundsAssumption DEF Insert, TypeOK
    <2>9. QED
      BY <1>10, <1>t, <2>7, <2>8, InvUnsent DEF Insert, TypeOK
  <1>11. ASSUME NEW f \in Field, Remove(f)
         PROVE  IInv'
    <2> DEFINE x == Outdated(form.seen, f)
    <2> DEFINE t == Forgotten(form, {f})
    <2>1. /\ form \in FormState /\ form.previous \in [Field -> Previous]
          /\ form.ajax \in [Field -> Request]
      BY <1>t DEF Sound, FormState
    <2>2. x \in [Field -> Seen]
      BY <1>t, OutdatedType
    <2>3. /\ [form.previous EXCEPT ![f] = NoPrevious] = Unasked(form, {f})
          /\ [form.ajax EXCEPT ![f] = [form.ajax[f] EXCEPT !.own = FALSE]] = Disowned(form, {f})
      BY <2>1 DEF Unasked, Disowned
    <2>4. form' = [form EXCEPT !.previous = [form.previous EXCEPT ![f] = NoPrevious],
                               !.ajax = [form.ajax EXCEPT ![f] = [form.ajax[f] EXCEPT !.own = FALSE]],
                               !.seen = x]
      BY <1>11 DEF Remove
    <2> HIDE DEF x
    <2>5. form' = [form EXCEPT !.previous = Unasked(form, {f}), !.ajax = Disowned(form, {f}),
                               !.seen = x]
      BY <2>3, <2>4
    <2>6. form' = [t EXCEPT !.seen = x]
      BY <2>1, <2>5 DEF FormState, Forgotten, WithRequests
    <2> HIDE DEF t
    <2>7. Sound(t) /\ t.sent = form.sent
      BY <1>t, ForgottenSound DEF t
    <2>8. Sound(form') /\ ~form'.sent
      <3>1. ~form.sent
        BY <1>11 DEF Remove
      <3>2. QED
        BY <2>2, <2>6, <2>7, <3>1, SeenSound
    <2>9. /\ dom' \in [Field -> {"absent", "hidden", "visible"}]
          /\ value' \in [Field -> Value] /\ changes' \in 0 .. MaxChanges
      BY <1>11, <1>t, RulesAssumption, BoundsAssumption DEF Remove, TypeOK
    <2>10. QED
      BY <1>11, <1>t, <2>8, <2>9, InvUnsent DEF Remove, TypeOK
  <1>12. ASSUME NEW f \in Field, HideOrShow(f)
         PROVE  IInv'
    <2>1. /\ dom' \in [Field -> {"absent", "hidden", "visible"}]
          /\ changes' \in 0 .. MaxChanges
      BY <1>12, <1>t, BoundsAssumption DEF HideOrShow, TypeOK
    <2>2. QED
      BY <1>12, <1>t, <2>1, InvUnsent DEF HideOrShow, TypeOK
  <1>13. ASSUME NEW f \in Field, NEW valid \in BOOLEAN, Answer(f, valid)
         PROVE  IInv'
    <2>1. Sound(form') /\ ValidIfSent(form')
      <3>1. CASE form' = AnswerValid(form, f)
        BY <1>13, <1>t, <3>1, AnswerValidSound DEF Answer
      <3>2. CASE form' = AnswerInvalid(form, f)
        BY <1>13, <1>t, <3>2, AnswerInvalidSound DEF Answer
      <3>3. CASE form' \in AnswerThrows(form, f)
        BY <1>13, <1>t, <3>3, AnswerThrowsSound DEF Answer, ValidIfSent
      <3>4. QED
        BY <1>13, <3>1, <3>2, <3>3 DEF Answer
    <2>2. ValidIfSent(form)'
      BY <1>13, <2>1 DEF Answer, ValidIfSent, Elements, Visible, PassesLocal, AsksServer,
                         Data, Carried
    <2>3. QED
      BY <1>13, <2>1, <2>2, InvSent DEF Answer
  <1>14. ASSUME NEW f \in Field, LoseAnswer(f)
         PROVE  IInv'
    <2> DEFINE p == form.previous
    <2> DEFINE a == [form.ajax EXCEPT ![f] = NoRequest]
    <2> DEFINE v == form.verdict
    <2>1. /\ form \in FormState /\ RequestInv(form) /\ p \in [Field -> Previous]
          /\ form.ajax \in [Field -> Request] /\ v \in [Field -> Previous]
      BY <1>t DEF Sound, FormState
    <2>2. a \in [Field -> Request]
      BY <2>1, NothingTypes
    <2>3. \A g \in Field : RequestOf(g, form, p, a, v)
      BY <2>1, NothingTypes DEF RequestOf, RequestInv
    <2>4. form' = [form EXCEPT !.ajax = a]
      BY <1>14 DEF LoseAnswer
    <2>5. form' = WithRequests(form, p, a, v)
      BY <2>1, <2>4 DEF FormState, WithRequests
    <2> HIDE DEF p, a, v
    <2>6. Sound(form') /\ ~form'.sent
      <3>1. ~form.sent
        BY <1>14 DEF LoseAnswer
      <3>2. QED
        BY <1>t, <2>1, <2>2, <2>3, <2>5, <3>1, RequestsSound
    <2>7. changes' \in 0 .. MaxChanges
      BY <1>14, <1>t, BoundsAssumption DEF LoseAnswer, TypeOK
    <2>8. QED
      BY <1>14, <1>t, <2>6, <2>7, InvUnsent DEF LoseAnswer, TypeOK
  <1>15. QED
    BY <1>1, <1>2, <1>3, <1>4, <1>5, <1>6, <1>7, <1>8, <1>9, <1>10, <1>11, <1>12, <1>13,
       <1>14 DEF Next

----------------------------------------------------------------------------
(* Requests, what elements remember of them, their counter and what was sent    *)
(* agree at every moment of the life of a form.                                *)
THEOREM FormInvariant == Spec => []IInv
  BY InvInit, InvNext, PTL DEF Spec

(* The state of the page, the rules, the validator and the messages keeps its  *)
(* type for any fields, values, rules and bounds.                              *)
THEOREM FormTypeCorrect == Spec => []TypeOK
  <1>1. IInv => TypeOK
    BY DEF IInv
  <1>2. QED
    BY <1>1, FormInvariant, PTL

(* The counter of pending requests is the number of names with a request,      *)
(* whatever is answered, aborted, reset or removed.                            *)
THEOREM CounterInSync == Spec => []InSync
  <1>1. IInv => InSync
    BY DEF IInv, CountInv, InSync
  <1>2. QED
    BY <1>1, FormInvariant, PTL

(* Whatever is sent has passed the local rules, and the server said last of    *)
(* exactly these data that they are valid.                                     *)
THEOREM OnlyValidFormsAreSent == Spec => []SubmittedIsValid
  <1>1. IInv => SubmittedIsValid
    BY DEF IInv, ValidIfSent, SubmittedIsValid, Elements
  <1>2. QED
    BY <1>1, FormInvariant, PTL

----------------------------------------------------------------------------
(* Messages.  Told says of a validator's state that its messages are true, as far *)
(* as has been heard; every handler keeps it.  Which messages are shown depends    *)
(* on less than the whole state.                                                 *)
Told(s) == AskedInv(s) /\ LabelsInv(s)

SameMessages(s, t) ==
  /\ t.ajax = s.ajax /\ t.seen = s.seen /\ t.at = s.at /\ t.verdict = s.verdict
  /\ t.pending = s.pending /\ t.errors = s.errors /\ t.success = s.success

LEMMA SameMessagesTold ==
  ASSUME NEW s, NEW t, SameMessages(s, t), Told(s)
  PROVE  Told(t)
  BY DEF SameMessages, Told, AskedInv, LabelsInv, TruthOf, Heard, Passes

LEMMA UnshownFields ==
  ASSUME NEW s \in FormState, NEW i, NEW b
  PROVE  /\ SameMessages(s, [s EXCEPT !.invalid = i])
         /\ SameMessages(s, [s EXCEPT !.sent = b])
         /\ SameMessages(s, [s EXCEPT !.formSubmitted = b])
         /\ SameMessages(s, OnErrors(s))
  BY DEF SameMessages, FormState, OnErrors

(* The containers at hold what is true once the errors errs and the fields that    *)
(* passed, oks, are shown.                                                       *)
Relabelled(at, errs, oks) ==
  [f \in Field |-> IF f \in errs \cap Present THEN OnError(at[f], f, TRUE)
                   ELSE IF f \in oks \cap Present
                        THEN OnSuccess(OnError(at[f], f, FALSE), f)
                        ELSE at[f]]

ReadyOf(s, at, errs, oks, f) ==
  /\ s.seen[f] = "clean" => f \notin errs /\ (f \in oks \/ at[f].class = "valid")
  /\ Heard(s, f) =>
       /\ f \in errs \cup s.errors => ~Passes(s, f)
       /\ f \in oks \cup s.success => Passes(s, f)
       /\ f \notin errs \cup oks =>
            /\ at[f].class = IF Passes(s, f) THEN "valid" ELSE "error"
            /\ f \in Replace => at[f].text = ~Passes(s, f)

LEMMA RelabelledTrue ==
  ASSUME NEW s, NEW at, NEW errs, NEW oks,
         s.at = Relabelled(at, errs, oks),
         \A f \in Present : ReadyOf(s, at, errs, oks, f)
  PROVE  LabelsInv(s)
  <1> SUFFICES ASSUME NEW f \in Present
               PROVE  TruthOf(s, f)
    BY DEF LabelsInv
  <1>1. f \in Field /\ ReadyOf(s, at, errs, oks, f)
    BY DEF Present
  <1>2. CASE f \in errs
    <2>1. s.at[f] = OnError(at[f], f, TRUE)
      BY <1>1, <1>2 DEF Relabelled
    <2>2. s.at[f].class = "error" /\ (f \in Replace => s.at[f].text = TRUE)
      <3>1. s.at[f].class = "error"
        BY <2>1 DEF OnError
      <3>2. s.at[f].text = IF f \in Replace THEN TRUE ELSE at[f].text
        BY <2>1 DEF OnError
      <3>3. QED
        BY <3>1, <3>2
    <2>3. QED
      BY <1>1, <1>2, <2>2 DEF ReadyOf, TruthOf
  <1>3. CASE f \notin errs /\ f \in oks
    <2>1. s.at[f] = OnSuccess(OnError(at[f], f, FALSE), f)
      BY <1>1, <1>3 DEF Relabelled
    <2>2. s.at[f].class = "valid" /\ (f \in Replace => s.at[f].text = FALSE)
      <3> DEFINE blank == OnError(at[f], f, FALSE)
      <3> HIDE DEF blank
      <3>1. s.at[f] = OnSuccess(blank, f)
        BY <2>1 DEF blank
      <3>2. s.at[f].class = "valid"
        BY <3>1 DEF OnSuccess
      <3>3. s.at[f].text = IF f \in Replace THEN FALSE ELSE blank.text
        BY <3>1 DEF OnSuccess
      <3>4. QED
        BY <3>2, <3>3
    <2>3. QED
      BY <1>1, <1>3, <2>2 DEF ReadyOf, TruthOf
  <1>4. CASE f \notin errs /\ f \notin oks
    <2>1. s.at[f] = at[f]
      BY <1>1, <1>4 DEF Relabelled
    <2>2. QED
      BY <1>1, <1>4, <2>1 DEF ReadyOf, TruthOf
  <1>5. QED
    BY <1>2, <1>3, <1>4

LEMMA ShowLabelsFields ==
  ASSUME NEW s \in FormState, NEW errs, NEW oks
  PROVE  LET t == ShowLabels(s, errs, oks) IN
         /\ t.at = Relabelled(s.at, errs, oks)
         /\ t.ajax = s.ajax /\ t.seen = s.seen /\ t.verdict = s.verdict
         /\ t.pending = s.pending /\ t.pendingRequest = s.pendingRequest
         /\ t.errors = s.errors /\ t.success = s.success
         /\ t.list = s.list /\ t.summary = s.summary
         /\ t.sent = s.sent /\ t.formSubmitted = s.formSubmitted
  <1> DEFINE at == Relabelled(s.at, errs, oks)
  <1>1. ShowLabels(s, errs, oks) = [s EXCEPT !.at = at]
    BY DEF ShowLabels, Relabelled
  <1> HIDE DEF at
  <1>2. QED
    BY <1>1 DEF FormState, at

(* The lists that a check fills can be shown. *)
LEMMA CheckReady ==
  ASSUME NEW s, Sound(s), Told(s), NEW S \in SUBSET Field, S \subseteq settings \cap Present,
         value \in [Field -> Value]
  PROVE  LET c == Check(s, S) IN
         /\ AskedInv(c)
         /\ c.at = s.at
         /\ \A f \in Present : ReadyOf(c, s.at, c.errors, c.success, f)
  <1> DEFINE c == Check(s, S)
  <1>1. s \in FormState /\ RequestInv(s) /\ AskedInv(s) /\ LabelsInv(s)
    BY DEF Sound, Told
  <1>2. /\ c.errors = {f \in S : Outcome(s, f) = "error"}
        /\ c.success = {f \in S : Outcome(s, f) = "ok"}
        /\ c.pending = s.pending \cup Asked(s, S)
        /\ c.at = s.at /\ c.verdict = s.verdict
    BY <1>1, CheckSets, CheckKeeps
  <1>a. /\ c.ajax = [f \in Field |-> IF f \in Asked(s, S)
                                    THEN [data |-> Data(f), own |-> TRUE] ELSE s.ajax[f]]
        /\ c.seen = [f \in Field |-> IF f \in Asked(s, S) THEN "asked"
                                    ELSE IF f \in S THEN "fresh" ELSE s.seen[f]]
    BY <1>1, CheckRequests
  <1> HIDE DEF c
  <1>3. \A f \in Field :
          /\ f \in Asked(s, S) => c.ajax[f] = [data |-> Data(f), own |-> TRUE]
          /\ f \notin Asked(s, S) => c.ajax[f] = s.ajax[f]
          /\ c.seen[f] = IF f \in Asked(s, S) THEN "asked"
                         ELSE IF f \in S THEN "fresh" ELSE s.seen[f]
    BY <1>a
  <1>4. AskedInv(c)
    <2> SUFFICES ASSUME NEW f \in Field
                 PROVE  /\ c.ajax[f].data # NoData =>
                             /\ f \in settings \cap Remote
                             /\ c.ajax[f].data[f] # Empty /\ c.ajax[f].data[f] \in Accepted[f]
                        /\ c.seen[f] = "fresh" => f \in settings
      BY DEF AskedInv
    <2>1. CASE f \in Asked(s, S)
      <3>1. AsksServer(f) /\ f \in settings
        BY <2>1 DEF Asked, Outcome
      <3>2. c.ajax[f].data = Data(f) /\ c.seen[f] = "asked"
        <4>1. c.ajax[f] = [data |-> Data(f), own |-> TRUE]
          BY <1>3, <2>1
        <4>2. QED
          BY <1>3, <2>1, <4>1
      <3>3. Data(f)[f] = value[f]
        BY DEF Data, Carried
      <3>4. QED
        BY <3>1, <3>2, <3>3 DEF AsksServer
    <2>2. CASE f \notin Asked(s, S)
      BY <1>1, <1>3, <2>2 DEF AskedInv
    <2>3. QED
      BY <2>1, <2>2
  <1>5. ASSUME NEW f \in Present
        PROVE  ReadyOf(c, s.at, c.errors, c.success, f)
    <2>1. f \in Field /\ TruthOf(s, f)
      BY <1>1 DEF Present, LabelsInv
    <2>2. CASE f \in Asked(s, S)
      <3>1. c.seen[f] = "asked"
        BY <1>3, <2>1, <2>2
      <3>2. QED
        BY <3>1 DEF ReadyOf, Heard
    <2>3. CASE f \in S \ Asked(s, S)
      <3>1. c.seen[f] = "fresh"
        BY <1>3, <2>1, <2>3
      <3>2. Outcome(s, f) \in {"error", "ok"}
        BY <2>3, OutcomeCases DEF Asked
      <3>3. ASSUME Heard(c, f)
            PROVE  Outcome(s, f) = "ok" <=> Passes(c, f)
        <4>1. AsksServer(f) => f \notin s.pending
          BY <1>2, <3>3 DEF Heard
        <4>2. CASE ~PassesLocal(f)
          BY <4>2 DEF Outcome, Passes
        <4>3. CASE PassesLocal(f) /\ ~AsksServer(f)
          BY <4>3 DEF Outcome, Passes
        <4>4. CASE PassesLocal(f) /\ AsksServer(f)
          <5>1. s.previous[f].old = Data(f)
            BY <2>3, <3>2, <4>4 DEF Outcome
          <5>2. s.verdict[f] = s.previous[f]
            BY <1>1, <2>1, <4>1, <4>4, <5>1, DataType DEF RequestInv
          <5>3. Outcome(s, f) = IF s.previous[f].valid THEN "ok" ELSE "error"
            BY <4>4, <5>1 DEF Outcome
          <5>4. Passes(c, f) <=> s.previous[f].valid
            BY <1>2, <4>4, <5>2 DEF Passes
          <5>5. QED
            BY <5>3, <5>4
        <4>5. QED
          BY <4>2, <4>3, <4>4
      <3>4. f \in c.errors \cup c.success /\ (f \in c.errors <=> Outcome(s, f) = "error")
            /\ (f \in c.success <=> Outcome(s, f) = "ok")
        BY <1>2, <2>3, <3>2
      <3>5. QED
        BY <3>1, <3>3, <3>4 DEF ReadyOf
    <2>4. CASE f \notin S
      <3>1. f \notin c.errors /\ f \notin c.success /\ f \notin Asked(s, S)
        BY <1>2, <2>4 DEF Asked
      <3>2. c.seen[f] = s.seen[f] /\ (f \in c.pending <=> f \in s.pending)
        BY <1>2, <1>3, <2>1, <2>4, <3>1
      <3>3. (Heard(c, f) <=> Heard(s, f)) /\ (Passes(c, f) <=> Passes(s, f))
        BY <1>2, <3>2 DEF Heard, Passes
      <3>4. QED
        BY <2>1, <3>1, <3>2, <3>3 DEF ReadyOf, TruthOf
    <2>5. QED
      BY <2>2, <2>3, <2>4
  <1>6. QED
    BY <1>2, <1>4, <1>5 DEF c

(* Showing what was checked, with fields changed in between that no message      *)
(* depends on.                                                                  *)
LEMMA CheckShown ==
  ASSUME NEW s, Sound(s), Told(s), NEW S \in SUBSET Field, S \subseteq settings \cap Present,
         value \in [Field -> Value],
         NEW c, c \in FormState, SameMessages(Check(s, S), c)
  PROVE  Told(ShowErrors(c))
  <1> DEFINE t == ShowErrors(c)
  <1> DEFINE k == Check(s, S)
  <1>1. /\ AskedInv(k) /\ k.at = s.at
        /\ \A f \in Present : ReadyOf(k, s.at, k.errors, k.success, f)
    BY CheckReady
  <1> HIDE DEF k
  <1>2. /\ t.at = Relabelled(c.at, c.errors, c.success)
        /\ t.ajax = c.ajax /\ t.seen = c.seen /\ t.verdict = c.verdict
        /\ t.pending = c.pending /\ t.errors = c.errors /\ t.success = c.success
    BY ShowLabelsFields DEF ShowErrors
  <1>3. /\ c.ajax = k.ajax /\ c.seen = k.seen /\ c.at = k.at /\ c.verdict = k.verdict
        /\ c.pending = k.pending /\ c.errors = k.errors /\ c.success = k.success
    BY DEF SameMessages, k
  <1> HIDE DEF t
  <1>4. AskedInv(t)
    BY <1>1, <1>2, <1>3 DEF AskedInv
  <1>5. \A f \in Present : ReadyOf(t, s.at, k.errors, k.success, f)
    BY <1>1, <1>2, <1>3 DEF ReadyOf, Heard, Passes
  <1>6. LabelsInv(t)
    BY <1>1, <1>2, <1>3, <1>5, RelabelledTrue
  <1>7. QED
    BY <1>4, <1>6 DEF Told, t

LEMMA ValidateFormTold ==
  ASSUME NEW s, Sound(s), Told(s), value \in [Field -> Value], settings \subseteq Field
  PROVE  Told(ValidateForm(s))
  <1> DEFINE checked == Check(s, Elements)
  <1> DEFINE counted == [checked EXCEPT !.invalid = checked.errors]
  <1> DEFINE listed == IF counted.errors = {} THEN counted ELSE OnErrors(counted)
  <1>1. ValidateForm(s) = ShowErrors(listed)
    BY DEF ValidateForm
  <1>2. Elements \in SUBSET Field /\ Elements \subseteq settings \cap Present
    BY ElementsType DEF Elements, Visible, Present
  <1>3. Sound(checked)
    BY <1>2, CheckSound
  <1> HIDE DEF checked
  <1>4. Sound(counted) /\ SameMessages(checked, counted)
    <2>1. checked \in FormState /\ checked.errors \in SUBSET Field
      BY <1>3 DEF Sound, FormState
    <2>2. QED
      BY <1>3, <2>1, InvalidSound, UnshownFields
  <1> HIDE DEF counted
  <1>5. listed \in FormState /\ SameMessages(counted, listed)
    <2>1. Sound(OnErrors(counted)) /\ SameMessages(counted, OnErrors(counted))
      BY <1>4, OnErrorsSound, UnshownFields DEF Sound
    <2>2. QED
      BY <1>4, <2>1 DEF Sound, SameMessages
  <1> HIDE DEF listed
  <1>6. SameMessages(checked, listed)
    BY <1>4, <1>5 DEF SameMessages
  <1>7. QED
    BY <1>1, <1>2, <1>5, <1>6, CheckShown DEF checked

LEMMA ValidateElementTold ==
  ASSUME NEW s, Sound(s), Told(s), value \in [Field -> Value], settings \subseteq Field,
         NEW f \in Visible
  PROVE  Told(ValidateElement(s, f))
  <1> DEFINE S == {f} \cap settings
  <1> DEFINE checked == Check(s, S)
  <1> DEFINE i == checked.invalid \cup {f}
  <1> DEFINE counted == [checked EXCEPT !.invalid = i]
  <1>1. ValidateElement(s, f) = ShowErrors(counted)
    BY DEF ValidateElement
  <1>2. S \in SUBSET Field /\ S \subseteq settings \cap Present /\ f \in Field
    BY DEF Visible, Present
  <1>3. Sound(checked)
    BY <1>2, CheckSound
  <1> HIDE DEF checked, S
  <1>4. checked \in FormState /\ i \in SUBSET Field
    BY <1>2, <1>3 DEF Sound, FormState
  <1> HIDE DEF i
  <1>5. Sound(counted) /\ SameMessages(checked, counted)
    BY <1>3, <1>4, InvalidSound, UnshownFields
  <1> HIDE DEF counted
  <1>6. QED
    BY <1>1, <1>2, <1>5, CheckShown DEF Sound, checked

LEMMA SubmitFormTold ==
  ASSUME NEW s, Sound(s), Told(s), value \in [Field -> Value], settings \subseteq Field
  PROVE  Told(SubmitForm(s))
  <1> DEFINE checked == ValidateForm(s)
  <1>1. Sound(checked) /\ Told(checked)
    BY ValidateFormSound, ValidateFormTold
  <1>2. \/ SubmitForm(s) = checked
        \/ SubmitForm(s) = [checked EXCEPT !.formSubmitted = TRUE]
        \/ SubmitForm(s) = [checked EXCEPT !.sent = TRUE]
    BY DEF SubmitForm
  <1> HIDE DEF checked
  <1>3. /\ SameMessages(checked, [checked EXCEPT !.formSubmitted = TRUE])
        /\ SameMessages(checked, [checked EXCEPT !.sent = TRUE])
    BY <1>1, UnshownFields DEF Sound
  <1>4. QED
    BY <1>1, <1>2, <1>3, SameMessagesTold

(* The end of a request shows nothing new unless it has the form checked again. *)
LEMMA StopRequestTold ==
  ASSUME NEW s, NEW f \in Field, NEW valid \in BOOLEAN, Answered(s, f), ~s.sent,
         Told(Counted(s, f)), value \in [Field -> Value], settings \subseteq Field
  PROVE  Told(StopRequest(s, f, valid))
  <1> DEFINE rest == Counted(s, f)
  <1> DEFINE checked == ValidateForm(rest)
  <1> DEFINE submitted == SubmitForm(checked)
  <1> DEFINE listed == OnErrors(rest)
  <1>1. Sound(rest) /\ Told(rest) /\ ~rest.sent
    BY CountedSound
  <1>2. Sound(checked) /\ Told(checked) /\ ~checked.sent
    BY <1>1, ValidateFormSound, ValidateFormTold
  <1>3. \/ StopRequest(s, f, valid) = rest
        \/ StopRequest(s, f, valid) = [listed EXCEPT !.formSubmitted = FALSE]
        \/ StopRequest(s, f, valid) = checked
        \/ StopRequest(s, f, valid) = [submitted EXCEPT !.formSubmitted = FALSE]
    BY DEF StopRequest
  <1> HIDE DEF rest, checked
  <1>4. Sound(submitted) /\ Told(submitted)
    BY <1>2, SubmitFormSound, SubmitFormTold
  <1>5. Sound(listed) /\ Told(listed)
    <2>1. SameMessages(rest, listed)
      BY <1>1, UnshownFields DEF Sound
    <2>2. QED
      BY <1>1, <2>1, OnErrorsSound, SameMessagesTold
  <1> HIDE DEF submitted, listed
  <1>6. /\ Told([listed EXCEPT !.formSubmitted = FALSE])
        /\ Told([submitted EXCEPT !.formSubmitted = FALSE])
    <2>1. /\ SameMessages(listed, [listed EXCEPT !.formSubmitted = FALSE])
          /\ SameMessages(submitted, [submitted EXCEPT !.formSubmitted = FALSE])
      BY <1>4, <1>5, UnshownFields DEF Sound
    <2>2. QED
      BY <1>4, <1>5, <2>1, SameMessagesTold
  <1>7. QED
    BY <1>1, <1>2, <1>3, <1>6

----------------------------------------------------------------------------
(* Answers.  What is seen of a field as it stands once its answer is there was     *)
(* asked as it stands.                                                          *)
LEMMA ReceivedSeen ==
  ASSUME NEW s, Sound(s), NEW f \in Field, NEW valid \in BOOLEAN
  PROVE  LET r == Received(s, f, valid) IN
         /\ r.seen \in [Field -> Seen]
         /\ r.seen[f] # "clean"
         /\ r.seen[f] = "fresh" => s.ajax[f].own /\ s.ajax[f].data = Data(f)
         /\ \A g \in Field \ {f} : r.seen[g] = s.seen[g]
         /\ r.at = s.at /\ r.errors = s.errors /\ r.success = s.success
         /\ r.invalid = s.invalid
  <1> DEFINE b == CASE s.seen[f] = "edited" -> "edited"
                    [] s.seen[f] # "edited" /\ s.ajax[f].own /\ s.ajax[f].data = Data(f) -> "fresh"
                    [] OTHER -> "late"
  <1>1. s \in FormState /\ s.seen \in [Field -> Seen]
    BY DEF Sound, FormState, Seen
  <1>2. b \in Seen \ {"clean"} /\ (b = "fresh" => s.ajax[f].own /\ s.ajax[f].data = Data(f))
    BY DEF Seen
  <1>3. Received(s, f, valid).seen = [s.seen EXCEPT ![f] = b]
    BY <1>1 DEF Received, FormState
  <1>4. /\ Received(s, f, valid).at = s.at /\ Received(s, f, valid).errors = s.errors
        /\ Received(s, f, valid).success = s.success
        /\ Received(s, f, valid).invalid = s.invalid
    BY <1>1 DEF Received, FormState
  <1> HIDE DEF b
  <1>5. QED
    BY <1>1, <1>2, <1>3, <1>4

(* The messages after an answer: of the other fields nothing new is said, and f is *)
(* marked as the server says, or its request still counts as pending.              *)
ShowsAnswer(s, f, valid, t, errs, oks) ==
  /\ t.ajax = [s.ajax EXCEPT ![f] = NoRequest]
  /\ t.verdict = [s.verdict EXCEPT ![f] = [old |-> s.ajax[f].data, valid |-> valid]]
  /\ t.at = Relabelled(s.at, errs, oks)
  /\ t.seen[f] = Received(s, f, valid).seen[f]
  /\ \A g \in Field \ {f} :
        /\ t.seen[g] \in {s.seen[g], "late"}
        /\ g \in errs \cup t.errors => g \in s.errors /\ t.seen[g] # "clean"
        /\ g \in oks \cup t.success => g \in s.success
  /\ \/ t.pending = s.pending
     \/ /\ t.pending = s.pending \ {f}
        /\ f \in errs \cup t.errors <=> ~valid
        /\ f \in oks \cup t.success <=> valid
        /\ f \in errs \cup oks

LEMMA AnsweredLabels ==
  ASSUME NEW s, Sound(s), Told(s), NEW f \in Field, NEW valid \in BOOLEAN,
         s.ajax[f].data # NoData, NEW t, NEW errs, NEW oks,
         ShowsAnswer(s, f, valid, t, errs, oks)
  PROVE  Told(t)
  <1>s. /\ t.ajax = [s.ajax EXCEPT ![f] = NoRequest]
        /\ t.verdict = [s.verdict EXCEPT ![f] = [old |-> s.ajax[f].data, valid |-> valid]]
        /\ t.at = Relabelled(s.at, errs, oks)
        /\ t.seen[f] = Received(s, f, valid).seen[f]
        /\ \A g \in Field \ {f} :
              /\ t.seen[g] \in {s.seen[g], "late"}
              /\ g \in errs \cup t.errors => g \in s.errors /\ t.seen[g] # "clean"
              /\ g \in oks \cup t.success => g \in s.success
        /\ \/ t.pending = s.pending
           \/ /\ t.pending = s.pending \ {f}
              /\ f \in errs \cup t.errors <=> ~valid
              /\ f \in oks \cup t.success <=> valid
              /\ f \in errs \cup oks
    BY DEF ShowsAnswer
  <1>1. s \in FormState /\ RequestInv(s) /\ AskedInv(s) /\ LabelsInv(s)
    BY DEF Sound, Told
  <1>2. /\ s.ajax \in [Field -> Request] /\ s.verdict \in [Field -> Previous]
        /\ f \in s.pending
    BY <1>1 DEF FormState, RequestInv
  <1>3. /\ t.ajax[f].data = NoData
        /\ \A g \in Field \ {f} : t.ajax[g] = s.ajax[g] /\ t.verdict[g] = s.verdict[g]
    BY <1>s, <1>2, NothingTypes
  <1>4. t.verdict[f].valid = valid
    <2>1. t.verdict[f] = [old |-> s.ajax[f].data, valid |-> valid]
      BY <1>s, <1>2
    <2>2. QED
      BY <2>1
  <1>5. t.seen[f] # "clean" /\ (t.seen[f] = "fresh" => s.ajax[f].data = Data(f))
    BY <1>s, ReceivedSeen
  <1>6. t.seen[f] = "fresh" => AsksServer(f) /\ PassesLocal(f)
    <2>1. f \in Remote /\ s.ajax[f].data[f] # Empty /\ s.ajax[f].data[f] \in Accepted[f]
      BY <1>1 DEF AskedInv
    <2>2. Data(f)[f] = value[f]
      BY DEF Data, Carried
    <2>3. QED
      BY <1>5, <2>1, <2>2 DEF AsksServer, PassesLocal
  <1>7. AskedInv(t)
    <2> SUFFICES ASSUME NEW g \in Field
                 PROVE  /\ t.ajax[g].data # NoData =>
                             /\ g \in settings \cap Remote
                             /\ t.ajax[g].data[g] # Empty /\ t.ajax[g].data[g] \in Accepted[g]
                        /\ t.seen[g] = "fresh" => g \in settings
      BY DEF AskedInv
    <2>1. CASE g = f
      BY <1>1, <1>3, <2>1 DEF AskedInv
    <2>2. CASE g # f
      <3>1. t.ajax[g] = s.ajax[g] /\ t.seen[g] \in {s.seen[g], "late"}
        BY <1>s, <1>3, <2>2
      <3>2. QED
        BY <1>1, <3>1 DEF AskedInv
    <2>3. QED
      BY <2>1, <2>2
  <1>8. ASSUME NEW g \in Present
        PROVE  ReadyOf(t, s.at, errs, oks, g)
    <2>1. g \in Field /\ TruthOf(s, g)
      BY <1>1 DEF Present, LabelsInv
    <2>2. CASE g = f /\ t.pending = s.pending
      <3>1. ~Heard(t, f)
        BY <1>2, <1>6, <2>2 DEF Heard
      <3>2. QED
        BY <1>5, <2>2, <3>1 DEF ReadyOf
    <2>3. CASE g = f /\ t.pending # s.pending
      <3>1. Heard(t, f) => (Passes(t, f) <=> valid)
        BY <1>4, <1>6 DEF Heard, Passes
      <3>2. QED
        BY <1>s, <1>5, <2>3, <3>1 DEF ReadyOf
    <2>4. CASE g # f
      <3>1. /\ t.seen[g] \in {s.seen[g], "late"}
            /\ g \in errs \cup t.errors => g \in s.errors /\ t.seen[g] # "clean"
            /\ g \in oks \cup t.success => g \in s.success
            /\ g \in t.pending <=> g \in s.pending
            /\ t.verdict[g] = s.verdict[g]
        BY <1>s, <1>3, <2>1, <2>4
      <3>2. CASE t.seen[g] = "late"
        BY <3>2 DEF ReadyOf, Heard
      <3>3. CASE t.seen[g] = s.seen[g]
        <4>1. (Heard(t, g) <=> Heard(s, g)) /\ (Passes(t, g) <=> Passes(s, g))
          BY <3>1, <3>3 DEF Heard, Passes
        <4>2. QED
          BY <2>1, <3>1, <3>3, <4>1 DEF ReadyOf, TruthOf
      <3>4. QED
        BY <3>1, <3>2, <3>3
    <2>5. QED
      BY <2>2, <2>3, <2>4
  <1>9. LabelsInv(t)
    BY <1>s, <1>8, RelabelledTrue
  <1>10. QED
    BY <1>7, <1>9 DEF Told

LEMMA CountedFields ==
  ASSUME NEW s, NEW f \in Field, Answered(s, f)
  PROVE  LET c == Counted(s, f) IN
         /\ c.pending = s.pending \ {f}
         /\ c.ajax = s.ajax /\ c.verdict = s.verdict /\ c.seen = s.seen
         /\ c.at = s.at /\ c.errors = s.errors /\ c.success = s.success
  BY DEF Answered, Counted, FormState

LEMMA WithPreviousFields ==
  ASSUME NEW s \in FormState, NEW p
  PROVE  LET c == WithPrevious(s, p) IN
         /\ c.pending = s.pending
         /\ c.ajax = s.ajax /\ c.verdict = s.verdict /\ c.seen = s.seen
         /\ c.at = s.at /\ c.errors = s.errors /\ c.success = s.success
  BY DEF WithPrevious, FormState

LEMMA AnswerValidTold ==
  ASSUME NEW s, Sound(s), Told(s), ~s.sent, NEW f \in Field, s.ajax[f].data # NoData,
         value \in [Field -> Value], settings \subseteq Field
  PROVE  Told(AnswerValid(s, f))
  <1> DEFINE r == Received(s, f, TRUE)
  <1> DEFINE i == r.invalid \cup {f}
  <1> DEFINE l == WithLists(r, {}, {f}, i)
  <1> DEFINE shown == ShowErrors(l)
  <1> DEFINE u == WithPrevious(shown, Noted(s, f, TRUE).previous)
  <1>1. /\ Sound(r) /\ ~r.sent /\ r.pending = s.pending
        /\ r.ajax = [s.ajax EXCEPT ![f] = NoRequest]
        /\ r.verdict = [s.verdict EXCEPT ![f] = [old |-> s.ajax[f].data, valid |-> TRUE]]
    <2>1. ASSUME NEW valid \in BOOLEAN, NEW t, t = Received(s, f, valid)
          PROVE  /\ Sound(t) /\ t.pending = s.pending /\ t.sent = s.sent
                 /\ t.ajax = [s.ajax EXCEPT ![f] = NoRequest]
                 /\ t.verdict = [s.verdict EXCEPT ![f] = [old |-> s.ajax[f].data, valid |-> valid]]
      BY <2>1, ReceivedSound
    <2>2. TRUE \in BOOLEAN
      OBVIOUS
    <2>3. QED
      BY <2>1, <2>2, Zenon
  <1>2. AnswerValid(s, f) = StopRequest(u, f, TRUE)
    BY DEF AnswerValid, WithPrevious, WithLists
  <1>3. r.at = s.at /\ \A g \in Field \ {f} : r.seen[g] = s.seen[g]
    <2>1. ASSUME NEW valid \in BOOLEAN, NEW t, t = Received(s, f, valid)
          PROVE  t.at = s.at /\ \A g \in Field \ {f} : t.seen[g] = s.seen[g]
      BY <2>1, ReceivedSeen
    <2>2. TRUE \in BOOLEAN
      OBVIOUS
    <2>3. QED
      BY <2>1, <2>2, Zenon
  <1>4. Sound(l) /\ SameRequests(r, l) /\ ~l.sent
    <2>1. i \in SUBSET Field /\ {} \in SUBSET Field /\ {f} \in SUBSET Field
      BY <1>1 DEF Sound, FormState
    <2> HIDE DEF r, i
    <2>2. QED
      BY <1>1, <2>1, ListsSound
  <1>5. l.at = r.at /\ l.seen = r.seen /\ l.errors = {} /\ l.success = {f}
    <2> HIDE DEF r, i
    <2>1. QED
      BY <1>1 DEF Sound, FormState, WithLists
  <1> HIDE DEF l
  <1>6. Sound(shown) /\ SameRequests(l, shown) /\ ~shown.sent
    BY <1>4, ShowErrorsSound
  <1>7. /\ shown.at = Relabelled(l.at, {}, {f}) /\ shown.seen = l.seen
        /\ shown.errors = {} /\ shown.success = {f}
    <2>1. l \in FormState /\ shown = ShowLabels(l, {}, {f})
      BY <1>4, <1>5 DEF Sound, ShowErrors
    <2> HIDE DEF shown
    <2>2. /\ shown.at = Relabelled(l.at, {}, {f}) /\ shown.seen = l.seen
          /\ shown.errors = l.errors /\ shown.success = l.success
      BY <2>1, ShowLabelsFields
    <2>3. QED
      BY <1>5, <2>2
  <1>8. SameRequests(Received(s, f, TRUE), shown)
    BY <1>4, <1>6 DEF SameRequests
  <1> HIDE DEF shown
  <1>9. Answered(u, f) /\ u.sent = shown.sent
    BY <1>6, <1>8, NotedAnswered
  <1> DEFINE c == Counted(u, f)
  <1>10. /\ c.pending = shown.pending \ {f} /\ c.ajax = shown.ajax
         /\ c.verdict = shown.verdict /\ c.seen = shown.seen /\ c.at = shown.at
         /\ c.errors = shown.errors /\ c.success = shown.success
    <2>1. /\ u.pending = shown.pending /\ u.ajax = shown.ajax /\ u.verdict = shown.verdict
          /\ u.seen = shown.seen /\ u.at = shown.at
          /\ u.errors = shown.errors /\ u.success = shown.success
      BY <1>6, WithPreviousFields DEF Sound
    <2> HIDE DEF u
    <2>2. QED
      BY <1>9, <2>1, CountedFields
  <1> HIDE DEF u
  <1>11. Told(c)
    <2> HIDE DEF c, r
    <2>1. /\ c.pending = s.pending \ {f} /\ c.ajax = [s.ajax EXCEPT ![f] = NoRequest]
          /\ c.verdict = [s.verdict EXCEPT ![f] = [old |-> s.ajax[f].data, valid |-> TRUE]]
      BY <1>1, <1>4, <1>6, <1>10 DEF SameRequests
    <2>2. /\ c.at = Relabelled(s.at, {}, {f}) /\ c.seen = r.seen
          /\ c.errors = {} /\ c.success = {f}
      BY <1>3, <1>5, <1>7, <1>10
    <2>3. c.seen[f] = Received(s, f, TRUE).seen[f]
      BY <2>2 DEF r
    <2>4. \A g \in Field \ {f} :
             /\ c.seen[g] \in {s.seen[g], "late"}
             /\ g \in {} \cup c.errors => g \in s.errors /\ c.seen[g] # "clean"
             /\ g \in {f} \cup c.success => g \in s.success
      BY <1>3, <2>2
    <2>5. /\ f \in {} \cup c.errors <=> ~TRUE
          /\ f \in {f} \cup c.success <=> TRUE
          /\ f \in {} \cup {f}
      BY <2>2
    <2>6. ShowsAnswer(s, f, TRUE, c, {}, {f}) /\ TRUE \in BOOLEAN
      BY <2>1, <2>2, <2>3, <2>4, <2>5 DEF ShowsAnswer
    <2>7. QED
      BY <2>6, AnsweredLabels
  <1>12. QED
    BY <1>2, <1>6, <1>9, <1>11, StopRequestTold

LEMMA WithErrorFields ==
  ASSUME NEW s, Sound(s), NEW f \in Field, s.ajax[f].data # NoData
  PROVE  LET w == WithError(s, f) IN
         /\ w.pending = s.pending
         /\ w.ajax = [s.ajax EXCEPT ![f] = NoRequest]
         /\ w.verdict = [s.verdict EXCEPT ![f] = [old |-> s.ajax[f].data, valid |-> FALSE]]
         /\ w.at = s.at /\ w.errors = s.errors \cup {f} /\ w.success = s.success \ {f}
         /\ w.seen[f] = Received(s, f, FALSE).seen[f]
         /\ \A g \in Field \ {f} :
               /\ w.seen[g] \in {s.seen[g], "late"}
               /\ g \in w.errors => g \in s.errors /\ w.seen[g] # "clean"
               /\ g \in w.success => g \in s.success
  <1> DEFINE r == Received(s, f, FALSE)
  <1> DEFINE e == r.errors \cup {f}
  <1> DEFINE o == r.success \ {f}
  <1> DEFINE i == r.invalid \cup {f}
  <1> DEFINE x == [g \in Field |-> IF g \in s.errors /\ g # f /\ s.seen[g] = "clean"
                                   THEN "late" ELSE r.seen[g]]
  <1> DEFINE w == WithError(s, f)
  <1>1. /\ Sound(r) /\ r.pending = s.pending
        /\ r.ajax = [s.ajax EXCEPT ![f] = NoRequest]
        /\ r.verdict = [s.verdict EXCEPT ![f] = [old |-> s.ajax[f].data, valid |-> FALSE]]
    <2>1. ASSUME NEW valid \in BOOLEAN, NEW t, t = Received(s, f, valid)
          PROVE  /\ Sound(t) /\ t.pending = s.pending
                 /\ t.ajax = [s.ajax EXCEPT ![f] = NoRequest]
                 /\ t.verdict = [s.verdict EXCEPT ![f] = [old |-> s.ajax[f].data, valid |-> valid]]
      BY <2>1, ReceivedSound
    <2>2. FALSE \in BOOLEAN
      OBVIOUS
    <2>3. QED
      BY <2>1, <2>2, Zenon
  <1>2. /\ r.at = s.at /\ r.errors = s.errors /\ r.success = s.success
        /\ \A g \in Field \ {f} : r.seen[g] = s.seen[g]
    <2>1. ASSUME NEW valid \in BOOLEAN, NEW t, t = Received(s, f, valid)
          PROVE  /\ t.at = s.at /\ t.errors = s.errors /\ t.success = s.success
                 /\ \A g \in Field \ {f} : t.seen[g] = s.seen[g]
      BY <2>1, ReceivedSeen
    <2>2. FALSE \in BOOLEAN
      OBVIOUS
    <2>3. QED
      BY <2>1, <2>2, Zenon
  <1>3. w = [r EXCEPT !.errors = e, !.success = o, !.invalid = i, !.seen = x]
    BY DEF WithError
  <1> HIDE DEF r, w
  <1>4. r \in FormState
    BY <1>1 DEF Sound
  <1>5. e = s.errors \cup {f} /\ o = s.success \ {f}
    BY <1>2
  <1>6. x[f] = r.seen[f]
    OBVIOUS
  <1>7. \A g \in Field \ {f} :
           /\ x[g] \in {s.seen[g], "late"}
           /\ g \in e => g \in s.errors /\ x[g] # "clean"
           /\ g \in o => g \in s.success
    BY <1>2
  <1> HIDE DEF e, o, i, x
  <1>8. /\ w.errors = e /\ w.success = o /\ w.seen = x /\ w.at = r.at
        /\ w.pending = r.pending /\ w.ajax = r.ajax /\ w.verdict = r.verdict
    BY <1>3, <1>4 DEF FormState
  <1>9. QED
    BY <1>1, <1>2, <1>5, <1>6, <1>7, <1>8 DEF r, w

LEMMA AnswerInvalidTold ==
  ASSUME NEW s, Sound(s), Told(s), ~s.sent, NEW f \in Field, s.ajax[f].data # NoData,
         value \in [Field -> Value], settings \subseteq Field
  PROVE  Told(AnswerInvalid(s, f))
  <1> DEFINE w == WithError(s, f)
  <1> DEFINE shown == ShowErrors(w)
  <1> DEFINE u == WithPrevious(shown, Noted(s, f, FALSE).previous)
  <1>1. Sound(w) /\ ~w.sent /\ SameRequests(Received(s, f, FALSE), w)
    BY WithErrorSound
  <1>2. AnswerInvalid(s, f) = StopRequest(u, f, FALSE)
    BY DEF AnswerInvalid, WithPrevious
  <1>3. /\ w.pending = s.pending
        /\ w.ajax = [s.ajax EXCEPT ![f] = NoRequest]
        /\ w.verdict = [s.verdict EXCEPT ![f] = [old |-> s.ajax[f].data, valid |-> FALSE]]
        /\ w.at = s.at /\ w.errors = s.errors \cup {f} /\ w.success = s.success \ {f}
        /\ w.seen[f] = Received(s, f, FALSE).seen[f]
        /\ \A g \in Field \ {f} :
              /\ w.seen[g] \in {s.seen[g], "late"}
              /\ g \in w.errors => g \in s.errors /\ w.seen[g] # "clean"
              /\ g \in w.success => g \in s.success
    BY Zenon, WithErrorFields
  <1> HIDE DEF w
  <1>4. Sound(shown) /\ SameRequests(w, shown) /\ ~shown.sent
    BY <1>1, ShowErrorsSound
  <1>5. /\ shown.at = Relabelled(w.at, w.errors, w.success) /\ shown.seen = w.seen
        /\ shown.errors = w.errors /\ shown.success = w.success
    BY <1>1, ShowLabelsFields DEF Sound, ShowErrors
  <1>6. SameRequests(Received(s, f, FALSE), shown)
    BY <1>1, <1>4 DEF SameRequests
  <1> HIDE DEF shown
  <1>7. Answered(u, f) /\ u.sent = shown.sent
    BY <1>4, <1>6, NotedAnswered
  <1> DEFINE c == Counted(u, f)
  <1>8. /\ c.pending = shown.pending \ {f} /\ c.ajax = shown.ajax
        /\ c.verdict = shown.verdict /\ c.seen = shown.seen /\ c.at = shown.at
        /\ c.errors = shown.errors /\ c.success = shown.success
    <2>1. /\ u.pending = shown.pending /\ u.ajax = shown.ajax /\ u.verdict = shown.verdict
          /\ u.seen = shown.seen /\ u.at = shown.at
          /\ u.errors = shown.errors /\ u.success = shown.success
      BY <1>4, WithPreviousFields DEF Sound
    <2> HIDE DEF u
    <2>2. QED
      BY <1>7, <2>1, CountedFields
  <1> HIDE DEF u
  <1>9. Told(c)
    <2> HIDE DEF c
    <2> DEFINE errs == w.errors
    <2> DEFINE oks == w.success
    <2>1. /\ c.pending = s.pending \ {f} /\ c.ajax = [s.ajax EXCEPT ![f] = NoRequest]
          /\ c.verdict = [s.verdict EXCEPT ![f] = [old |-> s.ajax[f].data, valid |-> FALSE]]
      BY <1>3, <1>4, <1>8 DEF SameRequests
    <2>2. /\ c.at = Relabelled(s.at, errs, oks) /\ c.seen = w.seen
          /\ c.errors = errs /\ c.success = oks
      BY <1>3, <1>5, <1>8
    <2>3. c.seen[f] = Received(s, f, FALSE).seen[f]
      BY <1>3, <2>2
    <2>4. \A g \in Field \ {f} :
             /\ c.seen[g] \in {s.seen[g], "late"}
             /\ g \in errs \cup c.errors => g \in s.errors /\ c.seen[g] # "clean"
             /\ g \in oks \cup c.success => g \in s.success
      BY <1>3, <2>2
    <2>5. /\ f \in errs \cup c.errors <=> ~FALSE
          /\ f \in oks \cup c.success <=> FALSE
          /\ f \in errs \cup oks
      BY <1>3, <2>2
    <2> HIDE DEF errs, oks
    <2>6. ShowsAnswer(s, f, FALSE, c, errs, oks) /\ FALSE \in BOOLEAN
      BY <2>1, <2>2, <2>3, <2>4, <2>5 DEF ShowsAnswer
    <2>7. QED
      BY <2>6, AnsweredLabels
  <1>10. QED
    BY <1>2, <1>4, <1>7, <1>9, StopRequestTold

LEMMA AnswerThrowsTold ==
  ASSUME NEW s, Sound(s), Told(s), NEW f \in Field, s.ajax[f].data # NoData,
         NEW t \in AnswerThrows(s, f)
  PROVE  Told(t)
  <1> DEFINE w == WithError(s, f)
  <1>1. Sound(w)
    BY WithErrorSound
  <1>2. PICK shown \in SUBSET (w.errors \cap Present) : t = ShowLabels(w, shown, {})
    BY DEF AnswerThrows
  <1>3. /\ w.pending = s.pending
        /\ w.ajax = [s.ajax EXCEPT ![f] = NoRequest]
        /\ w.verdict = [s.verdict EXCEPT ![f] = [old |-> s.ajax[f].data, valid |-> FALSE]]
        /\ w.at = s.at /\ w.errors = s.errors \cup {f} /\ w.success = s.success \ {f}
        /\ w.seen[f] = Received(s, f, FALSE).seen[f]
        /\ \A g \in Field \ {f} :
              /\ w.seen[g] \in {s.seen[g], "late"}
              /\ g \in w.errors => g \in s.errors /\ w.seen[g] # "clean"
              /\ g \in w.success => g \in s.success
    BY Zenon, WithErrorFields
  <1> HIDE DEF w
  <1>4. /\ t.at = Relabelled(w.at, shown, {})
        /\ t.ajax = w.ajax /\ t.seen = w.seen /\ t.verdict = w.verdict
        /\ t.pending = w.pending /\ t.errors = w.errors /\ t.success = w.success
    BY <1>1, <1>2, ShowLabelsFields DEF Sound
  <1> DEFINE no == FALSE
  <1> DEFINE oks == {}
  <1>5. \A g \in Field \ {f} :
           /\ t.seen[g] \in {s.seen[g], "late"}
           /\ g \in shown \cup t.errors => g \in s.errors /\ t.seen[g] # "clean"
           /\ g \in oks \cup t.success => g \in s.success
    BY <1>2, <1>3, <1>4
  <1>6. t.at = Relabelled(s.at, shown, oks) /\ no \in BOOLEAN
    BY <1>3, <1>4
  <1>7. /\ t.ajax = [s.ajax EXCEPT ![f] = NoRequest]
        /\ t.verdict = [s.verdict EXCEPT ![f] = [old |-> s.ajax[f].data, valid |-> no]]
        /\ t.seen[f] = Received(s, f, no).seen[f] /\ t.pending = s.pending
    BY <1>3, <1>4
  <1> HIDE DEF no, oks
  <1>8. ShowsAnswer(s, f, no, t, shown, oks)
    BY <1>5, <1>6, <1>7 DEF ShowsAnswer
  <1>9. QED
    BY <1>6, <1>8, AnsweredLabels

----------------------------------------------------------------------------
(* The steps.  A handler that keeps Told runs on a page and rules that stay as      *)
(* they are.                                                                    *)
LEMMA ToldNext ==
  ASSUME Told(form'), UNCHANGED <<dom, value, settings>>
  PROVE  Told(form)'
  BY DEF Told, AskedInv, LabelsInv, Present, TruthOf, Heard, Passes, AsksServer, PassesLocal

(* The message of a field stays true while neither it nor what is known of the      *)
(* field changes, and once it is known to be outdated.                             *)
LEMMA TruthStill ==
  ASSUME NEW f \in Field, TruthOf(form, f), form'.at[f] = form.at[f],
         \/ form'.seen[f] \notin {"clean", "fresh"}
         \/ form'.seen[f] = "clean" /\ form.seen[f] = "clean"
         \/ /\ form'.seen[f] = form.seen[f] /\ value'[f] = value[f]
            /\ form'.verdict = form.verdict /\ form'.pending = form.pending
            /\ form'.errors = form.errors /\ form'.success = form.success
  PROVE  TruthOf(form, f)'
  <1>1. CASE form'.seen[f] \notin {"clean", "fresh"}
    BY <1>1 DEF TruthOf, Heard
  <1>2. CASE form'.seen[f] = "clean" /\ form.seen[f] = "clean"
    BY <1>2 DEF TruthOf, Heard
  <1>3. CASE /\ form'.seen[f] = form.seen[f] /\ value'[f] = value[f]
             /\ form'.verdict = form.verdict /\ form'.pending = form.pending
             /\ form'.errors = form.errors /\ form'.success = form.success
    <2>1. (Heard(form, f)' <=> Heard(form, f)) /\ (Passes(form, f)' <=> Passes(form, f))
      BY <1>3 DEF Heard, Passes, AsksServer, PassesLocal
    <2>2. QED
      BY <1>3, <2>1 DEF TruthOf
  <1>4. QED
    BY <1>1, <1>2, <1>3

LEMMA AskedStill ==
  ASSUME AskedInv(form), settings \subseteq settings',
         \A f \in Field : /\ form'.ajax[f].data \in {form.ajax[f].data, NoData}
                          /\ form'.seen[f] = "fresh" => form.seen[f] = "fresh"
  PROVE  AskedInv(form)'
  BY DEF AskedInv

LEMMA ParseTold ==
  ASSUME Told(form), UNCHANGED <<dom, value, form>>, settings \subseteq settings'
  PROVE  Told(form)'
  <1>1. AskedInv(form)'
    BY AskedStill DEF Told
  <1>2. LabelsInv(form)'
    BY DEF Told, LabelsInv, Present, TruthOf, Heard, Passes, AsksServer, PassesLocal
  <1>3. QED
    BY <1>1, <1>2 DEF Told

LEMMA TruthInit == Init => TruthInv
  <1> SUFFICES ASSUME Init
               PROVE  TruthInv
    OBVIOUS
  <1>1. /\ form.ajax = [f \in Field |-> NoRequest] /\ form.seen = [f \in Field |-> "clean"]
        /\ form.at = [f \in Field |-> CleanContainer]
    BY DEF Init, NewForm
  <1>2. AskedInv(form)
    BY <1>1, NothingTypes DEF AskedInv
  <1>3. LabelsInv(form)
    <2>1. \A f \in Present : /\ f \in Field /\ form.seen[f] = "clean"
                             /\ form.at[f].class = "valid"
      BY <1>1 DEF Present, CleanContainer
    <2>2. QED
      BY <2>1 DEF LabelsInv, TruthOf, Heard
  <1>4. QED
    BY <1>2, <1>3, InvInit DEF TruthInv

LEMMA ResetFields ==
  ASSUME NEW s \in FormState
  PROVE  LET t == ResetMessages(ResetForm(s)) IN
         /\ \A f \in Field : t.ajax[f].data = s.ajax[f].data
         /\ \A f \in Field : t.at[f].class = "valid"
  <1> DEFINE u == ResetForm(s)
  <1> DEFINE a == Disowned(s, Elements)
  <1> DEFINE p == Unasked(s, Elements)
  <1> DEFINE at == [f \in Field |-> [u.at[f] EXCEPT !.class = "valid"]]
  <1>1. u = [s EXCEPT !.invalid = {}, !.submitted = {}, !.errors = {}, !.success = {},
                      !.previous = p, !.ajax = a]
    BY DEF ResetForm, Unasked, Disowned
  <1>2. \A f \in Field : a[f].data = s.ajax[f].data
    <2>1. s.ajax \in [Field -> Request]
      BY DEF FormState
    <2>2. QED
      BY <2>1 DEF Disowned, Request
  <1> HIDE DEF a, p
  <1>3. u.ajax = a /\ u.at = s.at
    BY <1>1 DEF FormState
  <1>4. \A f \in Field : at[f].class = "valid"
    <2>1. s.at \in [Field -> Container]
      BY DEF FormState
    <2> HIDE DEF u
    <2>2. QED
      BY <1>3, <2>1 DEF Container
  <1>5. ResetMessages(u) = [u EXCEPT !.summary = "valid", !.at = at]
    BY DEF ResetMessages
  <1> HIDE DEF at
  <1>6. ResetMessages(u).ajax = u.ajax /\ ResetMessages(u).at = at
    BY <1>1, <1>5 DEF FormState
  <1>7. QED
    BY <1>2, <1>3, <1>4, <1>6 DEF u

LEMMA TruthNext == TruthInv /\ [Next]_vars => TruthInv'
  <1> SUFFICES ASSUME TruthInv, [Next]_vars
               PROVE  Told(form)'
    BY InvNext DEF TruthInv, Told
  <1>t. /\ IInv /\ Sound(form) /\ Told(form) /\ value \in [Field -> Value]
        /\ settings \subseteq Field /\ (~attached => settings = {})
    BY SoundIsInv DEF TruthInv, Told, IInv
  <1>a. /\ form \in FormState /\ form.seen \in [Field -> Seen] /\ AskedInv(form)
        /\ form.ajax \in [Field -> Request] /\ form.at \in [Field -> Container]
        /\ \A f \in Present : f \in Field /\ TruthOf(form, f)
    BY <1>t DEF Sound, FormState, Seen, Told, LabelsInv, Present
  <1>1. CASE OnReady
    <2>1. settings \subseteq settings'
      BY <1>1, <1>t DEF OnReady, ParseFields, Attach
    <2>2. QED
      BY <1>1, <1>t, <2>1, ParseTold DEF OnReady
  <1>2. CASE Validate
    BY <1>2, <1>t, ValidateFormTold, ToldNext DEF Validate
  <1>3. CASE Submit
    <2>1. CASE attached
      BY <1>3, <1>t, <2>1, SubmitFormTold, ToldNext DEF Submit
    <2>2. CASE ~attached
      <3>1. SameMessages(form, form')
        BY <1>3, <1>a, <2>2, UnshownFields DEF Submit
      <3>2. QED
        BY <1>3, <1>t, <3>1, SameMessagesTold, ToldNext DEF Submit
    <2>3. QED
      BY <2>1, <2>2
  <1>4. CASE Reset
    <2> DEFINE cleaned == IF bound THEN ResetMessages(ResetForm(form)) ELSE form
    <2> DEFINE x == IF bound THEN [f \in Field |-> "clean"]
                    ELSE [f \in Field |-> IF form.seen[f] = "clean" THEN "clean" ELSE "edited"]
    <2>1. form' = [cleaned EXCEPT !.seen = x] /\ dom' = dom /\ settings' = settings
      BY <1>4 DEF Reset
    <2>2. Sound(cleaned) /\ \A f \in Field : cleaned.ajax[f].data = form.ajax[f].data
      BY <1>a, <1>t, ResetFormSound, ResetMessagesSound, ResetFields
    <2>3. \A f \in Field : /\ x[f] \in {"clean", "edited"}
                           /\ ~bound /\ x[f] = "clean" => form.seen[f] = "clean"
      OBVIOUS
    <2>4. /\ bound => \A f \in Field : cleaned.at[f].class = "valid"
          /\ ~bound => cleaned.at = form.at
      BY <1>a, ResetFields
    <2> HIDE DEF cleaned, x
    <2>5. form'.seen = x /\ form'.ajax = cleaned.ajax /\ form'.at = cleaned.at
      BY <2>1, <2>2 DEF Sound, FormState
    <2>6. AskedInv(form)'
      BY <1>a, <2>1, <2>2, <2>3, <2>5, AskedStill
    <2>7. ASSUME NEW f \in Present
          PROVE  TruthOf(form, f)'
      <3>1. f \in Field /\ TruthOf(form, f)
        BY <1>a
      <3>2. CASE bound
        BY <2>3, <2>4, <2>5, <3>1, <3>2 DEF TruthOf, Heard
      <3>3. CASE ~bound
        BY <2>3, <2>4, <2>5, <3>1, <3>3, TruthStill
      <3>4. QED
        BY <3>2, <3>3
    <2>8. Present' = Present
      BY <2>1 DEF Present
    <2>9. QED
      BY <2>6, <2>7, <2>8 DEF Told, LabelsInv
  <1>5. CASE Gone \/ UNCHANGED vars
    <2>1. UNCHANGED vars
      BY <1>5 DEF Gone
    <2>2. QED
      BY <1>t, <2>1, ParseTold DEF vars
  <1>6. ASSUME NEW S \in SUBSET Field, Parse(S)
        PROVE  Told(form)'
    <2>1. settings \subseteq settings'
      BY <1>6, <1>t DEF Parse, ParseFields, Attach
    <2>2. QED
      BY <1>6, <1>t, <2>1, ParseTold DEF Parse
  <1>7. ASSUME NEW f \in Field, NEW skipAttach \in BOOLEAN, ParseElement(f, skipAttach)
        PROVE  Told(form)'
    <2>1. settings \subseteq settings'
      BY <1>7, <1>t DEF ParseElement, Attach
    <2>2. QED
      BY <1>7, <1>t, <2>1, ParseTold DEF ParseElement
  <1>8. ASSUME NEW f \in Field, NEW v \in Value, Edit(f, v)
        PROVE  Told(form)'
    <2> DEFINE x == Outdated(form.seen, f)
    <2>1. form' = [form EXCEPT !.seen = x] /\ dom' = dom /\ settings' = settings
      BY <1>8 DEF Edit
    <2>2. \A g \in Field \ {f} : value'[g] = value[g]
      BY <1>8, <1>t DEF Edit
    <2>3. \A g \in Field : /\ x[g] \in {form.seen[g], "edited"}
                           /\ g = f => x[g] \in {"clean", "edited"}
      BY DEF Outdated, Carried
    <2> HIDE DEF x
    <2>4. /\ form'.seen = x /\ form'.ajax = form.ajax /\ form'.at = form.at
          /\ form'.verdict = form.verdict /\ form'.pending = form.pending
          /\ form'.errors = form.errors /\ form'.success = form.success
      BY <1>a, <2>1 DEF FormState
    <2>5. AskedInv(form)'
      BY <1>a, <2>1, <2>3, <2>4, AskedStill
    <2>6. \A g \in Present : TruthOf(form, g)'
      BY <1>a, <2>2, <2>3, <2>4, TruthStill
    <2>7. QED
      BY <2>1, <2>5, <2>6 DEF Told, LabelsInv, Present
  <1>9. ASSUME NEW f \in Field, KeyUp(f) \/ FocusOut(f)
        PROVE  Told(form)'
    BY <1>9, <1>t, ValidateElementTold, ToldNext DEF KeyUp, FocusOut
  <1>10. ASSUME NEW f \in Field, Insert(f)
         PROVE  Told(form)'
    <2> DEFINE at == [form.at EXCEPT ![f] = CleanContainer]
    <2> DEFINE x == [form.seen EXCEPT ![f] = "clean"]
    <2>1. /\ form' = [form EXCEPT !.at = at, !.seen = x]
          /\ value' = value /\ settings' = settings
      BY <1>10 DEF Insert
    <2>2. /\ at[f].class = "valid" /\ x[f] = "clean"
          /\ \A g \in Field \ {f} : at[g] = form.at[g] /\ x[g] = form.seen[g]
      BY <1>a DEF CleanContainer
    <2> HIDE DEF at, x
    <2>3. /\ form'.seen = x /\ form'.ajax = form.ajax /\ form'.at = at
          /\ form'.verdict = form.verdict /\ form'.pending = form.pending
          /\ form'.errors = form.errors /\ form'.success = form.success
      BY <1>a, <2>1 DEF FormState
    <2>4. AskedInv(form)'
      BY <1>a, <2>1, <2>2, <2>3, AskedStill
    <2>5. TruthOf(form, f)'
      BY <2>2, <2>3 DEF TruthOf, Heard
    <2>6. \A g \in Present \ {f} : TruthOf(form, g)'
      BY <1>a, <2>1, <2>2, <2>3, TruthStill
    <2>7. Present' = Present \cup {f}
      BY <1>10, <1>t DEF Insert, Present, IInv, TypeOK
    <2>8. QED
      BY <2>4, <2>5, <2>6, <2>7 DEF Told, LabelsInv
  <1>11. ASSUME NEW f \in Field, Remove(f)
         PROVE  Told(form)'
    <2> DEFINE x == Outdated(form.seen, f)
    <2> DEFINE p == [form.previous EXCEPT ![f] = NoPrevious]
    <2> DEFINE a == [form.ajax EXCEPT ![f] = [form.ajax[f] EXCEPT !.own = FALSE]]
    <2>1. form' = [form EXCEPT !.previous = p, !.ajax = a, !.seen = x] /\ settings' = settings
      BY <1>11 DEF Remove
    <2>2. \A g \in Field \ {f} : value'[g] = value[g]
      BY <1>11, <1>t DEF Remove
    <2>3. \A g \in Field : x[g] \in {form.seen[g], "edited"}
      BY DEF Outdated
    <2>4. \A g \in Field : a[g].data = form.ajax[g].data
      BY <1>a DEF Request
    <2> HIDE DEF x, p, a
    <2>5. /\ form'.seen = x /\ form'.ajax = a /\ form'.at = form.at
          /\ form'.verdict = form.verdict /\ form'.pending = form.pending
          /\ form'.errors = form.errors /\ form'.success = form.success
      BY <1>a, <2>1 DEF FormState
    <2>6. AskedInv(form)'
      BY <1>a, <2>1, <2>3, <2>4, <2>5, AskedStill
    <2>7. \A g \in Present \ {f} : TruthOf(form, g)'
      BY <1>a, <2>2, <2>3, <2>5, TruthStill
    <2>8. Present' = Present \ {f}
      BY <1>11, <1>t DEF Remove, Present, IInv, TypeOK
    <2>9. QED
      BY <2>6, <2>7, <2>8 DEF Told, LabelsInv
  <1>12. ASSUME NEW f \in Field, HideOrShow(f)
         PROVE  Told(form)'
    <2>1. AskedInv(form)'
      BY <1>12, <1>a, AskedStill DEF HideOrShow
    <2>2. \A g \in Present : TruthOf(form, g)'
      BY <1>12, <1>a, TruthStill DEF HideOrShow
    <2>3. Present' = Present
      BY <1>12, <1>t DEF HideOrShow, Present, IInv, TypeOK
    <2>4. QED
      BY <2>1, <2>2, <2>3 DEF Told, LabelsInv
  <1>13. ASSUME NEW f \in Field, NEW valid \in BOOLEAN, Answer(f, valid)
         PROVE  Told(form)'
    <2>1. Told(form')
      <3>1. CASE form' = AnswerValid(form, f)
        BY <1>13, <1>t, <3>1, AnswerValidTold DEF Answer
      <3>2. CASE form' = AnswerInvalid(form, f)
        BY <1>13, <1>t, <3>2, AnswerInvalidTold DEF Answer
      <3>3. CASE form' \in AnswerThrows(form, f)
        BY <1>13, <1>t, <3>3, AnswerThrowsTold DEF Answer
      <3>4. QED
        BY <1>13, <3>1, <3>2, <3>3 DEF Answer
    <2>2. QED
      BY <1>13, <2>1, ToldNext DEF Answer
  <1>14. ASSUME NEW f \in Field, LoseAnswer(f)
         PROVE  Told(form)'
    <2> DEFINE a == [form.ajax EXCEPT ![f] = NoRequest]
    <2>1. form' = [form EXCEPT !.ajax = a] /\ UNCHANGED <<dom, value, settings>>
      BY <1>14 DEF LoseAnswer
    <2>2. \A g \in Field : a[g].data \in {form.ajax[g].data, NoData}
      BY <1>a, NothingTypes
    <2> HIDE DEF a
    <2>3. /\ form'.seen = form.seen /\ form'.ajax = a /\ form'.at = form.at
          /\ form'.verdict = form.verdict /\ form'.pending = form.pending
          /\ form'.errors = form.errors /\ form'.success = form.success
      BY <1>a, <2>1 DEF FormState
    <2>4. AskedInv(form)'
      BY <1>a, <2>1, <2>2, <2>3, AskedStill
    <2>5. \A g \in Present : TruthOf(form, g)'
      BY <1>a, <2>1, <2>3, TruthStill
    <2>6. QED
      BY <2>1, <2>4, <2>5 DEF Told, LabelsInv, Present
  <1>15. QED
    BY <1>1, <1>2, <1>3, <1>4, <1>5, <1>6, <1>7, <1>8, <1>9, <1>10, <1>11, <1>12, <1>13,
       <1>14 DEF Next

(* What the containers of the page say is true of the values, as far as the server  *)
(* has been heard, whatever is parsed, edited, checked, answered, reset, added or   *)
(* removed, and in which order.                                                  *)
THEOREM MessagesAreTrue == Spec => []MessagesTruthful
  <1>1. TruthInv => MessagesTruthful
    BY DEF TruthInv, LabelsInv, TruthOf, Heard, MessagesTruthful, Visible, Present
  <1>2. QED
    BY <1>1, TruthInit, TruthNext, PTL DEF Spec

(* A submit that is refused shows the summary, and lists in it exactly the fields   *)
(* that it marked.                                                               *)
THEOREM RefusalsExplained == Spec => RefusalExplained
  <1> DEFINE Explained ==
        Submit /\ ~form'.sent /\ form'.errors # {} =>
          /\ form'.summary = "errors"
          /\ form'.list = {f \in Elements : form'.at[f].class = "error" /\ form'.seen[f] = "fresh"}
          /\ form'.list # {}
  <1>1. ASSUME IInv
        PROVE  Explained
    <2> SUFFICES ASSUME Submit, ~form'.sent, form'.errors # {}
                 PROVE  /\ form'.summary = "errors"
                        /\ form'.list = {f \in Elements : /\ form'.at[f].class = "error"
                                                          /\ form'.seen[f] = "fresh"}
                        /\ form'.list # {}
      OBVIOUS
    <2> DEFINE checked == ValidateForm(form)
    <2> DEFINE k == Check(form, Elements)
    <2> DEFINE c == [k EXCEPT !.invalid = k.errors]
    <2> DEFINE l == OnErrors(c)
    <2>1. /\ Sound(form) /\ form \in FormState /\ value \in [Field -> Value]
          /\ settings \subseteq Field /\ Elements \in SUBSET Field
      BY <1>1, SoundIsInv, ElementsType DEF Sound
    <2>2. attached /\ form' = SubmitForm(form)
      BY <2>1 DEF Submit, FormState
    <2>3. Sound(k) /\ k \in FormState /\ k.errors \in SUBSET Field
      BY <2>1, CheckSound DEF Sound, FormState
    <2>4. Sound(checked) /\ checked \in FormState /\ checked.errors = k.errors
      BY <2>1, ValidateFormSound DEF Sound
    <2>5. form' = checked /\ checked.errors # {}
      <3>1. form' = IF checked.errors # {} THEN checked
                    ELSE IF checked.pendingRequest > 0
                         THEN [checked EXCEPT !.formSubmitted = TRUE]
                         ELSE [checked EXCEPT !.sent = TRUE]
        BY <2>2 DEF SubmitForm
      <3> HIDE DEF checked
      <3>2. /\ [checked EXCEPT !.formSubmitted = TRUE].errors = checked.errors
            /\ [checked EXCEPT !.sent = TRUE].errors = checked.errors
        BY <2>4 DEF FormState
      <3>3. QED
        BY <3>1, <3>2
    <2>6. checked = ShowErrors(IF c.errors = {} THEN c ELSE OnErrors(c))
      BY DEF ValidateForm
    <2>7. /\ k.errors = {f \in Elements : Outcome(form, f) = "error"}
          /\ k.success = {f \in Elements : Outcome(form, f) = "ok"}
          /\ k.seen = [f \in Field |-> IF f \in Asked(form, Elements) THEN "asked"
                                       ELSE IF f \in Elements THEN "fresh" ELSE form.seen[f]]
      BY <2>1, CheckSets, CheckRequests
    <2> HIDE DEF checked, k
    <2>8. c \in FormState /\ c.errors = k.errors /\ c.success = k.success /\ c.seen = k.seen
      BY <2>3 DEF FormState
    <2> HIDE DEF c
    <2>9. /\ l \in FormState /\ l.errors = k.errors /\ l.success = k.success
          /\ l.seen = k.seen /\ l.list = k.errors /\ l.summary = "errors"
      BY <2>3, <2>8 DEF FormState, OnErrors
    <2> HIDE DEF l
    <2>10. form' = ShowLabels(l, l.errors, l.success)
      BY <2>4, <2>5, <2>6, <2>8 DEF ShowErrors, l
    <2>11. /\ form'.at = Relabelled(l.at, k.errors, k.success) /\ form'.seen = k.seen
           /\ form'.list = k.errors /\ form'.summary = "errors"
      BY <2>9, <2>10, ShowLabelsFields
    <2>12. ASSUME NEW f \in Elements
           PROVE  f \in k.errors <=> form'.at[f].class = "error" /\ form'.seen[f] = "fresh"
      <3>1. f \in Field /\ f \in Present
        BY <2>1 DEF Elements, Visible, Present
      <3>2. CASE Outcome(form, f) = "error"
        <4>1. f \in k.errors /\ f \notin Asked(form, Elements)
          BY <2>7, <3>2 DEF Asked
        <4>2. form'.at[f] = OnError(l.at[f], f, TRUE)
          BY <2>11, <3>1, <4>1 DEF Relabelled
        <4>3. form'.at[f].class = "error"
          BY <4>2 DEF OnError
        <4>4. QED
          BY <2>7, <2>11, <3>1, <4>1, <4>3
      <3>3. CASE Outcome(form, f) = "ok"
        <4>1. f \notin k.errors /\ f \in k.success
          BY <2>7, <3>3
        <4>2. form'.at[f] = OnSuccess(OnError(l.at[f], f, FALSE), f)
          BY <2>11, <3>1, <4>1 DEF Relabelled
        <4>3. form'.at[f].class = "valid"
          BY <4>2 DEF OnSuccess
        <4>4. QED
          BY <4>1, <4>3
      <3>4. CASE Outcome(form, f) = "pending"
        <4>1. f \notin k.errors /\ f \in Asked(form, Elements)
          BY <2>7, <3>4 DEF Asked
        <4>2. form'.seen[f] = "asked"
          BY <2>7, <2>11, <3>1, <4>1
        <4>3. QED
          BY <4>1, <4>2
      <3>5. QED
        BY <3>2, <3>3, <3>4, OutcomeCases
    <2>13. QED
      BY <2>4, <2>5, <2>7, <2>11, <2>12
  <1>2. IInv /\ [Next]_vars => [Explained]_vars
    BY <1>1
  <1>3. QED
    BY <1>2, FormInvariant, PTL DEF Spec, RefusalExplained

----------------------------------------------------------------------------
(* The rules of one input.  No induction is needed over the adapters: there    *)
(* are seventeen, and the lemmas on applying them go through all.              *)

\* The adapters in the order they are registered in.
LEMMA AdapterList ==
    /\ Len(Adapters) = 17
    /\ Adapters[1] = AddSingleVal("extension", "extension", "accept")
    /\ Adapters[2] = AddSingleVal("regex", "pattern", "none")
    /\ Adapters[3] = AddBool("creditcard") /\ Adapters[4] = AddBool("date")
    /\ Adapters[5] = AddBool("digits") /\ Adapters[6] = AddBool("email")
    /\ Adapters[7] = AddBool("number") /\ Adapters[8] = AddBool("url")
    /\ Adapters[9] = AddMinMax("length", "minlength", "maxlength", "rangelength")
    /\ Adapters[10] = AddMinMax("range", "min", "max", "range")
    /\ Adapters[11] = AddMinMax("minlength", "minlength", "none", "none")
    /\ Adapters[12] = AddMinMax("maxlength", "minlength", "maxlength", "none")
    /\ Adapters[13] = Custom("equalto") /\ Adapters[14] = Custom("required")
    /\ Adapters[15] = Custom("remote") /\ Adapters[16] = Custom("password")
    /\ Adapters[17] = Custom("fileextensions")
  BY DEF Adapters, Methods

\* The adapters are applied one after the other.
LEMMA AppliedStep ==
    ASSUME NEW o, NEW m
    PROVE  /\ Applied(o, m)[0] = o
           /\ \A k \in 1 .. 17 :
                 Applied(o, m)[k] = Apply(Applied(o, m)[k - 1], Adapters[k], m)
  <1> DEFINE Is(f) == f = [k \in 0 .. Len(Adapters) |->
                             IF k = 0 THEN o ELSE Apply(f[k - 1], Adapters[k], m)]
             e1 == Apply(o, Adapters[1], m)
             e2 == Apply(e1, Adapters[2], m)
             e3 == Apply(e2, Adapters[3], m)
             e4 == Apply(e3, Adapters[4], m)
             e5 == Apply(e4, Adapters[5], m)
             e6 == Apply(e5, Adapters[6], m)
             e7 == Apply(e6, Adapters[7], m)
             e8 == Apply(e7, Adapters[8], m)
             e9 == Apply(e8, Adapters[9], m)
             e10 == Apply(e9, Adapters[10], m)
             e11 == Apply(e10, Adapters[11], m)
             e12 == Apply(e11, Adapters[12], m)
             e13 == Apply(e12, Adapters[13], m)
             e14 == Apply(e13, Adapters[14], m)
             e15 == Apply(e14, Adapters[15], m)
             e16 == Apply(e15, Adapters[16], m)
             e17 == Apply(e16, Adapters[17], m)
             g == [k \in 0 .. 17 |->
                     IF k = 0 THEN o
                     ELSE <<e1, e2, e3, e4, e5, e6, e7, e8, e9, e10, e11, e12, e13, e14, e15,
                            e16, e17>>[k]]
  <1>1. Len(Adapters) = 17
    BY AdapterList
  <1>2. \A k \in 1 .. 17 : g[k] = Apply(g[k - 1], Adapters[k], m)
    <2>1. /\ g[0] = o /\ g[1] = e1 /\ g[2] = e2 /\ g[3] = e3 /\ g[4] = e4 /\ g[5] = e5
          /\ g[6] = e6 /\ g[7] = e7 /\ g[8] = e8 /\ g[9] = e9 /\ g[10] = e10
          /\ g[11] = e11 /\ g[12] = e12 /\ g[13] = e13 /\ g[14] = e14
          /\ g[15] = e15 /\ g[16] = e16 /\ g[17] = e17
      <3> HIDE DEF e1, e2, e3, e4, e5, e6, e7, e8, e9, e10, e11, e12, e13, e14, e15,
                   e16, e17
      <3>1. QED
        OBVIOUS
    <2>2. /\ e1 = Apply(o, Adapters[1], m)
          /\ e2 = Apply(e1, Adapters[2], m)
          /\ e3 = Apply(e2, Adapters[3], m)
          /\ e4 = Apply(e3, Adapters[4], m)
          /\ e5 = Apply(e4, Adapters[5], m)
          /\ e6 = Apply(e5, Adapters[6], m)
          /\ e7 = Apply(e6, Adapters[7], m)
          /\ e8 = Apply(e7, Adapters[8], m)
          /\ e9 = Apply(e8, Adapters[9], m)
          /\ e10 = Apply(e9, Adapters[10], m)
          /\ e11 = Apply(e10, Adapters[11], m)
          /\ e12 = Apply(e11, Adapters[12], m)
          /\ e13 = Apply(e12, Adapters[13], m)
          /\ e14 = Apply(e13, Adapters[14], m)
          /\ e15 = Apply(e14, Adapters[15], m)
          /\ e16 = Apply(e15, Adapters[16], m)
          /\ e17 = Apply(e16, Adapters[17], m)
      OBVIOUS
    <2> HIDE DEF g, e1, e2, e3, e4, e5, e6, e7, e8, e9, e10, e11, e12, e13, e14, e15, e16, e17
    <2>3. QED
      BY <2>1, <2>2
  <1>3. Is(g)
    <2> HIDE DEF e1, e2, e3, e4, e5, e6, e7, e8, e9, e10, e11, e12, e13, e14, e15, e16, e17
    <2>1. g[0] = o /\ g = [k \in 0 .. 17 |-> g[k]]
      OBVIOUS
    <2> HIDE DEF g
    <2>2. \A k \in 0 .. 17 : g[k] = IF k = 0 THEN o ELSE Apply(g[k - 1], Adapters[k], m)
      BY <1>2, <2>1
    <2>3. g = [k \in 0 .. 17 |-> IF k = 0 THEN o ELSE Apply(g[k - 1], Adapters[k], m)]
      BY <2>1, <2>2
    <2>4. QED
      BY <1>1, <2>3
  <1> HIDE DEF g
  <1>4. Applied(o, m) = CHOOSE f : Is(f)
    BY DEF Applied
  <1>5. Is(Applied(o, m))
    <2> HIDE DEF Is
    <2>1. QED
      BY <1>3, <1>4
  <1> DEFINE f == Applied(o, m)
  <1>6. f = [k \in 0 .. 17 |-> IF k = 0 THEN o ELSE Apply(f[k - 1], Adapters[k], m)]
    BY <1>1, <1>5
  <1> HIDE DEF f
  <1>7. f[0] = o /\ \A k \in 1 .. 17 : f[k] = Apply(f[k - 1], Adapters[k], m)
    BY <1>6
  <1>8. QED
    BY <1>7 DEF f

-----------------------------------------------------------------------------
(* What an adapter writes does not depend on what it is applied to.        *)

\* The rules of h are those of g with those of f over them.
Overlaid(h, f, g) ==
    /\ DOMAIN h = DOMAIN f \cup DOMAIN g
    /\ \A r \in DOMAIN h : h[r] = IF r \in DOMAIN f THEN f[r] ELSE g[r]

\* A rule that is set in both overlays keeps h overlaid.
LEMMA PutBoth ==
    ASSUME NEW h, NEW f, NEW g, NEW key, NEW v, Overlaid(h, f, g)
    PROVE  Overlaid(Put(h, key, v), Put(f, key, v), g)
  BY DEF Overlaid, Put

\* So does setting it with its message.
LEMMA SetBoth ==
    ASSUME NEW o, NEW w, NEW b, Overlaid(o.rules, w.rules, b),
           NEW adapter, NEW m, NEW rule, NEW v
    PROVE  Overlaid(SetValidationValues(o, adapter, m, rule, v).rules,
                    SetValidationValues(w, adapter, m, rule, v).rules, b)
  <1>1. /\ SetValidationValues(o, adapter, m, rule, v).rules = Put(o.rules, rule, v)
        /\ SetValidationValues(w, adapter, m, rule, v).rules = Put(w.rules, rule, v)
    BY DEF SetValidationValues
  <1>2. QED
    BY <1>1, PutBoth

\* The adapters that are registered.
IsAdapter(a) ==
    IF a.name \in {"equalto", "required", "remote", "password", "fileextensions"}
    THEN a.how = "custom"
    ELSE a.how \in {"bool", "minmax", "single"}

LEMMA AllAreAdapters == \A k \in 1 .. 17 : IsAdapter(Adapters[k])
  <1> SUFFICES ASSUME NEW k \in 1 .. 17 PROVE IsAdapter(Adapters[k])
    OBVIOUS
  <1>1. \/ k = 1 \/ k = 2 \/ k = 3 \/ k = 4 \/ k = 5 \/ k = 6 \/ k = 7 \/ k = 8 \/ k = 9
        \/ k = 10 \/ k = 11 \/ k = 12 \/ k = 13 \/ k = 14 \/ k = 15 \/ k = 16 \/ k = 17
    OBVIOUS
  <1>2. QED
    BY <1>1, AdapterList DEF IsAdapter, AddBool, AddMinMax, AddSingleVal, Custom

\* The rules the adapter writes.
Writes(a, m) == Apply(NoOptions, a, m).rules

\* The password adapter sets up to three.
LEMMA PasswordBoth ==
    ASSUME NEW o, NEW w, NEW b, Overlaid(o.rules, w.rules, b), NEW m
    PROVE  Overlaid(AdaptPassword(o, m).rules, AdaptPassword(w, m).rules, b)
  <1> DEFINE Sets(acc, p, rule) ==
               IF Given(m, "password", p)
               THEN SetValidationValues(acc, "password", m, rule,
                                        With(<<m.param[<<"password", p>>]>>))
               ELSE acc
  <1>1. ASSUME NEW x, NEW y, Overlaid(x.rules, y.rules, b), NEW p, NEW rule
        PROVE  Overlaid(Sets(x, p, rule).rules, Sets(y, p, rule).rules, b)
    BY <1>1, SetBoth
  <1>2. \A x : AdaptPassword(x, m) = Sets(Sets(Sets(x, "min", "minlength"), "nonalphamin",
                                              "nonalphamin"), "regex", "regex")
    BY DEF AdaptPassword
  <1> HIDE DEF Sets
  <1> DEFINE o1 == Sets(o, "min", "minlength")
             w1 == Sets(w, "min", "minlength")
             o2 == Sets(o1, "nonalphamin", "nonalphamin")
             w2 == Sets(w1, "nonalphamin", "nonalphamin")
  <1>3. Overlaid(o1.rules, w1.rules, b)
    BY <1>1
  <1>4. Overlaid(o2.rules, w2.rules, b)
    BY <1>1, <1>3
  <1>5. Overlaid(Sets(o2, "regex", "regex").rules, Sets(w2, "regex", "regex").rules, b)
    BY <1>1, <1>4
  <1>6. QED
    BY <1>2, <1>5

\* Applied to any options, an adapter puts what it writes over their rules.
LEMMA ApplyOverlays ==
    ASSUME NEW o, NEW a, NEW m, IsAdapter(a)
    PROVE  Overlaid(Apply(o, a, m).rules, Writes(a, m), o.rules)
  <1> DEFINE w == NoOptions
  <1>1. Overlaid(o.rules, w.rules, o.rules)
    BY DEF Overlaid, NoOptions
  <1> HIDE DEF w
  <1>2. \A adapter, rule, v :
           Overlaid(SetValidationValues(o, adapter, m, rule, v).rules,
                    SetValidationValues(w, adapter, m, rule, v).rules, o.rules)
    BY <1>1, SetBoth
  <1>3. Overlaid(AdaptMinMax(o, a, m).rules, AdaptMinMax(w, a, m).rules, o.rules)
    BY <1>1, <1>2 DEF AdaptMinMax
  <1>4. Overlaid(AdaptSingle(o, a, m).rules, AdaptSingle(w, a, m).rules, o.rules)
    BY <1>2 DEF AdaptSingle
  <1>5. Overlaid(AdaptEqualTo(o, m).rules, AdaptEqualTo(w, m).rules, o.rules)
    BY <1>2 DEF AdaptEqualTo
  <1>6. Overlaid(AdaptRequired(o, m).rules, AdaptRequired(w, m).rules, o.rules)
    BY <1>1, <1>2 DEF AdaptRequired
  <1>7. Overlaid(AdaptRemote(o, m).rules, AdaptRemote(w, m).rules, o.rules)
    BY <1>2 DEF AdaptRemote
  <1>8. Overlaid(AdaptPassword(o, m).rules, AdaptPassword(w, m).rules, o.rules)
    BY <1>1, PasswordBoth
  <1>9. Overlaid(Adapt(o, a, m).rules, Adapt(w, a, m).rules, o.rules)
    <2>1. CASE a.how = "bool"
      BY <1>2, <2>1 DEF Adapt, IsAdapter
    <2>2. CASE a.how = "minmax"
      BY <1>3, <2>2 DEF Adapt, IsAdapter
    <2>3. CASE a.how = "single"
      BY <1>4, <2>3 DEF Adapt, IsAdapter
    <2>4. CASE a.how = "custom"
      <3>1. CASE a.name = "equalto"
        BY <1>5, <2>4, <3>1 DEF Adapt
      <3>2. CASE a.name = "required"
        BY <1>6, <2>4, <3>2 DEF Adapt
      <3>3. CASE a.name = "remote"
        BY <1>7, <2>4, <3>3 DEF Adapt
      <3>4. CASE a.name = "password"
        BY <1>8, <2>4, <3>4 DEF Adapt
      <3>5. CASE a.name = "fileextensions"
        BY <1>2, <2>4, <3>5 DEF Adapt
      <3>6. QED
        BY <2>4, <3>1, <3>2, <3>3, <3>4, <3>5 DEF IsAdapter
    <2>5. QED
      BY <2>1, <2>2, <2>3, <2>4 DEF IsAdapter
  <1>10. QED
    BY <1>1, <1>9 DEF Apply, Writes, w

\* Of the first n adapters, the last one that writes a rule has it.
LastWrites(rules, n, m) ==
    /\ \A r \in DOMAIN rules :
          \E k \in 1 .. n :
             /\ r \in DOMAIN Writes(Adapters[k], m)
             /\ rules[r] = Writes(Adapters[k], m)[r]
             /\ \A j \in 1 .. n : k < j => r \notin DOMAIN Writes(Adapters[j], m)
    /\ \A k \in 1 .. n : DOMAIN Writes(Adapters[k], m) \subseteq DOMAIN rules

\* One more adapter is the last one for what it writes.
LEMMA OneMore ==
    ASSUME NEW rules, NEW after, NEW m, NEW n \in 1 .. 17,
           LastWrites(rules, n - 1, m), Overlaid(after, Writes(Adapters[n], m), rules)
    PROVE  LastWrites(after, n, m)
  <1> DEFINE w(k) == Writes(Adapters[k], m)
  <1>1. /\ DOMAIN after = DOMAIN w(n) \cup DOMAIN rules
        /\ \A r \in DOMAIN after : after[r] = IF r \in DOMAIN w(n) THEN w(n)[r] ELSE rules[r]
    BY DEF Overlaid
  <1>2. /\ \A r \in DOMAIN rules :
              \E k \in 1 .. n - 1 :
                 /\ r \in DOMAIN w(k) /\ rules[r] = w(k)[r]
                 /\ \A j \in 1 .. n - 1 : k < j => r \notin DOMAIN w(j)
        /\ \A k \in 1 .. n - 1 : DOMAIN w(k) \subseteq DOMAIN rules
    BY DEF LastWrites
  <1>3. \A k : k \in 1 .. n <=> k \in 1 .. n - 1 \/ k = n
    OBVIOUS
  <1>4. \A k \in 1 .. n - 1 : k < n /\ ~ (n < k)
    OBVIOUS
  <1>5. n \in 1 .. n /\ ~ (n < n)
    OBVIOUS
  <1> HIDE DEF w
  <1>6. ASSUME NEW r \in DOMAIN after
        PROVE  \E k \in 1 .. n :
                 /\ r \in DOMAIN w(k) /\ after[r] = w(k)[r]
                 /\ \A j \in 1 .. n : k < j => r \notin DOMAIN w(j)
    <2>1. CASE r \in DOMAIN w(n)
      BY <1>1, <1>3, <1>4, <1>5, <2>1
    <2>2. CASE r \notin DOMAIN w(n)
      BY <1>1, <1>2, <1>3, <1>4, <1>6, <2>2
    <2>3. QED
      BY <2>1, <2>2
  <1>7. \A k \in 1 .. n : DOMAIN w(k) \subseteq DOMAIN after
    BY <1>1, <1>2, <1>3
  <1>8. QED
    BY <1>6, <1>7 DEF LastWrites, w

\* What holds of no adapters, and of one more with each, holds of all of them.
LEMMA AllAdapters ==
    ASSUME NEW S, 0 \in S, \A n \in 1 .. 17 : n - 1 \in S => n \in S
    PROVE  17 \in S
  <1>1. 1 \in S
    OBVIOUS
  <1>2. 2 \in S
    BY <1>1
  <1>3. 3 \in S
    BY <1>2
  <1>4. 4 \in S
    BY <1>3
  <1>5. 5 \in S
    BY <1>4
  <1>6. 6 \in S
    BY <1>5
  <1>7. 7 \in S
    BY <1>6
  <1>8. 8 \in S
    BY <1>7
  <1>9. 9 \in S
    BY <1>8
  <1>10. 10 \in S
    BY <1>9
  <1>11. 11 \in S
    BY <1>10
  <1>12. 12 \in S
    BY <1>11
  <1>13. 13 \in S
    BY <1>12
  <1>14. 14 \in S
    BY <1>13
  <1>15. 15 \in S
    BY <1>14
  <1>16. 16 \in S
    BY <1>15
  <1>17. QED
    BY <1>16

\* So each rule of a parsed input is that of the last adapter that writes it.
LEMMA RulesApplied ==
    ASSUME NEW m
    PROVE  LastWrites(Applied(NoOptions, m)[17].rules, 17, m)
  <1> DEFINE f == Applied(NoOptions, m)
             S == {n \in 0 .. 17 : LastWrites(f[n].rules, n, m)}
  <1>1. f[0] = NoOptions /\ \A n \in 1 .. 17 : f[n] = Apply(f[n - 1], Adapters[n], m)
    BY AppliedStep
  <1> HIDE DEF f
  <1>2. 0 \in S
    BY <1>1 DEF LastWrites, NoOptions
  <1>3. ASSUME NEW n \in 1 .. 17, n - 1 \in S
        PROVE  n \in S
    <2>1. LastWrites(f[n - 1].rules, n - 1, m)
      BY <1>3
    <2>2. Overlaid(f[n].rules, Writes(Adapters[n], m), f[n - 1].rules)
      BY <1>1, AllAreAdapters, ApplyOverlays
    <2>3. LastWrites(f[n].rules, n, m)
      BY <2>1, <2>2, OneMore
    <2>4. QED
      BY <2>3
  <1>4. 17 \in S
    <2> HIDE DEF S
    <2>1. QED
      BY <1>2, <1>3, AllAdapters
  <1>5. QED
    BY <1>4 DEF f

-----------------------------------------------------------------------------
(* The messages.                                                           *)

\* Every message is that of an attribute the input has.
SpeaksFor(messages, m) ==
    \A r \in DOMAIN messages : messages[r] \in m.said \cap m.worded

\* A rule that is set has its message from an adapter the input has.
LEMMA SetSpeaks ==
    ASSUME NEW o, NEW m, SpeaksFor(o.messages, m), NEW adapter \in m.said, NEW rule, NEW v
    PROVE  SpeaksFor(SetValidationValues(o, adapter, m, rule, v).messages, m)
  BY DEF SpeaksFor, SetValidationValues, Put

LEMMA ApplySpeaks ==
    ASSUME NEW o, NEW a, NEW m, IsAdapter(a), SpeaksFor(o.messages, m)
    PROVE  SpeaksFor(Apply(o, a, m).messages, m)
  <1> SUFFICES ASSUME a.name \in m.said PROVE SpeaksFor(Adapt(o, a, m).messages, m)
    BY DEF Apply
  <1>1. \A rule, v : SpeaksFor(SetValidationValues(o, a.name, m, rule, v).messages, m)
    BY SetSpeaks
  <1>2. SpeaksFor(AdaptMinMax(o, a, m).messages, m)
    BY <1>1 DEF AdaptMinMax
  <1>3. SpeaksFor(AdaptSingle(o, a, m).messages, m)
    BY <1>1 DEF AdaptSingle
  <1>4. a.name = "password" => SpeaksFor(AdaptPassword(o, m).messages, m)
    <2> SUFFICES ASSUME a.name = "password"
                 PROVE  SpeaksFor(AdaptPassword(o, m).messages, m)
      OBVIOUS
    <2> DEFINE Sets(acc, p, rule) ==
                 IF Given(m, "password", p)
                 THEN SetValidationValues(acc, "password", m, rule,
                                          With(<<m.param[<<"password", p>>]>>))
                 ELSE acc
               o1 == Sets(o, "min", "minlength")
               o2 == Sets(o1, "nonalphamin", "nonalphamin")
    <2>1. ASSUME NEW x, SpeaksFor(x.messages, m), NEW p, NEW rule
          PROVE  SpeaksFor(Sets(x, p, rule).messages, m)
      BY <2>1, SetSpeaks
    <2>2. AdaptPassword(o, m) = Sets(o2, "regex", "regex")
      BY DEF AdaptPassword
    <2> HIDE DEF Sets
    <2>3. SpeaksFor(o1.messages, m)
      BY <2>1
    <2>4. SpeaksFor(o2.messages, m)
      BY <2>1, <2>3
    <2>5. SpeaksFor(Sets(o2, "regex", "regex").messages, m)
      BY <2>1, <2>4
    <2>6. QED
      BY <2>2, <2>5
  <1>5. CASE a.how = "bool"
    BY <1>1, <1>5 DEF Adapt, IsAdapter
  <1>6. CASE a.how = "minmax"
    BY <1>2, <1>6 DEF Adapt, IsAdapter
  <1>7. CASE a.how = "single"
    BY <1>3, <1>7 DEF Adapt, IsAdapter
  <1>8. CASE a.how = "custom"
    <2>1. CASE a.name = "equalto"
      BY <1>1, <1>8, <2>1 DEF Adapt, AdaptEqualTo
    <2>2. CASE a.name = "required"
      BY <1>1, <1>8, <2>2 DEF Adapt, AdaptRequired
    <2>3. CASE a.name = "remote"
      BY <1>1, <1>8, <2>3 DEF Adapt, AdaptRemote
    <2>4. CASE a.name = "password"
      BY <1>4, <1>8, <2>4 DEF Adapt
    <2>5. CASE a.name = "fileextensions"
      BY <1>1, <1>8, <2>5 DEF Adapt
    <2>6. QED
      BY <1>8, <2>1, <2>2, <2>3, <2>4, <2>5 DEF IsAdapter
  <1>9. QED
    BY <1>5, <1>6, <1>7, <1>8 DEF IsAdapter

LEMMA MessagesApplied ==
    ASSUME NEW m
    PROVE  SpeaksFor(Applied(NoOptions, m)[17].messages, m)
  <1> DEFINE f == Applied(NoOptions, m)
             S == {n \in 0 .. 17 : SpeaksFor(f[n].messages, m)}
  <1>1. f[0] = NoOptions /\ \A n \in 1 .. 17 : f[n] = Apply(f[n - 1], Adapters[n], m)
    BY AppliedStep
  <1> HIDE DEF f
  <1>2. 0 \in S
    BY <1>1 DEF SpeaksFor, NoOptions
  <1>3. ASSUME NEW n \in 1 .. 17, n - 1 \in S
        PROVE  n \in S
    BY <1>1, <1>3, AllAreAdapters, ApplySpeaks
  <1>4. 17 \in S
    <2> HIDE DEF S
    <2>1. QED
      BY <1>2, <1>3, AllAdapters
  <1>5. QED
    BY <1>4 DEF f

-----------------------------------------------------------------------------
(* What the adapters write.                                                *)

\* What the server renders.
LEMMA MarkupMeans ==
    ASSUME NEW m, IsMarkup(m)
    PROVE  /\ \A a, p : Given(m, a, p) => a \in m.said
           /\ ~ Given(m, "minlength", "max") /\ ~ Given(m, "maxlength", "min")
  <1>1. \A p \in DOMAIN m.param : p \in Parameters /\ p[1] \in m.said
    BY DEF IsMarkup
  <1>2. /\ <<"minlength", "max">> \notin Parameters
        /\ <<"maxlength", "min">> \notin Parameters
    BY DEF Parameters, Numbers
  <1>3. \A a, p : <<a, p>>[1] = a
    OBVIOUS
  <1>4. QED
    BY <1>1, <1>2, <1>3 DEF Given, IsMarkup

\* An adapter that sets one rule.
LEMMA SetsOne ==
    ASSUME NEW adapter, NEW m, NEW rule, NEW v
    PROVE  LET w == SetValidationValues(NoOptions, adapter, m, rule, v).rules
           IN  DOMAIN w = {rule} /\ w[rule] = v
  BY DEF SetValidationValues, NoOptions, Put

\* An adapter the input has no attribute for writes nothing.
LEMMA NotSaid ==
    ASSUME NEW a, NEW m, a.name \notin m.said
    PROVE  DOMAIN Writes(a, m) = {}
  BY DEF Writes, Apply, NoOptions

\* What a rule is set to by a parameter, if the input has it.
Param(m, adapter, p) == With(<<m.param[<<adapter, p>>]>>)
Maybe(m, adapter, p) == IF Given(m, adapter, p) THEN Param(m, adapter, p) ELSE Undefined

CustomNames == {"equalto", "required", "remote", "password", "fileextensions"}

\* What each kind of adapter writes.
LEMMA BoolWrites ==
    ASSUME NEW name, name \notin CustomNames, NEW m
    PROVE  LET w == Writes(AddBool(name), m)
           IN  /\ DOMAIN w = IF name \in m.said THEN {name} ELSE {}
               /\ \A r \in DOMAIN w : w[r] = On
  <1> DEFINE a == AddBool(name)
  <1>1. a.name = name /\ a.how = "bool" /\ a.rule = <<name>>
    BY DEF AddBool
  <1> HIDE DEF a
  <1>2. name \in m.said =>
           Writes(a, m) =
             SetValidationValues(NoOptions, name, m, name, On).rules
    BY <1>1 DEF Writes, Apply, Adapt, CustomNames
  <1>3. name \in m.said => DOMAIN Writes(a, m) = {name} /\ Writes(a, m)[name] = On
    BY <1>2, SetsOne
  <1>4. name \notin m.said => DOMAIN Writes(a, m) = {}
    BY <1>1, NotSaid
  <1>5. /\ DOMAIN Writes(a, m) = IF name \in m.said THEN {name} ELSE {}
        /\ \A r \in DOMAIN Writes(a, m) : Writes(a, m)[r] = On
    BY <1>3, <1>4
  <1>6. QED
    BY <1>5 DEF a

\* The rules w are r, with the parameter, for an input that says so, or none.
SetsParam(w, m, name, attribute, r) ==
    /\ DOMAIN w = IF name \in m.said THEN {r} ELSE {}
    /\ r \in DOMAIN w => w[r] = Maybe(m, name, attribute)

LEMMA SingleWrites ==
    ASSUME NEW name, name \notin CustomNames, NEW attribute, NEW rule, NEW m
    PROVE  SetsParam(Writes(AddSingleVal(name, attribute, rule), m), m, name, attribute,
                     IF rule = "none" THEN name ELSE rule)
  <1> DEFINE a == AddSingleVal(name, attribute, rule)
             r == IF rule = "none" THEN name ELSE rule
             v == Maybe(m, name, attribute)
             w == SetValidationValues(NoOptions, name, m, r, v).rules
  <1>1. a.name = name /\ a.how = "single" /\ a.rule[1] = r /\ a.rule[2] = attribute
    BY DEF AddSingleVal
  <1> HIDE DEF a, r
  <1>2. name \in m.said => Writes(a, m) = w
    BY <1>1 DEF Writes, Apply, Adapt, AdaptSingle, CustomNames, Maybe, Param
  <1>3. DOMAIN w = {r} /\ w[r] = v
    BY SetsOne
  <1>4. name \notin m.said => DOMAIN Writes(a, m) = {}
    BY <1>1, NotSaid
  <1> HIDE DEF w, v
  <1>5. CASE name \in m.said
    BY <1>2, <1>3, <1>5 DEF SetsParam, a, r, v
  <1>6. CASE name \notin m.said
    BY <1>4, <1>6 DEF SetsParam, a, r
  <1>7. QED
    BY <1>5, <1>6

\* The rules w are the one of the three that the bounds of the input ask for.
SetsBounds(w, m, name, min, max, both) ==
    /\ Given(m, name, "min") /\ Given(m, name, "max") =>
          /\ DOMAIN w = {both}
          /\ w[both] = With(<<m.param[<<name, "min">>], m.param[<<name, "max">>]>>)
    /\ Given(m, name, "min") /\ ~ Given(m, name, "max") =>
          DOMAIN w = {min} /\ w[min] = Param(m, name, "min")
    /\ ~ Given(m, name, "min") /\ Given(m, name, "max") =>
          DOMAIN w = {max} /\ w[max] = Param(m, name, "max")
    /\ ~ Given(m, name, "min") /\ ~ Given(m, name, "max") => DOMAIN w = {}

LEMMA MinMaxWrites ==
    ASSUME NEW name, name \notin CustomNames, NEW min, NEW max, NEW both, NEW m,
           \A p : Given(m, name, p) => name \in m.said
    PROVE  SetsBounds(Writes(AddMinMax(name, min, max, both), m), m, name, min, max, both)
  <1> DEFINE a == AddMinMax(name, min, max, both)
             low == Given(m, name, "min")
             high == Given(m, name, "max")
             Set(rule, args) ==
               SetValidationValues(NoOptions, name, m, rule, With(args)).rules
             atLeast == m.param[<<name, "min">>]
             atMost == m.param[<<name, "max">>]
  <1>1. a.name = name /\ a.how = "minmax" /\ a.rule = <<min, max, both>>
    BY DEF AddMinMax
  <1> HIDE DEF a
  <1>2. name \in m.said => Writes(a, m) = AdaptMinMax(NoOptions, a, m).rules
    BY <1>1 DEF Writes, Apply, Adapt, CustomNames
  <1>3. low \/ high => name \in m.said
    OBVIOUS
  <1>4. /\ low /\ high => Writes(a, m) = Set(both, <<atLeast, atMost>>)
        /\ low /\ ~ high => Writes(a, m) = Set(min, <<atLeast>>)
        /\ ~ low /\ high => Writes(a, m) = Set(max, <<atMost>>)
        /\ ~ low /\ ~ high /\ name \in m.said => Writes(a, m) = NoOptions.rules
    BY <1>1, <1>2, <1>3 DEF AdaptMinMax
  <1>5. \A rule, args : DOMAIN Set(rule, args) = {rule} /\ Set(rule, args)[rule] = With(args)
    BY SetsOne
  <1>6. DOMAIN NoOptions.rules = {}
    BY DEF NoOptions
  <1> HIDE DEF Set
  <1>7. /\ low /\ high =>
              DOMAIN Writes(a, m) = {both} /\ Writes(a, m)[both] = With(<<atLeast, atMost>>)
        /\ low /\ ~ high =>
              DOMAIN Writes(a, m) = {min} /\ Writes(a, m)[min] = With(<<atLeast>>)
        /\ ~ low /\ high =>
              DOMAIN Writes(a, m) = {max} /\ Writes(a, m)[max] = With(<<atMost>>)
        /\ ~ low /\ ~ high => DOMAIN Writes(a, m) = {}
    <2> HIDE DEF low, high, atLeast, atMost
    <2>1. QED
      BY <1>1, <1>4, <1>5, <1>6, NotSaid
  <1>8. QED
    BY <1>7 DEF a, SetsBounds, Param

\* The adapters that are functions.
LEMMA EqualToWrites ==
    ASSUME NEW m
    PROVE  LET w == AdaptEqualTo(NoOptions, m).rules
               other == FullOtherName(m.param[<<"equalto", "other">>])
           IN  /\ DOMAIN w = {"equalTo"}
               /\ w["equalTo"] = IF other \in DOMAIN OtherFields THEN With(<<other>>)
                                                                 ELSE Undefined
  <1> DEFINE other == FullOtherName(m.param[<<"equalto", "other">>])
             v == IF other \in DOMAIN OtherFields THEN With(<<other>>) ELSE Undefined
  <1>1. AdaptEqualTo(NoOptions, m) =
           SetValidationValues(NoOptions, "equalto", m, "equalTo", v)
    BY DEF AdaptEqualTo
  <1> HIDE DEF v
  <1>2. DOMAIN AdaptEqualTo(NoOptions, m).rules = {"equalTo"}
        /\ AdaptEqualTo(NoOptions, m).rules["equalTo"] = v
    BY <1>1, SetsOne
  <1>3. QED
    BY <1>2 DEF v

LEMMA RequiredWrites ==
    ASSUME NEW m, m.checkbox \in BOOLEAN
    PROVE  LET w == AdaptRequired(NoOptions, m).rules
           IN  /\ DOMAIN w = IF m.checkbox THEN {} ELSE {"required"}
               /\ \A r \in DOMAIN w : w[r] = On
  <1>1. DOMAIN NoOptions.rules = {}
    BY DEF NoOptions
  <1>2. m.checkbox => AdaptRequired(NoOptions, m).rules = NoOptions.rules
    BY DEF AdaptRequired
  <1>3. ~ m.checkbox =>
          /\ DOMAIN AdaptRequired(NoOptions, m).rules = {"required"}
          /\ AdaptRequired(NoOptions, m).rules["required"] = On
    BY SetsOne DEF AdaptRequired
  <1>4. QED
    BY <1>1, <1>2, <1>3

LEMMA RemoteWrites ==
    ASSUME NEW m
    PROVE  DOMAIN AdaptRemote(NoOptions, m).rules = {"remote"}
  <1>1. PICK v : AdaptRemote(NoOptions, m)
                 = SetValidationValues(NoOptions, "remote", m, "remote", v)
    BY DEF AdaptRemote
  <1>2. QED
    BY <1>1, SetsOne

LEMMA CustomWrites ==
    ASSUME NEW m, NEW name \in CustomNames
    PROVE  LET w == Writes(Custom(name), m)
               by == name \in m.said
           IN  /\ ~ by => DOMAIN w = {}
               /\ by /\ name = "equalto" => w = AdaptEqualTo(NoOptions, m).rules
               /\ by /\ name = "required" => w = AdaptRequired(NoOptions, m).rules
               /\ by /\ name = "remote" => w = AdaptRemote(NoOptions, m).rules
               /\ by /\ name = "password" => w = AdaptPassword(NoOptions, m).rules
               /\ by /\ name = "fileextensions" =>
                     /\ DOMAIN w = {"extension"}
                     /\ w["extension"] = Maybe(m, "fileextensions", "extensions")
  <1> DEFINE a == Custom(name)
  <1>1. a.name = name /\ a.how = "custom"
    BY DEF Custom
  <1> HIDE DEF a
  <1>2. name \notin m.said => DOMAIN Writes(a, m) = {}
    BY <1>1, NotSaid
  <1>3. name \in m.said => Writes(a, m) = Adapt(NoOptions, a, m).rules
    BY <1>1 DEF Writes, Apply
  <1>4. \A v : LET s == SetValidationValues(NoOptions, name, m, "extension", v).rules
               IN  DOMAIN s = {"extension"} /\ s["extension"] = v
    BY SetsOne
  <1>5. CASE name \in m.said
    <2>1. /\ name = "equalto" => Writes(a, m) = AdaptEqualTo(NoOptions, m).rules
          /\ name = "required" => Writes(a, m) = AdaptRequired(NoOptions, m).rules
          /\ name = "remote" => Writes(a, m) = AdaptRemote(NoOptions, m).rules
          /\ name = "password" => Writes(a, m) = AdaptPassword(NoOptions, m).rules
      BY <1>1, <1>3, <1>5 DEF Adapt
    <2>2. ASSUME name = "fileextensions"
          PROVE  /\ DOMAIN Writes(a, m) = {"extension"}
                 /\ Writes(a, m)["extension"] = Maybe(m, "fileextensions", "extensions")
      <3> DEFINE v == Maybe(m, "fileextensions", "extensions")
      <3>1. Adapt(NoOptions, a, m) = SetValidationValues(NoOptions, name, m, "extension", v)
        BY <1>1, <2>2, SMTT(30) DEF Adapt, Maybe, Param
      <3> HIDE DEF v
      <3>2. QED
        BY <1>3, <1>4, <1>5, <3>1, SMTT(30) DEF v
    <2>3. QED
      BY <1>5, <2>1, <2>2 DEF a
  <1>6. QED
    BY <1>2, <1>5 DEF a

LEMMA PasswordWrites ==
    ASSUME NEW m
    PROVE  LET w == AdaptPassword(NoOptions, m).rules
               IsSet(rule, p) ==
                 /\ rule \in DOMAIN w <=> Given(m, "password", p)
                 /\ rule \in DOMAIN w => w[rule] = With(<<m.param[<<"password", p>>]>>)
           IN  /\ DOMAIN w \subseteq {"minlength", "nonalphamin", "regex"}
               /\ IsSet("minlength", "min") /\ IsSet("nonalphamin", "nonalphamin")
               /\ IsSet("regex", "regex")
  BY DEF AdaptPassword, SetValidationValues, NoOptions, Put

\* The k-th adapter sets rule r to v for the input m.
Table(m, k, r, v) ==
    \/ /\ k = 1 /\ r = "accept" /\ "extension" \in m.said
       /\ v = Maybe(m, "extension", "extension")
    \/ k = 2 /\ r = "regex" /\ "regex" \in m.said /\ v = Maybe(m, "regex", "pattern")
    \/ k \in 3 .. 8 /\ r = Adapters[k].name /\ r \in m.said /\ v = On
    \/ /\ k = 9 /\ r = "rangelength"
       /\ Given(m, "length", "min") /\ Given(m, "length", "max")
       /\ v = With(<<m.param[<<"length", "min">>], m.param[<<"length", "max">>]>>)
    \/ /\ k = 9 /\ r = "minlength"
       /\ Given(m, "length", "min") /\ ~ Given(m, "length", "max")
       /\ v = Param(m, "length", "min")
    \/ /\ k = 9 /\ r = "maxlength"
       /\ ~ Given(m, "length", "min") /\ Given(m, "length", "max")
       /\ v = Param(m, "length", "max")
    \/ /\ k = 10 /\ r = "range" /\ Given(m, "range", "min") /\ Given(m, "range", "max")
       /\ v = With(<<m.param[<<"range", "min">>], m.param[<<"range", "max">>]>>)
    \/ /\ k = 10 /\ r = "min" /\ Given(m, "range", "min") /\ ~ Given(m, "range", "max")
       /\ v = Param(m, "range", "min")
    \/ /\ k = 10 /\ r = "max" /\ ~ Given(m, "range", "min") /\ Given(m, "range", "max")
       /\ v = Param(m, "range", "max")
    \/ /\ k = 11 /\ r = "minlength" /\ Given(m, "minlength", "min")
       /\ v = Param(m, "minlength", "min")
    \/ /\ k = 12 /\ r = "maxlength" /\ Given(m, "maxlength", "max")
       /\ v = Param(m, "maxlength", "max")
    \/ /\ k = 13 /\ r = "equalTo" /\ "equalto" \in m.said
       /\ LET other == FullOtherName(m.param[<<"equalto", "other">>])
          IN  v = IF other \in DOMAIN OtherFields THEN With(<<other>>) ELSE Undefined
    \/ k = 14 /\ r = "required" /\ "required" \in m.said /\ ~ m.checkbox /\ v = On
    \/ k = 15 /\ r = "remote"
    \/ /\ k = 16 /\ r = "minlength" /\ Given(m, "password", "min")
       /\ v = Param(m, "password", "min")
    \/ /\ k = 16 /\ r = "nonalphamin" /\ Given(m, "password", "nonalphamin")
       /\ v = Param(m, "password", "nonalphamin")
    \/ /\ k = 16 /\ r = "regex" /\ Given(m, "password", "regex")
       /\ v = Param(m, "password", "regex")
    \/ /\ k = 17 /\ r = "extension" /\ "fileextensions" \in m.said
       /\ v = Maybe(m, "fileextensions", "extensions")

\* The table is what the adapters write, but for the arguments of remote.
LEMMA Written ==
    ASSUME NEW m, IsMarkup(m), NEW k \in 1 .. 17
    PROVE  /\ \A r \in DOMAIN Writes(Adapters[k], m) :
                 Table(m, k, r, Writes(Adapters[k], m)[r])
           /\ k # 15 => \A r, v : Table(m, k, r, v) => r \in DOMAIN Writes(Adapters[k], m)
  <1> DEFINE w == Writes(Adapters[k], m)
             Exactly == /\ \A r \in DOMAIN w : Table(m, k, r, w[r])
                        /\ k # 15 => \A r, v : Table(m, k, r, v) => r \in DOMAIN w
  <1>1. /\ \A a, p : Given(m, a, p) => a \in m.said
        /\ ~ Given(m, "minlength", "max") /\ ~ Given(m, "maxlength", "min")
    BY MarkupMeans
  <1> HIDE DEF w
  <1>2. ASSUME k = 1 PROVE Exactly
    <2>1. w = Writes(AddSingleVal("extension", "extension", "accept"), m)
      BY <1>2, AdapterList DEF w
    <2>2. SetsParam(w, m, "extension", "extension", "accept")
      BY <2>1, SingleWrites DEF CustomNames
    <2>3. QED
      BY <1>2, <2>2 DEF Table, SetsParam
  <1>3. ASSUME k = 2 PROVE Exactly
    <2>1. w = Writes(AddSingleVal("regex", "pattern", "none"), m)
      BY <1>3, AdapterList DEF w
    <2>2. SetsParam(w, m, "regex", "pattern", "regex")
      BY <2>1, SingleWrites DEF CustomNames
    <2>3. QED
      BY <1>3, <2>2 DEF Table, SetsParam
  <1>4. ASSUME k = 3 PROVE Exactly
    <2>1. w = Writes(AddBool("creditcard"), m)
      BY <1>4, AdapterList DEF w
    <2>2. /\ DOMAIN w = IF "creditcard" \in m.said THEN {"creditcard"} ELSE {}
          /\ \A r \in DOMAIN w : w[r] = On
      BY <2>1, BoolWrites DEF CustomNames
    <2>3. Adapters[k].name = "creditcard"
      BY <1>4, AdapterList DEF AddBool
    <2>4. QED
      BY <1>4, <2>2, <2>3 DEF Table
  <1>5. ASSUME k = 4 PROVE Exactly
    <2>1. w = Writes(AddBool("date"), m)
      BY <1>5, AdapterList DEF w
    <2>2. /\ DOMAIN w = IF "date" \in m.said THEN {"date"} ELSE {}
          /\ \A r \in DOMAIN w : w[r] = On
      BY <2>1, BoolWrites DEF CustomNames
    <2>3. Adapters[k].name = "date"
      BY <1>5, AdapterList DEF AddBool
    <2>4. QED
      BY <1>5, <2>2, <2>3 DEF Table
  <1>6. ASSUME k = 5 PROVE Exactly
    <2>1. w = Writes(AddBool("digits"), m)
      BY <1>6, AdapterList DEF w
    <2>2. /\ DOMAIN w = IF "digits" \in m.said THEN {"digits"} ELSE {}
          /\ \A r \in DOMAIN w : w[r] = On
      BY <2>1, BoolWrites DEF CustomNames
    <2>3. Adapters[k].name = "digits"
      BY <1>6, AdapterList DEF AddBool
    <2>4. QED
      BY <1>6, <2>2, <2>3 DEF Table
  <1>7. ASSUME k = 6 PROVE Exactly
    <2>1. w = Writes(AddBool("email"), m)
      BY <1>7, AdapterList DEF w
    <2>2. /\ DOMAIN w = IF "email" \in m.said THEN {"email"} ELSE {}
          /\ \A r \in DOMAIN w : w[r] = On
      BY <2>1, BoolWrites DEF CustomNames
    <2>3. Adapters[k].name = "email"
      BY <1>7, AdapterList DEF AddBool
    <2>4. QED
      BY <1>7, <2>2, <2>3 DEF Table
  <1>8. ASSUME k = 7 PROVE Exactly
    <2>1. w = Writes(AddBool("number"), m)
      BY <1>8, AdapterList DEF w
    <2>2. /\ DOMAIN w = IF "number" \in m.said THEN {"number"} ELSE {}
          /\ \A r \in DOMAIN w : w[r] = On
      BY <2>1, BoolWrites DEF CustomNames
    <2>3. Adapters[k].name = "number"
      BY <1>8, AdapterList DEF AddBool
    <2>4. QED
      BY <1>8, <2>2, <2>3 DEF Table
  <1>9. ASSUME k = 8 PROVE Exactly
    <2>1. w = Writes(AddBool("url"), m)
      BY <1>9, AdapterList DEF w
    <2>2. /\ DOMAIN w = IF "url" \in m.said THEN {"url"} ELSE {}
          /\ \A r \in DOMAIN w : w[r] = On
      BY <2>1, BoolWrites DEF CustomNames
    <2>3. Adapters[k].name = "url"
      BY <1>9, AdapterList DEF AddBool
    <2>4. QED
      BY <1>9, <2>2, <2>3 DEF Table
  <1>10. ASSUME k = 9 PROVE Exactly
    <2>1. w = Writes(AddMinMax("length", "minlength", "maxlength", "rangelength"), m)
      BY <1>10, AdapterList DEF w
    <2>2. SetsBounds(w, m, "length", "minlength", "maxlength", "rangelength")
      BY <1>1, <2>1, MinMaxWrites DEF CustomNames
    <2>3. QED
      BY <1>1, <1>10, <2>2 DEF Table, SetsBounds
  <1>11. ASSUME k = 10 PROVE Exactly
    <2>1. w = Writes(AddMinMax("range", "min", "max", "range"), m)
      BY <1>11, AdapterList DEF w
    <2>2. SetsBounds(w, m, "range", "min", "max", "range")
      BY <1>1, <2>1, MinMaxWrites DEF CustomNames
    <2>3. QED
      BY <1>1, <1>11, <2>2 DEF Table, SetsBounds
  <1>12. ASSUME k = 11 PROVE Exactly
    <2>1. w = Writes(AddMinMax("minlength", "minlength", "none", "none"), m)
      BY <1>12, AdapterList DEF w
    <2>2. SetsBounds(w, m, "minlength", "minlength", "none", "none")
      BY <1>1, <2>1, MinMaxWrites DEF CustomNames
    <2>3. QED
      BY <1>1, <1>12, <2>2 DEF Table, SetsBounds
  <1>13. ASSUME k = 12 PROVE Exactly
    <2>1. w = Writes(AddMinMax("maxlength", "minlength", "maxlength", "none"), m)
      BY <1>13, AdapterList DEF w
    <2>2. SetsBounds(w, m, "maxlength", "minlength", "maxlength", "none")
      BY <1>1, <2>1, MinMaxWrites DEF CustomNames
    <2>3. QED
      BY <1>1, <1>13, <2>2 DEF Table, SetsBounds
  <1>14. ASSUME k = 13 PROVE Exactly
    <2>1. w = Writes(Custom("equalto"), m)
      BY <1>14, AdapterList DEF w
    <2>2. /\ "equalto" \in m.said => w = AdaptEqualTo(NoOptions, m).rules
          /\ "equalto" \notin m.said => DOMAIN w = {}
      BY <2>1, CustomWrites DEF CustomNames
    <2>3. QED
      BY <1>14, <2>2, EqualToWrites DEF Table
  <1>15. ASSUME k = 14 PROVE Exactly
    <2>1. w = Writes(Custom("required"), m)
      BY <1>15, AdapterList DEF w
    <2>2. /\ "required" \in m.said => w = AdaptRequired(NoOptions, m).rules
          /\ "required" \notin m.said => DOMAIN w = {}
      BY <2>1, CustomWrites DEF CustomNames
    <2>3. m.checkbox \in BOOLEAN
      BY DEF IsMarkup
    <2>4. QED
      BY <1>15, <2>2, <2>3, RequiredWrites DEF Table
  <1>16. ASSUME k = 15 PROVE Exactly
    <2>1. w = Writes(Custom("remote"), m)
      BY <1>16, AdapterList DEF w
    <2>2. /\ "remote" \in m.said => w = AdaptRemote(NoOptions, m).rules
          /\ "remote" \notin m.said => DOMAIN w = {}
      BY <2>1, CustomWrites DEF CustomNames
    <2>3. QED
      BY <1>16, <2>2, RemoteWrites DEF Table
  <1>17. ASSUME k = 16 PROVE Exactly
    <2>1. w = Writes(Custom("password"), m)
      BY <1>17, AdapterList DEF w
    <2>2. DOMAIN w = {} \/ w = AdaptPassword(NoOptions, m).rules
      BY <2>1, CustomWrites DEF CustomNames
    <2>3. "password" \in m.said => w = AdaptPassword(NoOptions, m).rules
      BY <2>1, CustomWrites DEF CustomNames
    <2>4. \A rule, p :
             <<rule, p>> \in {<<"minlength", "min">>, <<"nonalphamin", "nonalphamin">>,
                             <<"regex", "regex">>} =>
                /\ rule \in DOMAIN w => w[rule] = Param(m, "password", p)
                /\ rule \in DOMAIN w <=> Given(m, "password", p)
      BY <1>1, <2>2, <2>3, PasswordWrites DEF Param
    <2>5. DOMAIN w \subseteq {"minlength", "nonalphamin", "regex"}
      BY <2>2, PasswordWrites
    <2>6. QED
      BY <1>17, <2>4, <2>5 DEF Table
  <1>18. ASSUME k = 17 PROVE Exactly
    <2>1. w = Writes(Custom("fileextensions"), m)
      BY <1>18, AdapterList DEF w
    <2>2. /\ DOMAIN w = IF "fileextensions" \in m.said THEN {"extension"} ELSE {}
          /\ "extension" \in DOMAIN w =>
                w["extension"] = Maybe(m, "fileextensions", "extensions")
      BY <2>1, CustomWrites DEF CustomNames
    <2>3. QED
      BY <1>18, <2>2 DEF Table
  <1>19. k = 1 \/ k = 2 \/ k = 3 \/ k = 4 \/ k = 5 \/ k = 6 \/ k = 7 \/ k = 8 \/ k = 9
         \/ k = 10 \/ k = 11 \/ k = 12 \/ k = 13 \/ k = 14 \/ k = 15 \/ k = 16 \/ k = 17
    OBVIOUS
  <1> HIDE DEF Exactly
  <1>20. Exactly
    BY <1>2, <1>3, <1>4, <1>5, <1>6, <1>7, <1>8, <1>9, <1>10, <1>11, <1>12, <1>13, <1>14,
       <1>15, <1>16, <1>17, <1>18, <1>19
       DEF Exactly
  <1>21. QED
    BY <1>20 DEF Exactly, w

-----------------------------------------------------------------------------
(* The rules of an input that was parsed.                                  *)

\* Every rule was set by an adapter, and by none after it, and a rule that an adapter
\* sets is there.
LEMMA ParsedRules ==
    ASSUME NEW m, IsMarkup(m)
    PROVE  LET rules == Parsed(m).rules
           IN  /\ \A r \in DOMAIN rules :
                     \/ r = "__dummy__" /\ rules[r] = On
                     \/ \E k \in 1 .. 17 :
                           /\ Table(m, k, r, rules[r])
                           /\ \A j \in 1 .. 17 : k < j /\ j # 15 => \A v : ~ Table(m, j, r, v)
               /\ \A k \in 1 .. 17 : \A r, v : k # 15 /\ Table(m, k, r, v) => r \in DOMAIN rules
  <1> DEFINE f == Applied(NoOptions, m)[17].rules
             rules == Parsed(m).rules
             w(k) == Writes(Adapters[k], m)
  <1>1. LastWrites(f, 17, m)
    BY RulesApplied
  <1>2. rules = Put(f, "__dummy__", On)
    BY AdapterList DEF Parsed, ParseOnto
  <1>3. /\ DOMAIN rules = DOMAIN f \cup {"__dummy__"}
        /\ rules["__dummy__"] = On
        /\ \A r \in DOMAIN rules : r # "__dummy__" => r \in DOMAIN f /\ rules[r] = f[r]
    BY <1>2 DEF Put
  <1>4. /\ \A r \in DOMAIN f :
              \E k \in 1 .. 17 :
                 /\ r \in DOMAIN w(k) /\ f[r] = w(k)[r]
                 /\ \A j \in 1 .. 17 : k < j => r \notin DOMAIN w(j)
        /\ \A k \in 1 .. 17 : DOMAIN w(k) \subseteq DOMAIN f
    BY <1>1 DEF LastWrites
  <1>5. \A k \in 1 .. 17 :
           /\ \A r \in DOMAIN w(k) : Table(m, k, r, w(k)[r])
           /\ k # 15 => \A r, v : Table(m, k, r, v) => r \in DOMAIN w(k)
    BY Written
  <1> HIDE DEF f, rules, w
  <1>6. ASSUME NEW r \in DOMAIN rules, r # "__dummy__"
        PROVE  \E k \in 1 .. 17 :
                  /\ Table(m, k, r, rules[r])
                  /\ \A j \in 1 .. 17 : k < j /\ j # 15 => \A v : ~ Table(m, j, r, v)
    <2>1. r \in DOMAIN f /\ rules[r] = f[r]
      BY <1>3, <1>6
    <2>2. PICK k \in 1 .. 17 :
             /\ r \in DOMAIN w(k) /\ f[r] = w(k)[r]
             /\ \A j \in 1 .. 17 : k < j => r \notin DOMAIN w(j)
      BY <1>4, <2>1
    <2>3. Table(m, k, r, rules[r])
      BY <1>5, <2>1, <2>2
    <2>4. \A j \in 1 .. 17 : k < j /\ j # 15 => \A v : ~ Table(m, j, r, v)
      BY <1>5, <2>2
    <2>5. QED
      BY <2>3, <2>4
  <1>7. \A k \in 1 .. 17 : \A r, v : k # 15 /\ Table(m, k, r, v) => r \in DOMAIN rules
    BY <1>3, <1>4, <1>5
  <1>8. QED
    BY <1>3, <1>6, <1>7 DEF rules

\* The formats by the adapters of theirs.
LEMMA FormatNames ==
    /\ Adapters[3].name = "creditcard" /\ Adapters[4].name = "date"
    /\ Adapters[5].name = "digits" /\ Adapters[6].name = "email"
    /\ Adapters[7].name = "number" /\ Adapters[8].name = "url"
  BY AdapterList DEF AddBool

LEMMA FormatAt ==
    ASSUME NEW k \in 3 .. 8
    PROVE  Adapters[k].name \in Formats
  <1>1. k = 3 \/ k = 4 \/ k = 5 \/ k = 6 \/ k = 7 \/ k = 8
    OBVIOUS
  <1>2. QED
    BY <1>1, FormatNames DEF Formats

LEMMA Arguments ==
    /\ On.defined = TRUE /\ Undefined.defined = FALSE
    /\ \A args : With(args).defined = TRUE /\ With(args).args = args
    /\ \A x : <<x>>[1] = x
    /\ \A x, y : <<x, y>>[1] = x /\ <<x, y>>[2] = y
  BY DEF On, Undefined, With

\* A rule without a method is of one of three attributes.
LEMMA WithoutMethod ==
    ASSUME NEW m, NEW k \in 1 .. 17, NEW r, NEW v, Table(m, k, r, v), r \notin Methods
    PROVE  m.said \cap {"creditcard", "extension", "fileextensions"} # {}
  <1>1. CASE k \in 3 .. 8
    <2>1. r = Adapters[k].name /\ r \in m.said
      BY <1>1 DEF Table
    <2>2. r \in Formats
      BY <1>1, <2>1, FormatAt
    <2>3. r = "creditcard"
      BY <2>2 DEF Formats, Methods
    <2>4. QED
      BY <2>1, <2>3
  <1>2. CASE k \notin 3 .. 8
    BY <1>2 DEF Table, Methods
  <1>3. QED
    BY <1>1, <1>2

\* What each rule holds of.
LEMMA HoldsMeans ==
    ASSUME NEW t, NEW args
    PROVE  /\ Holds("__dummy__", args, t) /\ Holds("remote", args, t)
           /\ Holds("required", args, t) <=> t.length > 0
           /\ Holds("minlength", args, t) <=> t.length = 0 \/ t.length >= args[1]
           /\ Holds("maxlength", args, t) <=> t.length = 0 \/ t.length <= args[1]
           /\ Holds("rangelength", args, t) <=>
                t.length = 0 \/ t.length \in args[1] .. args[2]
           /\ Holds("range", args, t) <=> t.length = 0 \/ t.number \in args[1] .. args[2]
           /\ Holds("equalTo", args, t) <=> t = OtherFields[args[1]]
           /\ Holds("regex", args, t) <=> t.length = 0 \/ args[1] \in t.fits
           /\ Holds("nonalphamin", args, t) <=> t.nonword > 0 /\ t.nonword >= args[1]
           /\ \A r \in Formats : Holds(r, args, t) <=> t.length = 0 \/ r \in t.fits
  BY DEF Holds, Optional, FitsPattern, NonAlphaMin, Formats

-----------------------------------------------------------------------------
(* What is refused, and what is let through.                               *)

\* The parameters that are numbers.
LEMMA NumbersGiven ==
    ASSUME NEW m, IsMarkup(m)
    PROVE  \A a, p : <<a, p>> \in Numbers /\ Given(m, a, p) => m.param[<<a, p>>] \in Nat
  BY DEF IsMarkup, Given

\* A rule that does not hold of a text comes from an attribute that does not allow it.
LEMMA FailureExplained ==
    ASSUME NEW m, IsMarkup(m), NEW t, IsText(t), NEW k \in 1 .. 17, NEW r, NEW v,
           Table(m, k, r, v), v.defined, ~ Holds(r, v.args, t)
    PROVE  ~ Allows(m, t) \/ AsksMore(m, t) \/ OneSided(m) \/ r \notin Methods
  <1>1. t.length \in Nat /\ t.number \in Nat /\ t.nonword \in Nat
    BY DEF IsText
  <1>2. t.length # 0 => t.length > 0
    BY <1>1
  <1>3. \A a, p : Param(m, a, p).args = <<m.param[<<a, p>>]>>
    BY Arguments DEF Param
  <1>4. \A a, p : Maybe(m, a, p).defined =>
                     Given(m, a, p) /\ Maybe(m, a, p).args = <<m.param[<<a, p>>]>>
    BY <1>3, Arguments DEF Maybe
  <1>5. CASE k \in {1, 17}
    BY <1>5 DEF Table, Methods
  <1>6. CASE k = 2
    <2>1. r = "regex" /\ v = Maybe(m, "regex", "pattern")
      BY <1>6 DEF Table
    <2>2. /\ Given(m, "regex", "pattern") /\ t.length > 0
          /\ m.param[<<"regex", "pattern">>] \notin t.fits
      BY <1>2, <1>4, <2>1, HoldsMeans, Arguments
    <2>3. QED
      BY <2>2 DEF Allows, Patterns, Given
  <1>7. CASE k \in 3 .. 8
    <2>1. r \in Formats /\ r \in m.said
      BY <1>7, FormatAt DEF Table
    <2>2. t.length > 0 /\ r \notin t.fits
      BY <1>2, <2>1, HoldsMeans
    <2>3. QED
      BY <2>1, <2>2 DEF Allows
  <1>8. CASE k \in {9, 11, 12}
    <2>1. r \in {"minlength", "maxlength", "rangelength"}
      BY <1>8 DEF Table
    <2>2. t.length > 0
      BY <1>2, <2>1, HoldsMeans
    <2>3. CASE r = "minlength"
      <3>1. PICK a \in {"length", "minlength"} : Given(m, a, "min") /\ v = Param(m, a, "min")
        BY <1>8, <2>3 DEF Table
      <3>2. m.param[<<a, "min">>] \in Nat
        BY <3>1, NumbersGiven DEF Numbers
      <3>3. ~ (t.length >= m.param[<<a, "min">>])
        BY <1>3, <2>3, <3>1, HoldsMeans, Arguments
      <3>4. ~ AtLeast(m, a, t.length)
        BY <3>1, <3>3 DEF AtLeast
      <3>5. QED
        BY <2>2, <3>4 DEF Allows
    <2>4. CASE r = "maxlength"
      <3>1. PICK a \in {"length", "maxlength"} : Given(m, a, "max") /\ v = Param(m, a, "max")
        BY <1>8, <2>4 DEF Table
      <3>2. ~ (t.length <= m.param[<<a, "max">>])
        BY <1>3, <2>4, <3>1, HoldsMeans, Arguments
      <3>3. ~ AtMost(m, a, t.length)
        BY <3>1, <3>2 DEF AtMost
      <3>4. QED
        BY <2>2, <3>3 DEF Allows
    <2>5. CASE r = "rangelength"
      <3> DEFINE low == m.param[<<"length", "min">>]
                 high == m.param[<<"length", "max">>]
      <3>1. /\ Given(m, "length", "min") /\ Given(m, "length", "max")
            /\ v = With(<<low, high>>)
        BY <1>8, <2>5 DEF Table
      <3>2. low \in Nat /\ high \in Nat
        BY <3>1, NumbersGiven DEF Numbers
      <3> HIDE DEF low, high
      <3>3. t.length \notin low .. high
        BY <2>5, <3>1, HoldsMeans, Arguments
      <3>4. ~ (t.length >= low) \/ ~ (t.length <= high)
        BY <1>1, <3>2, <3>3
      <3>5. ~ AtLeast(m, "length", t.length) \/ ~ AtMost(m, "length", t.length)
        BY <3>1, <3>4 DEF AtLeast, AtMost, low, high
      <3>6. QED
        BY <2>2, <3>5 DEF Allows
    <2>6. QED
      BY <2>1, <2>3, <2>4, <2>5
  <1>9. CASE k = 10
    <2>1. r \in {"min", "max", "range"}
      BY <1>9 DEF Table
    <2> DEFINE low == m.param[<<"range", "min">>]
               high == m.param[<<"range", "max">>]
    <2>3. CASE r \in {"min", "max"}
      BY <1>9, <2>3 DEF Table, OneSided
    <2>5. CASE r = "range"
      <3>1. /\ Given(m, "range", "min") /\ Given(m, "range", "max")
            /\ v = With(<<low, high>>)
        BY <1>9, <2>5 DEF Table
      <3>2. low \in Nat /\ high \in Nat
        BY <3>1, NumbersGiven DEF Numbers
      <3> HIDE DEF low, high
      <3>3. t.number \notin low .. high
        BY <2>5, <3>1, HoldsMeans, Arguments
      <3>4. ~ (t.number >= low) \/ ~ (t.number <= high)
        BY <1>1, <3>2, <3>3
      <3>5. ~ AtLeast(m, "range", t.number) \/ ~ AtMost(m, "range", t.number)
        BY <3>1, <3>4 DEF AtLeast, AtMost, low, high
      <3>6. t.length > 0
        BY <1>2, <2>5, HoldsMeans
      <3>7. QED
        BY <3>1, <3>5, <3>6 DEF Allows, OneSided
    <2>6. QED
      BY <2>1, <2>3, <2>5
  <1>10. CASE k = 13
    <2> DEFINE other == FullOtherName(m.param[<<"equalto", "other">>])
    <2>1. /\ r = "equalTo" /\ "equalto" \in m.said
          /\ v = IF other \in DOMAIN OtherFields THEN With(<<other>>) ELSE Undefined
      BY <1>10 DEF Table
    <2> HIDE DEF other
    <2>2. other \in DOMAIN OtherFields /\ t # OtherFields[other]
      BY <2>1, HoldsMeans, Arguments
    <2>3. QED
      BY <2>1, <2>2 DEF AsksMore, other
  <1>11. CASE k = 14
    <2>1. r = "required" /\ "required" \in m.said /\ ~ m.checkbox
      BY <1>11 DEF Table
    <2>2. ~ (t.length > 0)
      BY <2>1, HoldsMeans
    <2>3. QED
      BY <2>1, <2>2 DEF Allows
  <1>12. CASE k = 15
    BY <1>12, HoldsMeans DEF Table
  <1>13. CASE k = 16
    <2>1. CASE r = "minlength"
      <3>1. Given(m, "password", "min") /\ v = Param(m, "password", "min")
        BY <1>13, <2>1 DEF Table
      <3>2. t.length > 0 /\ ~ (t.length >= m.param[<<"password", "min">>])
        BY <1>2, <1>3, <2>1, <3>1, HoldsMeans, Arguments
      <3>3. ~ AtLeast(m, "password", t.length)
        BY <3>1, <3>2 DEF AtLeast
      <3>4. QED
        BY <3>2, <3>3 DEF Allows
    <2>2. CASE r = "nonalphamin"
      <3> DEFINE n == m.param[<<"password", "nonalphamin">>]
      <3>1. Given(m, "password", "nonalphamin") /\ v = Param(m, "password", "nonalphamin")
        BY <1>13, <2>2 DEF Table
      <3>2. n \in Nat
        BY <3>1, NumbersGiven DEF Numbers
      <3>3. ~ (t.nonword > 0 /\ t.nonword >= n)
        BY <1>3, <2>2, <3>1, HoldsMeans, Arguments
      <3> HIDE DEF n
      <3>4. t.nonword = 0 \/ t.nonword < n
        BY <1>1, <3>2, <3>3
      <3>5. QED
        BY <3>1, <3>4 DEF AsksMore, n
    <2>3. CASE r = "regex"
      <3>1. Given(m, "password", "regex") /\ v = Param(m, "password", "regex")
        BY <1>13, <2>3 DEF Table
      <3>2. t.length > 0 /\ m.param[<<"password", "regex">>] \notin t.fits
        BY <1>2, <1>3, <2>3, <3>1, HoldsMeans, Arguments
      <3>3. QED
        BY <3>1, <3>2 DEF Allows, Patterns, Given
    <2>4. QED
      BY <1>13, <2>1, <2>2, <2>3 DEF Table
  <1>14. QED
    BY <1>5, <1>6, <1>7, <1>8, <1>9, <1>10, <1>11, <1>12, <1>13

\* The check of t goes through all rules.
AllHold(rules, t) ==
    \A r \in DOMAIN rules :
       rules[r].defined => r \in Methods /\ Holds(r, rules[r].args, t)

\* No two of these attributes want the same rule with different arguments.
LEMMA NoClash ==
    ASSUME NEW m, ~ Clash(m)
    PROVE  LET alone == ~ (Given(m, "length", "min") /\ Given(m, "length", "max"))
               Same(a, p, b, q) == Given(m, a, p) /\ Given(m, b, q) =>
                                     m.param[<<a, p>>] = m.param[<<b, q>>]
           IN  /\ Same("minlength", "min", "password", "min")
               /\ alone => Same("length", "min", "minlength", "min")
               /\ alone => Same("length", "min", "password", "min")
               /\ alone => Same("length", "max", "maxlength", "max")
               /\ Same("regex", "pattern", "password", "regex")
  BY SMTT(30) DEF Clash, Given

\* A rule that the table says an adapter sets has its value, if no adapter could have
\* set it otherwise.
LEMMA OnlyValue ==
    ASSUME NEW m, IsMarkup(m), NEW k \in 1 .. 17, k # 15,
           NEW r, NEW v, Table(m, k, r, v),
           \A j \in 1 .. 17 : \A u : Table(m, j, r, u) => u = v
    PROVE  r \in DOMAIN Parsed(m).rules /\ Parsed(m).rules[r] = v
  <1> DEFINE rules == Parsed(m).rules
  <1>1. r \in DOMAIN rules
    BY ParsedRules
  <1>2. \/ r = "__dummy__"
        \/ \E j \in 1 .. 17 : Table(m, j, r, rules[r])
    BY <1>1, ParsedRules
  <1>3. r # "__dummy__"
    <2>1. CASE k \in 3 .. 8
      BY <2>1, FormatAt DEF Table, Formats
    <2>2. CASE k \notin 3 .. 8
      BY <2>2 DEF Table
    <2>3. QED
      BY <2>1, <2>2
  <1>4. QED
    BY <1>1, <1>2, <1>3

\* The bounds of the length.
LEMMA LeastHolds ==
    ASSUME NEW m, IsMarkup(m), ~ Clash(m), NEW t, IsText(t),
           AllHold(Parsed(m).rules, t), t.length > 0
    PROVE  /\ AtLeast(m, "length", t.length) /\ AtMost(m, "length", t.length)
           /\ AtLeast(m, "minlength", t.length) /\ AtLeast(m, "password", t.length)
           /\ AtMost(m, "maxlength", t.length)
  <1> DEFINE rules == Parsed(m).rules
             low == m.param[<<"length", "min">>]
             high == m.param[<<"length", "max">>]
  <1>1. t.length \in Nat /\ t.length # 0
    BY DEF IsText
  <1>2. \A k, r, v : Table(m, k, r, v) /\ r = "minlength" =>
           \E a \in {"length", "minlength", "password"} :
              /\ Given(m, a, "min") /\ v = Param(m, a, "min")
              /\ a = "length" => ~ Given(m, "length", "max")
    <2> SUFFICES ASSUME NEW k, NEW v, Table(m, k, "minlength", v)
                 PROVE  \E a \in {"length", "minlength", "password"} :
                           /\ Given(m, a, "min") /\ v = Param(m, a, "min")
                           /\ a = "length" => ~ Given(m, "length", "max")
      OBVIOUS
    <2>1. k \notin 3 .. 8
      <3>1. "minlength" \notin Formats
        BY DEF Formats
      <3>2. k \in 3 .. 8 => Adapters[k].name \in Formats
        BY FormatAt
      <3>3. k \in 3 .. 8 => Adapters[k].name = "minlength"
        BY DEF Table
      <3>4. QED
        BY <3>1, <3>2, <3>3
    <2>2. QED
      BY <2>1 DEF Table
  <1>3. \A k, r, v : Table(m, k, r, v) /\ r = "maxlength" =>
           \E a \in {"length", "maxlength"} :
              /\ Given(m, a, "max") /\ v = Param(m, a, "max")
              /\ a = "length" => ~ Given(m, "length", "min")
    <2> SUFFICES ASSUME NEW k, NEW v, Table(m, k, "maxlength", v)
                 PROVE  \E a \in {"length", "maxlength"} :
                           /\ Given(m, a, "max") /\ v = Param(m, a, "max")
                           /\ a = "length" => ~ Given(m, "length", "min")
      OBVIOUS
    <2>1. k \notin 3 .. 8
      <3>1. "maxlength" \notin Formats
        BY DEF Formats
      <3>2. k \in 3 .. 8 => Adapters[k].name \in Formats
        BY FormatAt
      <3>3. k \in 3 .. 8 => Adapters[k].name = "maxlength"
        BY DEF Table
      <3>4. QED
        BY <3>1, <3>2, <3>3
    <2>2. QED
      BY <2>1 DEF Table
  <1>4. \A a, p : Param(m, a, p).defined /\ Param(m, a, p).args[1] = m.param[<<a, p>>]
    BY Arguments DEF Param
  \* One bound alone.
  <1>5. ASSUME NEW a \in {"length", "minlength", "password"}, Given(m, a, "min"),
               a = "length" => ~ Given(m, "length", "max")
        PROVE  AtLeast(m, a, t.length)
    <2>1. \E k \in 1 .. 17 : k # 15 /\ Table(m, k, "minlength", Param(m, a, "min"))
      BY <1>5 DEF Table
    <2>2. \A b \in {"length", "minlength", "password"} :
             Given(m, b, "min") /\ (b = "length" => ~ Given(m, "length", "max")) =>
               Param(m, b, "min") = Param(m, a, "min")
      <3>1. \A b \in {"length", "minlength", "password"} :
               Given(m, b, "min") /\ (b = "length" => ~ Given(m, "length", "max")) =>
                 m.param[<<b, "min">>] = m.param[<<a, "min">>]
        BY <1>5, NoClash
      <3>2. QED
        BY <3>1 DEF Param
    <2>3. "minlength" \in DOMAIN rules /\ rules["minlength"] = Param(m, a, "min")
      BY <1>2, <2>1, <2>2, OnlyValue
    <2>4. Holds("minlength", Param(m, a, "min").args, t)
      BY <1>4, <2>3 DEF AllHold
    <2>5. QED
      BY <1>1, <1>4, <2>4, HoldsMeans DEF AtLeast
  <1>6. ASSUME NEW a \in {"length", "maxlength"}, Given(m, a, "max"),
               a = "length" => ~ Given(m, "length", "min")
        PROVE  AtMost(m, a, t.length)
    <2>1. \E k \in 1 .. 17 : k # 15 /\ Table(m, k, "maxlength", Param(m, a, "max"))
      BY <1>6 DEF Table
    <2>2. \A b \in {"length", "maxlength"} :
             Given(m, b, "max") /\ (b = "length" => ~ Given(m, "length", "min")) =>
               Param(m, b, "max") = Param(m, a, "max")
      <3>1. \A b \in {"length", "maxlength"} :
               Given(m, b, "max") /\ (b = "length" => ~ Given(m, "length", "min")) =>
                 m.param[<<b, "max">>] = m.param[<<a, "max">>]
        BY <1>6, NoClash
      <3>2. QED
        BY <3>1 DEF Param
    <2>3. "maxlength" \in DOMAIN rules /\ rules["maxlength"] = Param(m, a, "max")
      BY <1>3, <2>1, <2>2, OnlyValue
    <2>4. Holds("maxlength", Param(m, a, "max").args, t)
      BY <1>4, <2>3 DEF AllHold
    <2>5. QED
      BY <1>1, <1>4, <2>4, HoldsMeans DEF AtMost
  \* Both bounds.
  <1>7. ASSUME Given(m, "length", "min"), Given(m, "length", "max")
        PROVE  AtLeast(m, "length", t.length) /\ AtMost(m, "length", t.length)
    <2>1. low \in Nat /\ high \in Nat
      BY <1>7, NumbersGiven DEF Numbers
    <2>2. Table(m, 9, "rangelength", With(<<low, high>>))
      BY <1>7 DEF Table
    <2>3. \A k \in 1 .. 17 : \A u : Table(m, k, "rangelength", u) => u = With(<<low, high>>)
      <3>1. "rangelength" \notin Formats
        BY DEF Formats
      <3>2. \A k \in 3 .. 8 : Adapters[k].name \in Formats
        BY FormatAt
      <3>3. QED
        BY <3>1, <3>2 DEF Table
    <2>4. "rangelength" \in DOMAIN rules /\ rules["rangelength"] = With(<<low, high>>)
      BY <2>2, <2>3, OnlyValue
    <2> HIDE DEF low, high
    <2>5. t.length \in low .. high
      BY <1>1, <2>4, HoldsMeans, Arguments DEF AllHold
    <2>6. t.length >= low /\ t.length <= high
      BY <1>1, <2>1, <2>5
    <2>7. QED
      BY <2>6 DEF AtLeast, AtMost, low, high
  <1>8. AtLeast(m, "length", t.length) /\ AtMost(m, "length", t.length)
    BY <1>5, <1>6, <1>7 DEF AtLeast, AtMost
  <1>9. QED
    BY <1>5, <1>6, <1>8 DEF AtLeast, AtMost

\* A rule that is no format is not set by an adapter for a format.
LEMMA NoFormat ==
    ASSUME NEW m, NEW k, NEW r, NEW v, r \notin Formats, Table(m, k, r, v)
    PROVE  k \notin 3 .. 8
  BY FormatAt DEF Table

\* The bounds of the number.
LEMMA NumberHolds ==
    ASSUME NEW m, IsMarkup(m), NEW t, IsText(t),
           AllHold(Parsed(m).rules, t), t.length > 0, ~ OneSided(m)
    PROVE  AtLeast(m, "range", t.number) /\ AtMost(m, "range", t.number)
  <1> DEFINE rules == Parsed(m).rules
             low == m.param[<<"range", "min">>]
             high == m.param[<<"range", "max">>]
  <1>1. t.length \in Nat /\ t.length # 0 /\ t.number \in Nat
    BY DEF IsText
  <1>2. \A k, r, v : r \in {"min", "max", "range"} /\ Table(m, k, r, v) => k \notin 3 .. 8
    BY NoFormat DEF Formats
  <1>6. ASSUME Given(m, "range", "min"), Given(m, "range", "max")
        PROVE  AtLeast(m, "range", t.number) /\ AtMost(m, "range", t.number)
    <2>1. low \in Nat /\ high \in Nat
      BY <1>6, NumbersGiven DEF Numbers
    <2>2. Table(m, 10, "range", With(<<low, high>>))
      BY <1>6 DEF Table
    <2>3. \A k \in 1 .. 17 : \A u : Table(m, k, "range", u) => u = With(<<low, high>>)
      BY <1>2 DEF Table
    <2>4. "range" \in DOMAIN rules /\ rules["range"] = With(<<low, high>>)
      BY <2>2, <2>3, OnlyValue
    <2> HIDE DEF low, high
    <2>5. t.number \in low .. high
      BY <1>1, <2>4, HoldsMeans, Arguments DEF AllHold
    <2>6. t.number >= low /\ t.number <= high
      BY <1>1, <2>1, <2>5
    <2>7. QED
      BY <2>6 DEF AtLeast, AtMost, low, high
  <1>7. QED
    BY <1>6 DEF AtLeast, AtMost, OneSided

\* The formats.
LEMMA FormatsHold ==
    ASSUME NEW m, IsMarkup(m), NEW t, IsText(t),
           AllHold(Parsed(m).rules, t), t.length > 0
    PROVE  m.said \cap Formats \subseteq t.fits
  <1> DEFINE rules == Parsed(m).rules
  <1>1. SUFFICES ASSUME NEW f \in m.said \cap Formats
                 PROVE  f \in t.fits
    OBVIOUS
  <1>2. PICK k \in 3 .. 8 : Adapters[k].name = f
    BY FormatNames DEF Formats
  <1>3. k \in 1 .. 17 /\ k # 15
    OBVIOUS
  <1>4. Table(m, k, f, On)
    BY <1>2 DEF Table
  <1>5. \A j \in 1 .. 17 : \A u : Table(m, j, f, u) => u = On
    BY DEF Table, Formats
  <1>6. f \in DOMAIN rules /\ rules[f] = On
    <2> HIDE DEF rules
    <2>1. f \in DOMAIN Parsed(m).rules /\ Parsed(m).rules[f] = On
      BY <1>3, <1>4, <1>5, OnlyValue
    <2>2. QED
      BY <2>1 DEF rules
  <1>7. Holds(f, On.args, t)
    BY <1>6, Arguments DEF AllHold
  <1>8. t.length # 0
    BY DEF IsText
  <1>9. QED
    BY <1>7, <1>8, HoldsMeans

\* The patterns.
LEMMA PatternsHold ==
    ASSUME NEW m, IsMarkup(m), ~ Clash(m), NEW t, IsText(t),
           AllHold(Parsed(m).rules, t), t.length > 0
    PROVE  \A p \in Patterns \cap DOMAIN m.param : m.param[p] \in t.fits
  <1> DEFINE rules == Parsed(m).rules
  <1>1. t.length # 0
    BY DEF IsText
  <1>2. \A a, p : Given(m, a, p) => a \in m.said
    BY MarkupMeans
  <1>3. \A a, p : Param(m, a, p).defined /\ Param(m, a, p).args[1] = m.param[<<a, p>>]
    BY Arguments DEF Param
  \* The two rules without a method are not there.
  <1>4. ~ Given(m, "extension", "extension")
    <2> SUFFICES ASSUME Given(m, "extension", "extension") PROVE FALSE
      OBVIOUS
    <2> DEFINE v == Param(m, "extension", "extension")
    <2>1. Table(m, 1, "accept", v)
      BY <1>2 DEF Table, Maybe
    <2>2. \A k \in 1 .. 17 : \A u : Table(m, k, "accept", u) => u = v
      <3>1. \A k, u : Table(m, k, "accept", u) => k \notin 3 .. 8
        BY NoFormat DEF Formats
      <3>2. QED
        BY <3>1 DEF Table, Maybe
    <2>3. "accept" \in DOMAIN rules /\ rules["accept"].defined
      BY <1>3, <2>1, <2>2, OnlyValue
    <2>4. QED
      BY <2>3 DEF AllHold, Methods
  <1>5. ~ Given(m, "fileextensions", "extensions")
    <2> SUFFICES ASSUME Given(m, "fileextensions", "extensions") PROVE FALSE
      OBVIOUS
    <2> DEFINE v == Param(m, "fileextensions", "extensions")
    <2>1. Table(m, 17, "extension", v)
      BY <1>2 DEF Table, Maybe
    <2>2. \A k \in 1 .. 17 : \A u : Table(m, k, "extension", u) => u = v
      <3>1. \A k, u : Table(m, k, "extension", u) => k \notin 3 .. 8
        BY NoFormat DEF Formats
      <3>2. QED
        BY <3>1 DEF Table, Maybe
    <2>3. "extension" \in DOMAIN rules /\ rules["extension"].defined
      BY <1>3, <2>1, <2>2, OnlyValue
    <2>4. QED
      BY <2>3 DEF AllHold, Methods
  <1>6. \A k, u : Table(m, k, "regex", u) =>
           \/ k = 2 /\ "regex" \in m.said /\ u = Maybe(m, "regex", "pattern")
           \/ k = 16 /\ Given(m, "password", "regex") /\ u = Param(m, "password", "regex")
    <2>1. \A k, u : Table(m, k, "regex", u) => k \notin 3 .. 8
      BY NoFormat DEF Formats
    <2>2. QED
      BY <2>1 DEF Table
  <1>7. Given(m, "regex", "pattern") => Table(m, 2, "regex", Param(m, "regex", "pattern"))
    BY <1>2 DEF Table, Maybe
  <1>8. Given(m, "password", "regex") => Table(m, 16, "regex", Param(m, "password", "regex"))
    BY DEF Table
  \* Of two adapters that set the regex, the later has it, and both want the same.
  <1>9. ASSUME NEW p, p = <<"regex", "pattern">> \/ p = <<"password", "regex">>,
               p \in DOMAIN m.param
        PROVE  m.param[p] \in t.fits
    <2>1. Given(m, "regex", "pattern") \/ Given(m, "password", "regex")
      BY <1>9 DEF Given
    <2>2. "regex" \in DOMAIN rules
      BY <1>7, <1>8, <2>1, ParsedRules
    <2>3. PICK k \in 1 .. 17 :
             /\ Table(m, k, "regex", rules["regex"])
             /\ \A j \in 1 .. 17 : k < j /\ j # 15 => \A v : ~ Table(m, j, "regex", v)
      BY <2>2, ParsedRules
    <2>4. \/ /\ Given(m, "password", "regex")
             /\ rules["regex"] = Param(m, "password", "regex")
          \/ /\ ~ Given(m, "password", "regex")
             /\ rules["regex"] = Maybe(m, "regex", "pattern")
      BY <1>6, <1>8, <2>3
    <2>5. /\ rules["regex"].defined
          /\ rules["regex"].args[1] = m.param[p]
      <3>1. Given(m, "password", "regex") /\ Given(m, "regex", "pattern") =>
               m.param[<<"password", "regex">>] = m.param[<<"regex", "pattern">>]
        BY NoClash
      <3>2. CASE Given(m, "password", "regex")
        <4>1. m.param[p] = m.param[<<"password", "regex">>]
          BY <1>9, <3>1, <3>2 DEF Given
        <4>2. QED
          BY <1>3, <2>4, <3>2, <4>1
      <3>3. CASE ~ Given(m, "password", "regex")
        <4>1. p = <<"regex", "pattern">> /\ Given(m, "regex", "pattern")
          BY <1>9, <3>3 DEF Given
        <4>2. rules["regex"] = Param(m, "regex", "pattern")
          BY <2>4, <3>3, <4>1 DEF Maybe
        <4>3. QED
          BY <1>3, <4>1, <4>2
      <3>4. QED
        BY <3>2, <3>3
    <2>6. Holds("regex", rules["regex"].args, t)
      BY <2>2, <2>5 DEF AllHold
    <2> HIDE DEF rules
    <2>7. QED
      BY <1>1, <2>5, <2>6, HoldsMeans
  <1>10. QED
    BY <1>4, <1>5, <1>9 DEF Patterns, Given

\* A text that all rules hold of is one the attributes allow.
LEMMA HoldingIsAllowed ==
    ASSUME NEW m, IsMarkup(m), ~ Clash(m), NEW t, IsText(t),
           AllHold(Parsed(m).rules, t)
    PROVE  Allows(m, t)
  <1> DEFINE rules == Parsed(m).rules
  <1>1. ASSUME "required" \in m.said, ~ m.checkbox
        PROVE  t.length > 0
    <2>1. Table(m, 14, "required", On)
      BY <1>1 DEF Table
    <2>2. \A k \in 1 .. 17 : \A u : Table(m, k, "required", u) => u = On
      BY DEF Table
    <2>3. "required" \in DOMAIN rules /\ rules["required"] = On
      BY <2>1, <2>2, OnlyValue
    <2>4. QED
      BY <2>3, HoldsMeans, Arguments DEF AllHold
  <1>2. ASSUME t.length > 0
        PROVE  /\ \A a \in {"length", "minlength", "password"} : AtLeast(m, a, t.length)
               /\ \A a \in {"length", "maxlength"} : AtMost(m, a, t.length)
    BY <1>2, LeastHolds
  <1>3. QED
    BY <1>1, <1>2, NumberHolds, FormatsHold, PatternsHold DEF Allows

\* Nor does it miss what the attributes ask for besides.
LEMMA HoldingAsksNoMore ==
    ASSUME NEW m, IsMarkup(m), NEW t, IsText(t), AllHold(Parsed(m).rules, t)
    PROVE  ~ AsksMore(m, t)
  <1> DEFINE rules == Parsed(m).rules
             n == m.param[<<"password", "nonalphamin">>]
             other == FullOtherName(m.param[<<"equalto", "other">>])
  <1>1. ASSUME Given(m, "password", "nonalphamin")
        PROVE  ~ (t.nonword = 0 \/ t.nonword < n)
    <2> DEFINE v == Param(m, "password", "nonalphamin")
    <2>1. Table(m, 16, "nonalphamin", v)
      BY <1>1 DEF Table
    <2>2. \A k \in 1 .. 17 : \A u : Table(m, k, "nonalphamin", u) => u = v
      <3>1. \A k, u : Table(m, k, "nonalphamin", u) => k \notin 3 .. 8
        BY NoFormat DEF Formats
      <3>2. QED
        BY <3>1 DEF Table
    <2>3. "nonalphamin" \in DOMAIN rules /\ rules["nonalphamin"] = v
      BY <2>1, <2>2, OnlyValue
    <2>4. v.defined /\ v.args[1] = n
      BY Arguments DEF Param
    <2>5. Holds("nonalphamin", v.args, t)
      BY <2>3, <2>4 DEF AllHold
    <2> HIDE DEF v, n
    <2>6. t.nonword > 0 /\ t.nonword >= n
      BY <2>4, <2>5, HoldsMeans
    <2>7. n \in Nat
      BY <1>1, NumbersGiven DEF Numbers, n
    <2>8. QED
      BY <2>6, <2>7 DEF IsText
  <1>2. ASSUME "equalto" \in m.said, other \in DOMAIN OtherFields
        PROVE  t = OtherFields[other]
    <2>1. Table(m, 13, "equalTo", With(<<other>>))
      BY <1>2 DEF Table
    <2>2. \A k \in 1 .. 17 : \A u : Table(m, k, "equalTo", u) => u = With(<<other>>)
      <3>1. \A k, u : Table(m, k, "equalTo", u) => k \notin 3 .. 8
        BY NoFormat DEF Formats
      <3>2. QED
        BY <1>2, <3>1 DEF Table
    <2>3. "equalTo" \in DOMAIN rules /\ rules["equalTo"] = With(<<other>>)
      BY <2>1, <2>2, OnlyValue
    <2> HIDE DEF other
    <2>4. Holds("equalTo", <<other>>, t)
      BY <2>3, Arguments DEF AllHold
    <2>5. QED
      BY <2>4, HoldsMeans, Arguments
  <1>3. QED
    BY <1>1, <1>2 DEF AsksMore

\* What a verdict says of the rules.
LEMMA VerdictMeans ==
    ASSUME NEW rules, NEW t, NEW verdict \in Verdicts(rules, t)
    PROVE  /\ verdict = "ok" => AllHold(rules, t)
           /\ verdict = "refused" =>
                \E r \in DOMAIN rules \cap Methods :
                   rules[r].defined /\ ~ Holds(r, rules[r].args, t)
           /\ verdict = "throws" => \E r \in DOMAIN rules : r \notin Methods
  <1> DEFINE set == {r \in DOMAIN rules : rules[r].defined}
             failing == {r \in set \cap Methods : ~ Holds(r, rules[r].args, t)}
  <1>1. \/ verdict = "refused" /\ failing # {}
        \/ verdict = "ok" /\ set \subseteq Methods /\ failing = {}
        \/ verdict = "throws" /\ ~ (set \subseteq Methods)
    <2>1. Verdicts(rules, t) =
            CASE "required" \in failing -> {"refused"}
              [] set \subseteq Methods /\ failing = {} -> {"ok"}
              [] set \subseteq Methods /\ failing # {} -> {"refused"}
              [] OTHER -> {"throws"} \cup (IF failing = {} THEN {} ELSE {"refused"})
      BY DEF Verdicts
    <2> HIDE DEF failing, set
    <2>2. "required" \in failing =>
             ~ (set \subseteq Methods /\ failing = {})
      OBVIOUS
    <2>3. CASE "required" \in failing
      <3>1. Verdicts(rules, t) = {"refused"}
        BY <2>1, <2>3
      <3>2. QED
        BY <2>3, <3>1
    <2>4. CASE "required" \notin failing
      BY <2>1, <2>4
    <2>5. QED
      BY <2>3, <2>4
  <1>2. QED
    BY <1>1 DEF AllHold

\* The verdict on a text, of the rules of an input that was parsed.
LEMMA VerdictAgrees ==
    ASSUME NEW m, IsMarkup(m), NEW t, IsText(t),
           NEW verdict \in Verdicts(Parsed(m).rules, t)
    PROVE  /\ verdict = "refused" => ~ Allows(m, t) \/ AsksMore(m, t) \/ OneSided(m)
           /\ verdict = "ok" /\ ~ Clash(m) => Allows(m, t) /\ ~ AsksMore(m, t)
           /\ verdict = "throws" =>
                m.said \cap {"creditcard", "extension", "fileextensions"} # {}
  <1> DEFINE rules == Parsed(m).rules
  <1>1. ASSUME verdict = "refused"
        PROVE  ~ Allows(m, t) \/ AsksMore(m, t) \/ OneSided(m)
    <2>1. PICK r \in DOMAIN rules \cap Methods :
             rules[r].defined /\ ~ Holds(r, rules[r].args, t)
      BY <1>1, VerdictMeans
    <2>2. r # "__dummy__"
      BY <2>1, HoldsMeans
    <2>3. PICK k \in 1 .. 17 : Table(m, k, r, rules[r])
      BY <2>2, ParsedRules
    <2> HIDE DEF rules
    <2>4. QED
      BY <2>1, <2>3, FailureExplained
  <1>2. ASSUME verdict = "ok", ~ Clash(m)
        PROVE  Allows(m, t) /\ ~ AsksMore(m, t)
    <2>1. AllHold(rules, t)
      BY <1>2, VerdictMeans
    <2>2. QED
      BY <1>2, <2>1, HoldingIsAllowed, HoldingAsksNoMore
  <1>3. ASSUME verdict = "throws"
        PROVE  m.said \cap {"creditcard", "extension", "fileextensions"} # {}
    <2>1. PICK r \in DOMAIN rules : r \notin Methods
      BY <1>3, VerdictMeans
    <2>2. r # "__dummy__"
      BY <2>1 DEF Methods
    <2>3. PICK k \in 1 .. 17 : Table(m, k, r, rules[r])
      BY <2>2, ParsedRules
    <2> HIDE DEF rules
    <2>4. QED
      BY <2>1, <2>3, WithoutMethod
  <1>4. QED
    BY <1>1, <1>2, <1>3

-----------------------------------------------------------------------------
(* The rules the validator has are those of the markup it was made from,        *)
(* whatever is changed and parsed since, and the verdict is theirs.             *)

MadeInv ==
    /\ markup \in Markup \cup Changed /\ madeFrom \in Markup \cup Changed
    /\ inputSettings = NoOptions \/ inputSettings = Parsed(madeFrom)
    /\ lastCheck.done =>
         /\ inputSettings = Parsed(madeFrom)
         /\ lastCheck.text \in Text
         /\ lastCheck.verdict \in Verdicts(inputSettings.rules, lastCheck.text)

LEMMA MadeInit == InputInit => MadeInv
  BY DEF InputInit, MadeInv, NotChecked

LEMMA MadeNext == MadeInv /\ [InputNext]_inputVars => MadeInv'
  <1> SUFFICES ASSUME MadeInv, [InputNext]_inputVars PROVE MadeInv'
    OBVIOUS
  <1>1. CASE ParseMarkup
    <2>1. ~ lastCheck'.done /\ markup' = markup
      BY <1>1 DEF ParseMarkup, NotChecked
    <2>2. CASE inputSettings = NoOptions
      <3>1. inputSettings' = Parsed(markup) /\ madeFrom' = markup
        BY <1>1, <2>2 DEF ParseMarkup
      <3>2. Parsed(madeFrom)' = Parsed(markup)
        BY <3>1 DEF Parsed, ParseOnto, Applied
      <3>3. QED
        BY <2>1, <3>1, <3>2 DEF MadeInv
    <2>3. CASE inputSettings # NoOptions
      <3>1. inputSettings' = inputSettings /\ madeFrom' = madeFrom
        BY <1>1, <2>3 DEF ParseMarkup
      <3>2. QED
        BY <2>1, <3>1 DEF MadeInv
    <2>4. QED
      BY <2>2, <2>3
  <1>2. ASSUME NEW m \in Changed, ChangeMarkup(m)
        PROVE  MadeInv'
    BY <1>2 DEF ChangeMarkup, NotChecked, MadeInv
  <1>3. ASSUME NEW t \in Text, CheckText(t)
        PROVE  MadeInv'
    <2>1. PICK v \in Verdicts(inputSettings.rules, t) :
             lastCheck' = [done |-> TRUE, text |-> t, verdict |-> v]
      BY <1>3 DEF CheckText
    <2>2. /\ lastCheck'.done /\ lastCheck'.text = t /\ lastCheck'.verdict = v
      BY <2>1
    <2>3. markup' = markup /\ madeFrom' = madeFrom /\ inputSettings' = inputSettings
      BY <1>3 DEF CheckText
    <2>4. inputSettings = Parsed(madeFrom)
      BY <1>3 DEF CheckText, MadeInv
    <2>5. Verdicts(inputSettings.rules, lastCheck.text)' = Verdicts(inputSettings.rules, t)
      BY <2>2, <2>3
    <2>6. QED
      BY <2>2, <2>3, <2>4, <2>5 DEF MadeInv
  <1>4. CASE UNCHANGED inputVars
    BY <1>4 DEF inputVars, MadeInv
  <1>5. QED
    BY <1>1, <1>2, <1>3, <1>4 DEF InputNext

\* The verdict of the rules that were made is what ClientAgrees says of it.
LEMMA MadeAgrees == MadeInv => ClientAgrees
  <1> SUFFICES ASSUME MadeInv PROVE ClientAgrees
    OBVIOUS
  <1>1. IsMarkup(madeFrom)
    BY AdaptersAssumption DEF MadeInv
  <1>2. ASSUME lastCheck.done
        PROVE  /\ lastCheck.verdict = "refused" =>
                    \/ ~ Allows(madeFrom, lastCheck.text) \/ AsksMore(madeFrom, lastCheck.text)
                    \/ OneSided(madeFrom)
               /\ lastCheck.verdict = "ok" /\ ~ Clash(madeFrom) =>
                    Allows(madeFrom, lastCheck.text) /\ ~ AsksMore(madeFrom, lastCheck.text)
               /\ lastCheck.verdict = "throws" =>
                    madeFrom.said \cap {"creditcard", "extension", "fileextensions"} # {}
    <2>1. IsText(lastCheck.text)
      BY <1>2, AdaptersAssumption DEF MadeInv
    <2>2. lastCheck.verdict \in Verdicts(Parsed(madeFrom).rules, lastCheck.text)
      BY <1>2 DEF MadeInv
    <2>3. QED
      BY <1>1, <2>1, <2>2, VerdictAgrees
  <1>3. SpeaksFor(inputSettings.messages, madeFrom)
    <2>1. SpeaksFor(NoOptions.messages, madeFrom)
      BY DEF SpeaksFor, NoOptions
    <2>2. Parsed(madeFrom).messages = Applied(NoOptions, madeFrom)[17].messages
      BY AdapterList DEF Parsed, ParseOnto
    <2>3. SpeaksFor(Parsed(madeFrom).messages, madeFrom)
      BY <2>2, MessagesApplied
    <2>4. QED
      BY <2>1, <2>3 DEF MadeInv
  <1>4. QED
    BY <1>2, <1>3 DEF ClientAgrees, SpeaksFor

\* The rules say of every text what the attributes they were made from say of it:
\* whatever the attributes and the texts are, no adapter loses or overrides what
\* another asks for, but for the three clashes of Clash and a range that is bounded
\* at one side only; a check breaks off only for the three attributes whose rules
\* have no method; and what is changed and parsed later leaves the rules as they are.
THEOREM AttributesAreKept == InputSpec => []ClientAgrees
  BY MadeInit, MadeNext, MadeAgrees, PTL DEF InputSpec

=============================================================================
