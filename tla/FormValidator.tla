---------------------------- MODULE FormValidator ----------------------------
(***************************************************************************)
(* jQuery Validate 1.17.0 as the two web applications ship it: the validator *)
(* object of one form.  A handler of the page runs to its end, so that its   *)
(* calls are operators from a validator's state to the next; what comes in   *)
(* between are the answers of the server to "remote" rules.                  *)
(*                                                                          *)
(* The rules of a field are abstracted to what the protocol tells apart:     *)
(* whether it is required, which non-empty values its other local rules      *)
(* accept, and whether the server is asked (remote), with the values of      *)
(* which other fields.  UnobtrusiveAdapters says how markup becomes rules.   *)
(* Every field has the rule __dummy__ as well, hence is never without rules. *)
(***************************************************************************)
EXTENDS ValidationMessages

CONSTANTS Value, Empty,  \* the values of inputs; the empty one
          Required,      \* the fields with the rule required
          Accepted,      \* Accepted[f]: the values that f's local rules accept
          Remote,        \* the fields with the rule remote
          Rides,         \* Rides[f]: the additional fields sent with f
          NoData         \* no request

ASSUME RulesAssumption ==
  /\ Empty \in Value
  /\ Required \subseteq Field
  /\ Remote \subseteq Field
  /\ Accepted \in [Field -> SUBSET Value]
  /\ Rides \in [Field -> SUBSET Field]

VARIABLES
  dom,       \* whether a field is absent from the form, hidden or visible
  value,     \* the value of each input
  attached,  \* whether the form has a validator
  settings,  \* the fields whose rules the validator copied when it was made
  form       \* the state of the validator and the messages of the form

(***************************************************************************)
(* The fields of form are those of the validator object: the names in        *)
(* errorMap and successList, the keys of submitted, invalid and pending, the  *)
(* counter pendingRequest, formSubmitted; previous is the data               *)
(* "previousValue" of an element, ajax the request that is out for a name    *)
(* (own: its answer will be noted in previous).  at, list and summary are     *)
(* the messages.  sent says that the browser sent the form.                  *)
(* verdict (the last answer about a field) and seen (what happened to a      *)
(* field since it was last checked) are history: nothing reads them.         *)
(***************************************************************************)
Present == {f \in Field : dom[f] # "absent"}
Visible == {f \in Field : dom[f] = "visible"}

Carried(f) == {f} \cup Rides[f]
Data(f) == [g \in Carried(f) |-> value[g]]
AnyData == UNION {[{f} \cup Rides[f] -> Value] : f \in Field}

NoPrevious == [old |-> NoData, valid |-> TRUE]
NoRequest == [data |-> NoData, own |-> FALSE]

ASSUME NoDataAssumption == NoData \notin AnyData

PassesLocal(f) == IF value[f] = Empty THEN f \notin Required
                                      ELSE value[f] \in Accepted[f]

(* An empty optional field is not asked about; remote is the last rule. *)
AsksServer(f) == f \in Remote /\ value[f] # Empty /\ value[f] \in Accepted[f]

(* The server is asked once for the same data; until it answers, the field    *)
(* counts as it did before.                                                   *)
Outcome(s, f) ==
  CASE ~PassesLocal(f) -> "error"
    [] PassesLocal(f) /\ ~AsksServer(f) -> "ok"
    [] PassesLocal(f) /\ AsksServer(f) /\ s.previous[f].old # Data(f) -> "pending"
    [] OTHER -> IF s.previous[f].valid THEN "ok" ELSE "error"

(* check of every field of S, after the lists were emptied.  A request takes  *)
(* the place of one that is out for the same name, which is aborted.          *)
CheckCounting(s, S) ==
  LET Of(outcome) == {f \in S : Outcome(s, f) = outcome}
      asked == Of("pending")
  IN  [s EXCEPT
        !.errors = Of("error"),
        !.success = Of("ok"),
        !.submitted = @ \cup Of("error"),
        !.pending = @ \cup asked,
        !.pendingRequest = @ + Cardinality(asked),
        !.previous = [f \in Field |->
            IF f \in asked THEN [old |-> Data(f), valid |-> s.previous[f].valid]
                           ELSE s.previous[f]],
        !.ajax = [f \in Field |->
            IF f \in asked THEN [data |-> Data(f), own |-> TRUE] ELSE s.ajax[f]],
        !.seen = [f \in Field |->
            IF f \in asked THEN "asked" ELSE IF f \in S THEN "fresh" ELSE s.seen[f]]]

Check(s, S) ==
  LET Of(outcome) == {f \in S : Outcome(s, f) = outcome}
      asked == Of("pending")
  IN  [s EXCEPT
        !.errors = Of("error"),
        !.success = Of("ok"),
        !.submitted = @ \cup Of("error"),
        !.pending = @ \cup asked,
        !.pendingRequest = @ + Cardinality(asked \ s.pending),
        !.previous = [f \in Field |->
            IF f \in asked THEN [old |-> Data(f), valid |-> s.previous[f].valid]
                           ELSE s.previous[f]],
        !.ajax = [f \in Field |->
            IF f \in asked THEN [data |-> Data(f), own |-> TRUE] ELSE s.ajax[f]],
        !.seen = [f \in Field |->
            IF f \in asked THEN "asked" ELSE IF f \in S THEN "fresh" ELSE s.seen[f]]]

(* A label is put in the container of each error; a field that passed gets an *)
(* empty label and then the callback success.  With replace the label loses   *)
(* the class it is looked up by, without it is not in the page: the next time *)
(* there is none yet, and errorPlacement runs again.                          *)
ShowLabels(s, errs, oks) ==
  [s EXCEPT !.at = [f \in Field |->
      IF f \in errs \cap Present THEN OnError(s.at[f], f, TRUE)
      ELSE IF f \in oks \cap Present
           THEN OnSuccess(OnError(s.at[f], f, FALSE), f)
           ELSE s.at[f]]]

ShowErrors(s) == ShowLabels(s, s.errors, s.success)

(* Validator.form(): the visible fields it has rules for. *)
Elements == settings \cap Visible

ValidateForm(s) ==
  LET checked == Check(s, Elements)
      counted == [checked EXCEPT !.invalid = checked.errors]
  IN  ShowErrors(IF counted.errors = {} THEN counted ELSE OnErrors(counted))

(* Validator.element(), for an element of the page. *)
ValidateElement(s, f) ==
  LET checked == Check(s, {f} \cap settings)
  IN  ShowErrors([checked EXCEPT !.invalid = @ \cup {f}])

(* The submit handler: a form that passed is held back while a request is out. *)
SubmitUnheld(s) ==
  LET checked == ValidateForm(s)
  IN  IF checked.errors # {} THEN checked
      ELSE [checked EXCEPT !.sent = TRUE]

SubmitForm(s) ==
  LET checked == ValidateForm(s)
  IN  IF checked.errors # {} THEN checked
      ELSE IF checked.pendingRequest > 0
           THEN [checked EXCEPT !.formSubmitted = TRUE]
           ELSE [checked EXCEPT !.sent = TRUE]

(* A request has been answered.  The last answer to a form that was held back *)
(* has it checked again and submitted, unless it does not pass: then it stays *)
(* marked as submitted.                                                       *)
Counted(s, f) ==
  [s EXCEPT !.pendingRequest = IF @ > 0 THEN @ - 1 ELSE 0, !.pending = @ \ {f}]

StopUnreleased(s, f, valid) ==
  LET rest == Counted(s, f)
  IN  IF rest.pendingRequest = 0 /\ rest.formSubmitted /\ ~valid
      THEN [OnErrors(rest) EXCEPT !.formSubmitted = FALSE]
      ELSE rest

StopRequest(s, f, valid) ==
  LET rest == Counted(s, f)
      checked == ValidateForm(rest)
  IN  CASE rest.pendingRequest # 0 \/ ~rest.formSubmitted -> rest
        [] rest.pendingRequest = 0 /\ rest.formSubmitted /\ ~valid ->
             [OnErrors(rest) EXCEPT !.formSubmitted = FALSE]
        [] OTHER ->
             IF checked.errors # {} THEN checked
             ELSE [SubmitForm(checked) EXCEPT !.formSubmitted = FALSE]

(* The request of f is over.  What is seen of f is the answer to what was      *)
(* checked, or comes late.                                                     *)
Received(s, f, valid) ==
  [s EXCEPT !.ajax[f] = NoRequest,
            !.verdict[f] = [old |-> s.ajax[f].data, valid |-> valid],
            !.seen[f] = CASE @ = "edited" -> "edited"
                          [] @ # "edited" /\ s.ajax[f].own /\ s.ajax[f].data = Data(f) -> "fresh"
                          [] OTHER -> "late"]

Noted(s, f, valid) ==
  [s EXCEPT !.previous[f].valid = IF s.ajax[f].own THEN valid ELSE @]

(* The callback for a valid answer: the lists hold f alone. *)
AnswerValid(s, f) ==
  LET shown == ShowErrors([Received(s, f, TRUE) EXCEPT
                             !.errors = {}, !.success = {f},
                             !.invalid = @ \cup {f}])
  IN  StopRequest([shown EXCEPT !.previous = Noted(s, f, TRUE).previous], f, TRUE)

(* The callback for an invalid one adds f to the errors of the last check and  *)
(* looks all of them up in the page by name.                                   *)
WithError(s, f) ==
  LET r == Received(s, f, FALSE)
  IN  [r EXCEPT !.errors = @ \cup {f}, !.success = @ \ {f},
                !.invalid = @ \cup {f},
                !.seen = [g \in Field |->
                   IF g \in s.errors /\ g # f /\ s.seen[g] = "clean"
                   THEN "late" ELSE r.seen[g]]]

AnswerInvalid(s, f) ==
  LET shown == ShowErrors(WithError(s, f))
  IN  StopRequest([shown EXCEPT !.previous = Noted(s, f, FALSE).previous], f, FALSE)

(* An error whose field has left the page has no element: showErrors throws,   *)
(* some labels are shown, and the request is never counted as over.            *)
AnswerThrows(s, f) ==
  LET r == WithError(s, f)
  IN  {ShowLabels(r, shown, {}) : shown \in SUBSET (r.errors \cap Present)}

(* Validator.resetForm(): what is out, and what waits for it, is left alone.   *)
ResetForm(s) ==
  [s EXCEPT !.invalid = {}, !.submitted = {}, !.errors = {}, !.success = {},
            !.previous = [f \in Field |->
               IF f \in Elements THEN NoPrevious ELSE s.previous[f]],
            !.ajax = [f \in Field |->
               IF f \in Elements THEN [s.ajax[f] EXCEPT !.own = FALSE] ELSE s.ajax[f]]]

=============================================================================
