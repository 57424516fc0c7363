------------------------- MODULE ValidationMessages -------------------------
(***************************************************************************)
(* What jquery.validate.unobtrusive does to a page when a form has been     *)
(* checked: the message container of each field (the element whose          *)
(* data-valmsg-for names it) and the summary of the form.  jQuery Validate  *)
(* calls these handlers back, see FormValidator.                            *)
(*                                                                          *)
(* A container has a class, "valid" or "error", and may hold a message that *)
(* was put there.  With a data-valmsg-replace other than "true" the page's  *)
(* own text stays and only the class changes.                               *)
(***************************************************************************)
EXTENDS FiniteSets, Naturals

CONSTANTS Field,    \* the names of the inputs with data-val=true
          Replace   \* the fields whose container says data-valmsg-replace=true

ASSUME FieldsAssumption == IsFiniteSet(Field) /\ Replace \subseteq Field

Container == [class : {"valid", "error"}, text : BOOLEAN]

(* A container as the server renders it. *)
CleanContainer == [class |-> "valid", text |-> FALSE]

(* The message of jQuery Validate is shown, or for a field that passed an    *)
(* empty one: onSuccess follows.                                             *)
OnError(c, f, message) ==
  [class |-> "error", text |-> IF f \in Replace THEN message ELSE c.text]

OnSuccess(c, f) ==
  [class |-> "valid", text |-> IF f \in Replace THEN FALSE ELSE c.text]

(* The summary lists the errors of a form that did not pass; a list of the   *)
(* time before is emptied first.                                             *)
OnErrorsAppending(s) ==
  [s EXCEPT !.list = @ \cup s.errors, !.summary = "errors"]

OnErrors(s) ==
  [s EXCEPT !.list = s.errors, !.summary = "errors"]

(* What onReset does after the validator was reset: the classes are those of *)
(* a valid form again.  Neither the list nor a message is taken away; the    *)
(* style sheet hides what is valid.                                          *)
ResetSummaryOnly(s) == [s EXCEPT !.summary = "valid"]

ResetMessages(s) ==
  [s EXCEPT !.summary = "valid",
            !.at = [f \in Field |-> [s.at[f] EXCEPT !.class = "valid"]]]

=============================================================================
