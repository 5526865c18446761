--------------------------- MODULE ModelSelection ---------------------------
(***************************************************************************)
(* Which model an LLM role is served by: the catalog and default the       *)
(* process read from config.yaml, the choice a user stored in app_setting, *)
(* and the composer that may put the role's fallback in place of it.       *)
(***************************************************************************)
EXTENDS Naturals, Sequences, FiniteSets

CONSTANTS Bindings, Default, Fallback,
          None       \* no stored choice; no fallback

VARIABLES catalog,   \* the bindings the running process offers for the role
          stored     \* the role's row of app_setting
selectionVars == <<catalog, stored>>

\* The file is edited, and read, independently of the database.
SelectionInit == catalog \in {c \in SUBSET Bindings : Default \in c} /\ stored \in Bindings \union {None}

UnlistedToo(binding) == TRUE   \* mutant of the next
IsSelectable(binding) == binding \in catalog

\* The read judges the stored choice again, and says when it discards it.
Resolve(selected) ==
  IF selected = None THEN [binding |-> Default, source |-> "file-default", stale |-> FALSE]
  ELSE IF ~IsSelectable(selected) THEN [binding |-> Default, source |-> "file-default", stale |-> TRUE]
  ELSE [binding |-> selected, source |-> "selection", stale |-> FALSE]

\* PUT /settings/roles/{role}: refused outside the catalog, else upserted.
SelectRoleBinding ==
  /\ \E binding \in Bindings \ {stored} : IsSelectable(binding) /\ stored' = binding
  /\ UNCHANGED catalog

\* config.yaml is edited and the processes restarted.
EditConfig ==
  /\ \E c \in SUBSET Bindings : Default \in c /\ c # catalog /\ catalog' = c
  /\ UNCHANGED stored

-----------------------------------------------------------------------------
(* One completer lives as long as the request or the job it was built for. *)

\* What a provider makes of a call.
Outcomes == {"reply", "not-served", "unavailable", "error"}
Reply(by, engaged) == [answered |-> TRUE, by |-> by, engaged |-> engaged, problem |-> "none"]
Problem(problem, engaged) == [answered |-> FALSE, by |-> None, engaged |-> engaged, problem |-> problem]

\* A binding the host does not serve is raised; every other failure engages the
\* fallback, for good.  With both failed, whatever the fallback said is an error.
AnyFailure == Outcomes \ {"reply"}
Absorbed == Outcomes \ {"reply", "not-served"}
ProblemOf(failure) ==
  IF failure = "not-served" THEN "binding-failed"
  ELSE IF failure = "unavailable" THEN "chat-model-unavailable" ELSE "chat-model-unusable"
Complete(binding, engaged, primary, fallback) ==
  IF engaged \/ (primary \in Absorbed /\ Fallback # None)
  THEN IF fallback = "reply" THEN Reply(Fallback, TRUE) ELSE Problem("chat-model-unusable", TRUE)
  ELSE IF primary = "reply" THEN Reply(binding, FALSE) ELSE Problem(ProblemOf(primary), FALSE)
=============================================================================
