------------------------------ MODULE AlertInbox ------------------------------
(* What the user's actions make of an alert: the recorded actions are replayed in   *)
(* their order every time alerts are listed (monitorStateRepository.ts). A time is a *)
(* number, 0 where there is none.                                                    *)
EXTENDS Integers, SequencesExt

CONSTANT InboxTimes   \* bound: the times the assumptions try

Fresh == [readAt |-> 0, snoozedUntil |-> 0, archivedAt |-> 0]

withActionState(actions) ==
  FoldLeft(LAMBDA state, action :
             CASE action.type = "read"    -> [state EXCEPT !.readAt = action.at]
               [] action.type = "snooze"  -> [state EXCEPT !.snoozedUntil = action.until]
               [] action.type = "archive" -> [state EXCEPT !.archivedAt = action.at]
               [] OTHER                   -> [state EXCEPT !.archivedAt = 0, !.snoozedUntil = 0],
           Fresh, actions)

Asleep(state, now) == state.snoozedUntil > now

\* The view of listAlerts an alert is shown in.
InView(view, state, now) ==
  CASE view = "archived" -> state.archivedAt # 0
    [] view = "snoozed"  -> state.archivedAt = 0 /\ Asleep(state, now)
    [] OTHER             -> state.archivedAt = 0 /\ ~Asleep(state, now)

Views == {"inbox", "snoozed", "archived"}

\* One recorded action; act refuses an alert that does not exist and nothing else.
act(actions, type, until, now) ==
  Append(actions, [type |-> type, at |-> now, until |-> IF type = "snooze" THEN until ELSE 0])

-----------------------------------------------------------------------------
Actions == [type : {"read", "snooze", "archive", "restore"}, at : InboxTimes, until : InboxTimes]

\* After any history of actions an alert is in one view and one only, comes back from a
\* snooze by itself but not from the archive, is in the inbox when it was restored last,
\* and reading it moves it nowhere (withActionState, listAlerts).
ASSUME AlertsAreInOneView ==
  \A actions \in SeqOf(Actions, 3) : \A now \in InboxTimes :
    LET state == withActionState(actions)
        later == now + 10
        read == withActionState(act(actions, "read", 0, now))
    IN  /\ \E view \in Views : InView(view, state, now)
        /\ \A v, w \in Views : (InView(v, state, now) /\ InView(w, state, now)) => v = w
        /\ InView("snoozed", state, now) => InView("inbox", state, later)
        /\ InView("archived", state, now) => InView("archived", state, later)
        /\ InView("inbox", withActionState(act(actions, "restore", 0, now)), now)
        /\ \A view \in Views : InView(view, read, now) = InView(view, state, now)
=============================================================================
