---------------------------- MODULE SerialServer ----------------------------
(***************************************************************************)
(* What a host may rely on when it writes lines to the plugin, whatever    *)
(* the plugin does to answer them: lines are served one at a time and in   *)
(* the order they were sent; one that asks for an answer gets exactly one, *)
(* under its own id, and any other gets none.  The plugin goes on until it *)
(* has served all that was sent before the host hung up; it may stop       *)
(* earlier only when nobody reads its answers, or over a line that it      *)
(* cannot read.                                                            *)
(***************************************************************************)
EXTENDS Naturals, Sequences

CONSTANTS
  Lines,
  Asking,      \* those that are to be answered
  Unreadable,  \* those over which the plugin may stop
  IdOf         \* the id an answer to a line carries

VARIABLES
  pending,     \* lines sent and not yet served
  answered,    \* the ids of the answers given
  serving,     \* the plugin runs
  hungUp,      \* the host sends nothing more
  deaf         \* the host reads nothing more

serverVars == <<pending, answered, serving, hungUp, deaf>>

Init ==
  /\ pending = <<>> /\ answered = <<>>
  /\ serving = TRUE /\ hungUp = FALSE /\ deaf = FALSE

Send(l) ==
  /\ ~hungUp
  /\ pending' = Append(pending, l)
  /\ UNCHANGED <<answered, serving, hungUp, deaf>>

HangUp == hungUp' = TRUE /\ UNCHANGED <<pending, answered, serving, deaf>>
TurnDeaf == deaf' = TRUE /\ UNCHANGED <<pending, answered, serving, hungUp>>

Serve ==
  /\ serving /\ pending # <<>> /\ Head(pending) \notin Unreadable
  /\ pending' = Tail(pending)
  /\ answered' = IF Head(pending) \in Asking THEN Append(answered, IdOf[Head(pending)])
                                             ELSE answered
  /\ UNCHANGED <<serving, hungUp, deaf>>

\* With nobody there to read it an answer may get lost.
Drop ==
  /\ serving /\ deaf /\ pending # <<>>
  /\ pending' = Tail(pending)
  /\ UNCHANGED <<answered, serving, hungUp, deaf>>

Stop ==
  /\ serving
  /\ \/ pending = <<>> /\ hungUp
     \/ pending # <<>> /\ (deaf \/ Head(pending) \in Unreadable)
  /\ serving' = FALSE
  /\ UNCHANGED <<pending, answered, hungUp, deaf>>

GoOn == Serve \/ Drop \/ Stop

Next == (\E l \in Lines : Send(l)) \/ HangUp \/ TurnDeaf \/ GoOn

SafetySpec == Init /\ [][Next]_serverVars

\* No line is left lying: as long as something can be done it is done.
Spec == SafetySpec /\ WF_serverVars(GoOn)
=============================================================================
