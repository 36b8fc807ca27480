---------------------------- MODULE SessionTurns ----------------------------
(***************************************************************************)
(* What the scheduler of hub-service promises about one session, with no   *)
(* registry, runner objects, tasks or locks: messages wait, in order; when *)
(* nothing is being served, everything that waits is served as one batch;  *)
(* the next batch starts only after the service of the previous one ended. *)
(* Messages that arrive during a service never join the waiting ones.      *)
(***************************************************************************)
EXTENDS Integers, Sequences

CONSTANTS Keys, Events, KeyOf

VARIABLES
    waiting,    \* per session: the messages of the debounce window
    serving,    \* per session: the batch being served, << >> for none
    newest      \* per session: the last message accepted

turnVars == << waiting, serving, newest >>

TurnsInit ==
    /\ waiting = [k \in Keys |-> << >>]
    /\ serving = [k \in Keys |-> << >>]
    /\ newest = [k \in Keys |-> 0]

\* A message of the session joins the window; it is newer than any before it.
Accept(k, e) ==
    /\ KeyOf[e] = k /\ newest[k] < e
    /\ serving[k] = << >>
    /\ waiting' = [waiting EXCEPT ![k] = Append(@, e)]
    /\ newest' = [newest EXCEPT ![k] = e]
    /\ UNCHANGED serving

\* The window closes: all that waits becomes the batch.
Begin(k) ==
    /\ waiting[k] # << >> /\ serving[k] = << >>
    /\ serving' = [serving EXCEPT ![k] = waiting[k]]
    /\ waiting' = [waiting EXCEPT ![k] = << >>]
    /\ UNCHANGED newest

\* The service ends, with a reply or with an error.
End(k) ==
    /\ serving[k] # << >>
    /\ serving' = [serving EXCEPT ![k] = << >>]
    /\ UNCHANGED << waiting, newest >>

\* The application stops before the window closes.
Discard(k) ==
    /\ waiting[k] # << >>
    /\ waiting' = [waiting EXCEPT ![k] = << >>]
    /\ UNCHANGED << serving, newest >>

TurnsNext ==
    \E k \in Keys :
        \/ \E e \in Events : Accept(k, e)
        \/ Begin(k) \/ End(k) \/ Discard(k)

TurnsSpec == TurnsInit /\ [][TurnsNext]_turnVars

=============================================================================
