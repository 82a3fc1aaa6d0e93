------------------------------ MODULE Supervisor ------------------------------
(***************************************************************************)
(* The main goroutine of both commands (cmd/autocar, runServer for the     *)
(* native protocol and runClient): it starts one goroutine per listener,   *)
(* waits until the process is told to stop or a listener fails, closes     *)
(* them all, joins the goroutines and returns the first error.             *)
(*                                                                         *)
(* Serve of the exit returns when its context is done, that of a local     *)
(* proxy only when it is shut down; how they drain is NativeServers and    *)
(* LocalProxy.  The returned error stands for the listener that failed.    *)
(***************************************************************************)
EXTENDS Naturals, Sequences

CONSTANT Listeners     \* 1..n, in the order they are told

VARIABLES
  command,     \* "server" or "client"
  parent,      \* the context of main is done (a signal)
  canceled,    \* ctx is done
  goroutine,   \* of each listener: "serving", "broken" or "closed" (Serve has
               \* returned by itself, or because it was told to), "exit", "done"
  errorsCh,    \* its capacity is the number of listeners at least
  main,        \* "waiting", "closing" or "returned"
  told,        \* how many listeners it has closed
  outcome,     \* the listener whose error is returned, 0 for nil
  broken       \* history: listeners that broke before ctx was done

supervisorVars == <<command, parent, canceled, goroutine, errorsCh, main, told, outcome, broken>>

Init ==
  /\ command \in {"server", "client"}
  /\ parent = FALSE /\ canceled = FALSE
  /\ goroutine = [l \in Listeners |-> "serving"]
  /\ errorsCh = <<>>
  /\ main = "waiting" /\ told = 0
  /\ outcome = 0
  /\ broken = {}
-----------------------------------------------------------------------------
Signal ==
  /\ ~parent
  /\ parent' = TRUE /\ canceled' = TRUE
  /\ UNCHANGED <<command, goroutine, errorsCh, main, told, outcome, broken>>

\* Accept fails for good.
Breaks(l) ==
  /\ goroutine[l] = "serving"
  /\ goroutine' = [goroutine EXCEPT ![l] = "broken"]
  /\ broken' = IF canceled THEN broken ELSE broken \cup {l}
  /\ UNCHANGED <<command, parent, canceled, errorsCh, main, told, outcome>>

Told(l) ==
  \/ command = "server" /\ canceled
  \/ l <= told
Stops(l) ==
  /\ goroutine[l] = "serving" /\ Told(l)
  /\ goroutine' = [goroutine EXCEPT ![l] = "closed"]
  /\ UNCHANGED <<command, parent, canceled, errorsCh, main, told, outcome, broken>>

\* err != nil && ctx.Err() == nil: the error is kept, and then ctx is canceled.
\* Serve may return an error for having been closed too.
OnItsOwnAlways == TRUE               \* mutant: ctx is not looked at
OnItsOwn == ~canceled
Reports(l) ==
  /\ goroutine[l] \in {"broken", "closed"}
  /\ IF OnItsOwn
     THEN errorsCh' = Append(errorsCh, l) /\ goroutine' = [goroutine EXCEPT ![l] = "exit"]
     ELSE goroutine' = [goroutine EXCEPT ![l] = "done"] /\ UNCHANGED errorsCh
  /\ UNCHANGED <<command, parent, canceled, main, told, outcome, broken>>

CancelForgotten == UNCHANGED canceled    \* mutant
CancelAll == canceled' = TRUE
Exits(l) ==
  /\ goroutine[l] = "exit"
  /\ CancelAll
  /\ goroutine' = [goroutine EXCEPT ![l] = "done"]
  /\ UNCHANGED <<command, parent, errorsCh, main, told, outcome, broken>>

Wakes ==
  /\ main = "waiting" /\ canceled
  /\ main' = "closing"
  /\ UNCHANGED <<command, parent, canceled, goroutine, errorsCh, told, outcome, broken>>

\* Close, or Shutdown with what is left of the shutdown timeout.
Closes ==
  /\ main = "closing" /\ told + 1 \in Listeners
  /\ told' = told + 1
  /\ UNCHANGED <<command, parent, canceled, goroutine, errorsCh, main, outcome, broken>>

Joins ==
  /\ main = "closing" /\ Listeners = 1..told /\ \A l \in Listeners : goroutine[l] = "done"
  /\ main' = "returned"
  /\ outcome' = IF errorsCh = <<>> THEN 0 ELSE Head(errorsCh)
  /\ UNCHANGED <<command, parent, canceled, goroutine, errorsCh, told, broken>>
-----------------------------------------------------------------------------
Progress ==
  \/ \E l \in Listeners : Stops(l) \/ Reports(l) \/ Exits(l)
  \/ Wakes \/ Closes \/ Joins
Next == Progress \/ Signal \/ \E l \in Listeners : Breaks(l)

Spec == Init /\ [][Next]_supervisorVars /\ WF_supervisorVars(Progress)
-----------------------------------------------------------------------------
(* Properties. *)

\* A process that stops without having been told to returns the error of a
\* listener that broke first, and one that was told to stop never reports a
\* listener that it had closed itself (runServer, runClient).
FirstError ==
  main = "returned" =>
    /\ ~parent => outcome \in broken
    /\ outcome # 0 => outcome \in broken

\* A broken listener or a signal ends the process with every goroutine joined.
Settled ==
  (\E l \in Listeners : goroutine[l] # "serving") \/ parent => main = "returned"
Settles == <>[]Settled
=============================================================================
