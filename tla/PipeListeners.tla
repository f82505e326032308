---------------------------- MODULE PipeListeners -----------------------------
(***************************************************************************)
(* The two listeners of the transport spike that keep one duplex           *)
(* connection for the launched worker: pairListener makes it of two halves *)
(* (pairing.go), singlePipeListener keeps the only instance of a pipe      *)
(* (pipe_single_windows.go).  Clients dial, the timer of a first half may  *)
(* run out, and Close comes at any moment.                                 *)
(***************************************************************************)
EXTENDS Naturals

CONSTANTS Own, Foreign,  \* the worker's connections, and others'
          Acceptors,     \* goroutines that call the single pipe's Accept
          NoConn         \* no connection

PipeAssumption == Own \cap Foreign = {} /\ NoConn \notin Own \cup Foreign

Conns == Own \cup Foreign

VARIABLES expect,      \* the expected process is named
          closed,      \* l.done is closed
          state,       \* of a connection: "new", "held", "closed", "handed"
          runner,      \* what run holds: a connection, or NoConn
          running,     \* run has not ended
          failed,      \* the inner Accept has failed
          up,          \* the first half Accept holds, or NoConn
          acc,         \* Accept: "wait", "returned"
          pair         \* what Accept handed out: <<up, down>> or << >>
pairVars == <<expect, closed, state, runner, running, failed, up, acc, pair>>

VARIABLES client,      \* who is connected to the instance, or NoConn
          handle,      \* the instance: "open", "closed"
          closes,      \* how often CloseHandle was called on it
          badUse,      \* a call used the handle after it was closed
          gate,        \* l.closed of the single pipe
          accepting, used,
          apc          \* Acceptors -> "idle", "connect", "check", "finish", "parked", "done"
pipeVars == <<client, handle, closes, badUse, gate, accepting, used, apc>>
vars == <<pairVars, pipeVars>>

Init ==
    /\ expect = FALSE /\ closed = FALSE /\ state = [c \in Conns |-> "new"]
    /\ runner = NoConn /\ running = TRUE /\ failed = FALSE
    /\ up = NoConn /\ acc = "wait" /\ pair = << >>
    /\ client = NoConn /\ handle = "open" /\ closes = 0 /\ badUse = FALSE
    /\ gate = FALSE /\ accepting = FALSE /\ used = FALSE
    /\ apc = [a \in Acceptors |-> "idle"]

SetExpected == /\ ~expect /\ expect' = TRUE
               /\ UNCHANGED <<closed, state, runner, running, failed, up, acc, pair, pipeVars>>

(* ---------------------------- pairListener ---------------------------- *)

\* run: the inner Accept gives a connection, or fails once closed.
RunAccepts ==
    /\ running /\ runner = NoConn
    /\ \/ /\ ~closed
          /\ \E c \in Conns : /\ state[c] = "new" /\ runner' = c
                              /\ state' = [state EXCEPT ![c] = "held"]
          /\ UNCHANGED <<running, failed>>
       \/ closed /\ failed' = TRUE /\ running' = FALSE /\ UNCHANGED <<runner, state>>
    /\ UNCHANGED <<expect, closed, up, acc, pair, pipeVars>>

\* run is waiting to deliver when the listener is closed.
RunGivesUp ==
    /\ running /\ runner # NoConn /\ closed
    /\ state' = [state EXCEPT ![runner] = "closed"]
    /\ runner' = NoConn /\ running' = FALSE
    /\ UNCHANGED <<expect, closed, failed, up, acc, pair, pipeVars>>

FromPeer(c) == expect /\ c \in Own

\* next delivers: a foreign half is refused, an own one is the first half or
\* completes the pair.
Deliver ==
    /\ acc = "wait" /\ runner # NoConn
    /\ LET c == runner
       IN IF ~FromPeer(c)
          THEN state' = [state EXCEPT ![c] = "closed"] /\ UNCHANGED <<up, acc, pair>>
          ELSE IF up = NoConn
          THEN up' = c /\ UNCHANGED <<state, acc, pair>>
          ELSE /\ pair' = <<up, c>> /\ acc' = "returned" /\ up' = NoConn
               /\ state' = [state EXCEPT ![c] = "handed", ![up] = "handed"]
    /\ runner' = NoConn
    /\ UNCHANGED <<expect, closed, running, failed, pipeVars>>

\* partner: no second half in time.
PairTimeout ==
    /\ acc = "wait" /\ up # NoConn
    /\ state' = [state EXCEPT ![up] = "closed"] /\ up' = NoConn
    /\ UNCHANGED <<expect, closed, runner, running, failed, acc, pair, pipeVars>>

\* next sees the closed listener or the failed Accept.
AcceptFails ==
    /\ acc = "wait" /\ (closed \/ failed)
    /\ acc' = "returned"
    /\ state' = [c \in Conns |-> IF c = up THEN "closed" ELSE state[c]]
    /\ up' = NoConn
    /\ UNCHANGED <<expect, closed, runner, running, failed, pair, pipeVars>>

ClosePairing ==
    /\ ~closed /\ closed' = TRUE
    /\ UNCHANGED <<expect, state, runner, running, failed, up, acc, pair, pipeVars>>

(* ------------------------- singlePipeListener ------------------------- *)

Goto(a, p) == apc' = [apc EXCEPT ![a] = p]
Used(h) == badUse' = (badUse \/ h = "closed")
CloseHandle == handle' = "closed" /\ closes' = closes + 1

\* Accept takes the instance, or waits for Close.
AcceptStarts(a) ==
    /\ apc[a] = "idle"
    /\ IF gate \/ used \/ accepting
       THEN Goto(a, "parked") /\ UNCHANGED accepting
       ELSE Goto(a, "connect") /\ accepting' = TRUE
    /\ UNCHANGED <<pairVars, client, handle, closes, badUse, gate, used>>

\* connect: a client is there, or Close ends the wait, or the call fails.
Connect(a) ==
    /\ apc[a] = "connect"
    /\ Used(handle)
    /\ \/ client # NoConn /\ Goto(a, "check")
       \/ Goto(a, "finish")
    /\ UNCHANGED <<pairVars, client, handle, closes, gate, accepting, used>>

\* The client's process is compared with the expected one: a stranger is
\* disconnected from the same instance; the worker's connection is handed out.
Check(a) ==
    /\ apc[a] = "check"
    /\ Used(handle)
    /\ IF FromPeer(client)
       THEN client' = client /\ (Goto(a, "handing") \/ Goto(a, "finish"))
       ELSE /\ client' = NoConn
            /\ (Goto(a, "connect") \/ Goto(a, "finish"))
    /\ UNCHANGED <<pairVars, handle, closes, gate, accepting, used>>

\* The end of Accept, under the lock: the instance belongs to the
\* connection, or is closed here when Close left it to this Accept.
AcceptEnds(a) ==
    /\ apc[a] \in {"handing", "finish"}
    /\ accepting' = FALSE
    /\ used' = (used \/ apc[a] = "handing")
    /\ IF apc[a] = "finish" /\ gate THEN CloseHandle ELSE UNCHANGED <<handle, closes>>
    /\ Goto(a, "done")
    /\ UNCHANGED <<pairVars, client, badUse, gate>>

Parked(a) ==
    /\ apc[a] = "parked" /\ gate
    /\ Goto(a, "done")
    /\ UNCHANGED <<pairVars, client, handle, closes, badUse, gate, accepting, used>>

\* Close: the instance is closed unless an Accept or a connection owns it.
Close ==
    /\ ~gate /\ gate' = TRUE
    /\ IF ~accepting /\ ~used THEN CloseHandle ELSE UNCHANGED <<handle, closes>>
    /\ UNCHANGED <<pairVars, client, badUse, accepting, used, apc>>

\* The handed-out connection is closed by whoever has it.
ConnCloses ==
    /\ used /\ handle = "open" /\ CloseHandle
    /\ UNCHANGED <<pairVars, client, badUse, gate, accepting, used, apc>>

ClientComes ==
    /\ client = NoConn /\ handle = "open" /\ ~used
    /\ \E c \in Conns : client' = c
    /\ UNCHANGED <<pairVars, handle, closes, badUse, gate, accepting, used, apc>>

Pairing == RunAccepts \/ RunGivesUp \/ Deliver \/ PairTimeout \/ AcceptFails \/ ClosePairing
Acceptor(a) == AcceptStarts(a) \/ Connect(a) \/ Check(a) \/ AcceptEnds(a) \/ Parked(a)
SinglePipe == (\E a \in Acceptors : Acceptor(a)) \/ Close \/ ConnCloses \/ ClientComes
Next == SetExpected \/ Pairing \/ SinglePipe
Spec == Init /\ [][Next]_vars

(* ----------------------------- properties ----------------------------- *)

\* An Accept that has taken the instance.
Holding == {"connect", "check", "handing", "finish"}

TypeOK ==
    /\ state \in [Conns -> {"new", "held", "closed", "handed"}]
    /\ runner \in Conns \cup {NoConn} /\ up \in Conns \cup {NoConn}
    /\ client \in Conns \cup {NoConn}
    /\ apc \in [Acceptors -> {"idle", "connect", "check", "handing", "finish", "parked", "done"}]
    /\ \A a, b \in Acceptors : apc[a] \in Holding /\ apc[b] \in Holding => a = b

\* pairing.go:22 - once run and Accept have ended no half is left open that
\* nobody closes: each one is closed or belongs to the pair.
NoHalfLeaked ==
    (~running /\ acc = "returned") => \A c \in Conns : state[c] # "held"

\* pairing.go:99, pipe_single_windows.go:115 - a connection handed out is the
\* expected process's, both halves of it.
OnlyExpectedHanded ==
    /\ \A c \in Foreign : state[c] # "handed"
    /\ used => client \in Own

\* pipe_single_windows.go:166 - the instance is closed once, never used after
\* it, and never left open by a Close and an Accept that both have ended.
HandleClosedOnce ==
    /\ closes <= 1 /\ ~badUse
    /\ (gate /\ ~used /\ ~accepting) => handle = "closed"
    /\ (~gate /\ ~used) => handle = "open"
================================================================================
