----------------------------- MODULE SshTunnel -----------------------------
(***************************************************************************)
(* Opening SSH tunnels (services/ssh_tunnel.rs).  An attempt reserves a     *)
(* local port by listening on it, gives it back for ssh to bind, and polls  *)
(* until something answers on the port while ssh is alive.  In between the  *)
(* port belongs to nobody: another program, or another tunnel being opened, *)
(* may take it.  ssh binds only after it has authenticated.                 *)
(*                                                                         *)
(* The ssh processes and the other programs are external.                   *)
(***************************************************************************)
EXTENDS Integers, FiniteSets

CONSTANTS
  Tunnel,          \* calls of SshTunnel::open
  Port,            \* local ports
  NoListener, Stranger,
  MaxAttempts      \* MAX_FORWARD_START_ATTEMPTS

ASSUME AttemptsAssumption == MaxAttempts \in Nat \ {0}
ASSUME ListenerAssumption == {NoListener, Stranger} \cap Tunnel = {} /\ NoListener # Stranger

VARIABLES
  listener,        \* who listens on each port
  openStage,       \* "closed", "reserved", "waiting", "answered", "ready", "failed"
  localPort,       \* the port of the attempt
  attempts,
  sshState         \* the child: "none", "starting", "forwarding" or how it ended

tunnelVars == <<listener, openStage, localPort, attempts, sshState>>

Alive == {"starting", "forwarding"}
Ended == {"denied", "noPort", "lost"}

TunnelInit ==
  /\ listener = [p \in Port |-> NoListener]
  /\ openStage = [t \in Tunnel |-> "closed"]
  /\ localPort \in [Tunnel -> Port]      \* of no importance before an attempt
  /\ attempts = [t \in Tunnel |-> 0]
  /\ sshState = [t \in Tunnel |-> "none"]

Listens(p, who) == listener' = [listener EXCEPT ![p] = who]
Opens(t, to) == openStage' = [openStage EXCEPT ![t] = to]
Ssh(t, to) == sshState' = [sshState EXCEPT ![t] = to]
PortTaken(t) == listener[localPort[t]] # NoListener

-----------------------------------------------------------------------------
(* The call.                                                               *)

\* The operating system hands out a port nobody listens on.
ReservePort(t, p) ==
  /\ openStage[t] = "closed" /\ listener[p] = NoListener
  /\ attempts' = [attempts EXCEPT ![t] = @ + 1]
  /\ localPort' = [localPort EXCEPT ![t] = p]
  /\ Listens(p, t)
  /\ Opens(t, "reserved")
  /\ Ssh(t, "none")

ReserveFails(t) ==
  /\ openStage[t] = "closed"
  /\ Opens(t, "failed")
  /\ UNCHANGED <<listener, localPort, attempts, sshState>>

\* The port is released, then ssh is spawned.
SpawnSsh(t) ==
  /\ openStage[t] = "reserved"
  /\ Listens(localPort[t], NoListener)
  /\ \/ Opens(t, "waiting") /\ Ssh(t, "starting")
     \/ Opens(t, "failed") /\ UNCHANGED sshState
  /\ UNCHANGED <<localPort, attempts>>

\* Mutant: one attempt more than there may be.
AttemptFailsOnceMore(t, retryable) ==
  Opens(t, IF retryable /\ attempts[t] <= MaxAttempts THEN "closed" ELSE "failed")

\* What a failed attempt leads to; only collisions are tried again.
AttemptFails(t, retryable) ==
  Opens(t, IF retryable /\ attempts[t] < MaxAttempts THEN "closed" ELSE "failed")

\* Mutant: an authentication that was denied is not noticed.
SeeSshEndedUnlessDenied(t) ==
  /\ openStage[t] = "waiting" /\ sshState[t] \in {"noPort", "lost"}
  /\ AttemptFails(t, sshState[t] = "noPort" \/ PortTaken(t))
  /\ UNCHANGED <<listener, localPort, attempts, sshState>>

\* try_wait before the probe: the message or the port tells a collision.
SeeSshEnded(t) ==
  /\ openStage[t] = "waiting" /\ sshState[t] \in Ended
  /\ AttemptFails(t, sshState[t] # "denied" /\ (sshState[t] = "noPort" \/ PortTaken(t)))
  /\ UNCHANGED <<listener, localPort, attempts, sshState>>

\* ssh was alive at try_wait, and something accepts the connection.
ProbeAnswered(t) ==
  /\ openStage[t] = "waiting" /\ sshState[t] \in Alive /\ PortTaken(t)
  /\ Opens(t, "answered")
  /\ UNCHANGED <<listener, localPort, attempts, sshState>>

\* try_wait once more.
AcceptAnswer(t) ==
  /\ openStage[t] = "answered"
  /\ IF sshState[t] \in Ended THEN AttemptFails(t, PortTaken(t)) ELSE Opens(t, "ready")
  /\ UNCHANGED <<listener, localPort, attempts, sshState>>

Killed(t) ==
  /\ Ssh(t, "none")
  /\ listener' = [p \in Port |-> IF listener[p] = t THEN NoListener ELSE listener[p]]

\* Mutant: the deadline leaves ssh running.
StartTimesOutOnly(t) ==
  /\ openStage[t] = "waiting" /\ sshState[t] \in Alive
  /\ Opens(t, "failed")
  /\ UNCHANGED <<listener, localPort, attempts, sshState>>

\* Ten seconds have passed, or the process cannot be inspected.
StartTimesOut(t) ==
  /\ openStage[t] \in {"waiting", "answered"} /\ sshState[t] \in Alive
  /\ Opens(t, "failed") /\ Killed(t)
  /\ UNCHANGED <<localPort, attempts>>

\* Dropping an open tunnel; the connection may be opened again.
CloseTunnel(t) ==
  /\ openStage[t] = "ready"
  /\ Opens(t, "failed") /\ Killed(t)
  /\ UNCHANGED <<localPort, attempts>>

-----------------------------------------------------------------------------
(* The processes.                                                          *)

\* With ExitOnForwardFailure ssh ends when its port is taken.
SshBinds(t) ==
  /\ sshState[t] = "starting"
  /\ IF PortTaken(t) THEN Ssh(t, "noPort") /\ UNCHANGED listener
     ELSE Ssh(t, "forwarding") /\ Listens(localPort[t], t)
  /\ UNCHANGED <<openStage, localPort, attempts>>

SshDenied(t) ==
  /\ sshState[t] = "starting"
  /\ Ssh(t, "denied")
  /\ UNCHANGED <<listener, openStage, localPort, attempts>>

SshLost(t) ==
  /\ sshState[t] \in Alive
  /\ Ssh(t, "lost")
  /\ listener' = [p \in Port |-> IF listener[p] = t THEN NoListener ELSE listener[p]]
  /\ UNCHANGED <<openStage, localPort, attempts>>

StrangerComesOrGoes(p) ==
  /\ \/ listener[p] = NoListener /\ Listens(p, Stranger)
     \/ listener[p] = Stranger /\ Listens(p, NoListener)
  /\ UNCHANGED <<openStage, localPort, attempts, sshState>>

OpenStep(t) ==
  \/ \E p \in Port : ReservePort(t, p)
  \/ ReserveFails(t) \/ SpawnSsh(t) \/ SeeSshEnded(t) \/ ProbeAnswered(t)
  \/ AcceptAnswer(t) \/ StartTimesOut(t)

TunnelNext ==
  \/ \E t \in Tunnel : OpenStep(t) \/ CloseTunnel(t) \/ SshBinds(t) \/ SshDenied(t) \/ SshLost(t)
  \/ \E p \in Port : StrangerComesOrGoes(p)

\* The call goes on by itself: try_wait, the probe and the deadline are polled.
TunnelFairness == \A t \in Tunnel : WF_tunnelVars(OpenStep(t))
TunnelSpec == TunnelInit /\ [][TunnelNext]_tunnelVars /\ TunnelFairness

-----------------------------------------------------------------------------
\* Every variable has its type.
TunnelTypeOK ==
  /\ listener \in [Port -> Tunnel \cup {NoListener, Stranger}]
  /\ openStage \in [Tunnel -> {"closed", "reserved", "waiting", "answered", "ready", "failed"}]
  /\ localPort \in [Tunnel -> Port]
  /\ attempts \in [Tunnel -> 0..MaxAttempts]
  /\ sshState \in [Tunnel -> {"none"} \cup Alive \cup Ended]

\* A call that failed, or will try again, has left no ssh running and no port
\* taken; and no two live forwards share a port.
FailedOpensLeaveNothing ==
  /\ \A t \in Tunnel : openStage[t] \in {"closed", "failed"} =>
       sshState[t] \notin Alive /\ \A p \in Port : listener[p] # t
  /\ \A t, u \in Tunnel : t # u /\ sshState[t] = "forwarding" /\ sshState[u] = "forwarding" =>
       localPort[t] # localPort[u]

\* Every call is answered: attempts are bounded and each has a deadline.
EveryOpenEnds ==
  \A t \in Tunnel : openStage[t] \in {"reserved", "waiting", "answered"} ~>
                    openStage[t] \in {"ready", "failed"}

=============================================================================
