------------------------------- MODULE Packet -------------------------------
(***************************************************************************)
(* Packet tests (node/packet.go): PacketClients, each with its timer queue *)
(* of Unresponsive senders and its read goroutine, the PacketServer that   *)
(* they share, with its main and packet goroutines, and the network, which *)
(* may lose, duplicate and reorder packets.                                *)
(*                                                                         *)
(* A PacketClient is known by its address.  The lengths of packets, their  *)
(* HMAC and the smoothed RTT are left out: the RTT is only how long the    *)
(* client waits for replies in the end, which here may be any time.        *)
(***************************************************************************)
EXTENDS Integers, Sequences

CONSTANTS
    Clients,   \* the PacketClients
    Confs,     \* what each of them is to do: a set of choices
    MaxNow,    \* a bound for the Durations, and so for the clock
    MaxDup     \* packets that the network delivers twice

Sender == [Wait : Seq(Nat), WaitFirst : BOOLEAN, Duration : Nat, Echo : BOOLEAN]

ASSUME PacketAssumption ==
    /\ MaxNow \in Nat /\ MaxDup \in Nat
    /\ \A y \in Confs, c \in Clients :
          /\ y[c].Sender \in Seq(Sender)
          /\ \A i \in DOMAIN y[c].Sender :
                LET s == y[c].Sender[i]
                IN  /\ s.Wait # <<>> /\ \A j \in DOMAIN s.Wait : s.Wait[j] > 0
                    /\ s.Duration <= MaxNow

VARIABLES
    conf,      \* for each client, its Flow, its Senders and what may happen; a
               \* client without a Sender does not run
    now,       \* the clock; the clients start at time 0
    ctx,       \* the clients whose context is done
    \* PacketClient.Run
    pc,        \* "first": the Senders from sender on are to be called first;
               \* "arm": a timer is to be made; "select"; "drain"; "done"
    sender,    \* the index of the current sender
    timerQ,    \* packetTimers; a Sender has at most one
    t,         \* the packetTimer that is waited for, or NoTimer (not q)
    res,       \* "none", then "ok" or "error"
    u,         \* the state of the Unresponsive senders
    log,       \* the packets sent, as they are recorded in PacketIOs
    open,      \* clients whose connection is not closed
    rd,        \* the read goroutine: "read", "send", "error", "closed"
    \* PacketServer
    main,      \* its main goroutine
    srv,       \* its packet goroutine: "read", or "stuck" with an error on ec
    f, d,      \* the address of each Flow, and the Seqs of the echos asked for
    heard,     \* the packets that it has recorded: of a client, with a Seq
    echoed,    \* the replies that it has sent
    \* the network
    net, dups  \* packets in flight; the number of those that came twice

clientVars == <<pc, sender, timerQ, t, res, u, log, open, rd>>
serverVars == <<main, srv, f, d, heard, echoed>>
vars == <<conf, now, ctx, clientVars, serverVars, net, dups>>

NoTimer == [sender |-> 0, at |-> 0]
Packets == [c : Clients, Seq : Nat, Flag : {"none", "FlagEcho", "FlagReply"}]

PacketTimer == [sender : Nat, at : Nat]

TypeOK ==
    /\ conf \in Confs /\ now \in 0..MaxNow /\ ctx \subseteq Clients
    /\ pc \in [Clients -> {"first", "arm", "select", "drain", "done"}]
    /\ sender \in [Clients -> Nat]
    /\ timerQ \in [Clients -> SUBSET PacketTimer] /\ t \in [Clients -> PacketTimer]
    /\ res \in [Clients -> {"none", "ok", "error"}]
    /\ DOMAIN u = Clients
    /\ \A c \in Clients :
          /\ u[c] \in [DOMAIN conf[c].Sender -> [done : Nat, started : BOOLEAN, waitIndex : Nat]]
          /\ \A x \in timerQ[c] \cup ({t[c]} \ {NoTimer}) : x.sender \in DOMAIN conf[c].Sender
    /\ log \in [Clients -> Seq([sender : Nat, at : Nat, now : Nat])]
    /\ open \subseteq Clients
    /\ rd \in [Clients -> {"read", "send", "error", "closed"}]
    /\ main \in {"run", "done"} /\ srv \in {"read", "stuck"}
    /\ \A x \in DOMAIN f : f[x] \in Clients
    /\ d \subseteq Nat /\ net \subseteq Packets /\ heard \subseteq Packets
    /\ echoed \in Seq(Packets)
    /\ dups \in 0..MaxDup

Init ==
    /\ conf \in Confs /\ now = 0 /\ ctx = {}
    /\ pc = [c \in Clients |-> IF conf[c].Sender = <<>> THEN "done" ELSE "first"]
    /\ sender = [c \in Clients |-> 1]
    /\ timerQ = [c \in Clients |-> {}] /\ t = [c \in Clients |-> NoTimer]
    /\ res = [c \in Clients |-> "none"]
    /\ u = [c \in Clients |-> [i \in DOMAIN conf[c].Sender |->
                                 [done |-> 0, started |-> FALSE, waitIndex |-> 1]]]
    /\ log = [c \in Clients |-> <<>>]
    /\ open = {c \in Clients : pc[c] = "first"}
    /\ rd = [c \in Clients |-> IF c \in open THEN "read" ELSE "closed"]
    /\ main = "run" /\ srv = "read" /\ f = <<>> /\ d = {} /\ heard = {} /\ echoed = <<>>
    /\ net = {} /\ dups = 0

-----------------------------------------------------------------------------
(* Unresponsive and PacketClient.send, called for sender i at time at.     *)

\* Mutant: the next packet is scheduled from the current time.
ScheduleFromNow(c, i, at) ==
    LET s == conf[c].Sender[i]
        v == u[c][i]
        done == IF v.started THEN v.done ELSE at + s.Duration
        a == now + s.Wait[v.waitIndex]
    IN  /\ u' = [u EXCEPT ![c][i] = [done |-> done, started |-> TRUE,
                                     waitIndex |-> (v.waitIndex % Len(s.Wait)) + 1]]
        /\ timerQ' = [timerQ EXCEPT ![c] =
                         IF a < done THEN @ \cup {[sender |-> i, at |-> a]} ELSE @]

\* done is set on the first call; the next one is scheduled if it is before.
Schedule(c, i, at) ==
    LET s == conf[c].Sender[i]
        v == u[c][i]
        done == IF v.started THEN v.done ELSE at + s.Duration
        a == at + s.Wait[v.waitIndex]
    IN  /\ u' = [u EXCEPT ![c][i] = [done |-> done, started |-> TRUE,
                                     waitIndex |-> (v.waitIndex % Len(s.Wait)) + 1]]
        /\ timerQ' = [timerQ EXCEPT ![c] =
                         IF a < done THEN @ \cup {[sender |-> i, at |-> a]} ELSE @]

SendPacket(c, i, at) ==
    LET p == [c |-> c, Seq |-> Len(log[c]),
              Flag |-> IF conf[c].Sender[i].Echo THEN "FlagEcho" ELSE "none"]
    IN  IF u[c][i].started \/ ~conf[c].Sender[i].WaitFirst
        THEN /\ net' = net \cup {p}
             /\ log' = [log EXCEPT ![c] = Append(@, [sender |-> i, at |-> at, now |-> now])]
        ELSE UNCHANGED <<net, log>>

\* Mutant: the connection is left open.
ReturnOpen(c, r) ==
    /\ res' = [res EXCEPT ![c] = r]
    /\ UNCHANGED open
    /\ pc' = [pc EXCEPT ![c] = "drain"]

\* Run returns: its deferred call closes the connection and drains r.
Return(c, r) ==
    /\ res' = [res EXCEPT ![c] = r]
    /\ open' = open \ {c}
    /\ pc' = [pc EXCEPT ![c] = "drain"]

-----------------------------------------------------------------------------
(* PacketClient.Run.                                                       *)

\* The senders are called once, in order.
First(c) ==
    LET i == sender[c] IN
    /\ pc[c] = "first"
    /\ SendPacket(c, i, 0) /\ Schedule(c, i, 0)
    /\ sender' = [sender EXCEPT ![c] = i + 1]
    /\ pc' = [pc EXCEPT ![c] = IF i = Len(conf[c].Sender) THEN "arm" ELSE "first"]
    /\ UNCHANGED <<conf, now, ctx, t, res, open, rd, serverVars, dups>>

\* Mutant: the timer stays in the queue.
ArmKeeps(c) ==
    /\ pc[c] = "arm"
    /\ \/ /\ timerQ[c] = {} /\ t' = [t EXCEPT ![c] = NoTimer]
       \/ \E x \in timerQ[c] :
             /\ \A y \in timerQ[c] : x.at <= y.at
             /\ t' = [t EXCEPT ![c] = x]
    /\ pc' = [pc EXCEPT ![c] = "select"]
    /\ UNCHANGED <<conf, now, ctx, sender, timerQ, res, u, log, open, rd, serverVars, net,
                   dups>>

\* The earliest timer is taken from the queue; if there is none, the wait is for
\* the last replies.
Arm(c) ==
    /\ pc[c] = "arm"
    /\ \/ /\ timerQ[c] = {} /\ t' = [t EXCEPT ![c] = NoTimer]
          /\ UNCHANGED timerQ
       \/ \E x \in timerQ[c] :
             /\ \A y \in timerQ[c] : x.at <= y.at
             /\ t' = [t EXCEPT ![c] = x]
             /\ timerQ' = [timerQ EXCEPT ![c] = @ \ {x}]
    /\ pc' = [pc EXCEPT ![c] = "select"]
    /\ UNCHANGED <<conf, now, ctx, sender, res, u, log, open, rd, serverVars, net, dups>>

\* w is ready, with a packet to send.  The timer may be late.
Fire(c) ==
    /\ pc[c] = "select" /\ t[c] # NoTimer /\ now >= t[c].at
    /\ SendPacket(c, t[c].sender, t[c].at) /\ Schedule(c, t[c].sender, t[c].at)
    /\ t' = [t EXCEPT ![c] = NoTimer]
    /\ pc' = [pc EXCEPT ![c] = "arm"]
    /\ UNCHANGED <<conf, now, ctx, sender, res, open, rd, serverVars, dups>>

\* The write fails: Run returns the error.
FireFails(c) ==
    /\ pc[c] \in {"first", "select"} /\ "write" \in conf[c].may
    /\ pc[c] = "select" => t[c] # NoTimer /\ now >= t[c].at
    /\ Return(c, "error")
    /\ UNCHANGED <<conf, now, ctx, sender, timerQ, t, u, log, rd, serverVars, net, dups>>

\* w is ready, and there is nothing left to send.
LastWait(c) ==
    /\ pc[c] = "select" /\ t[c] = NoTimer
    /\ Return(c, "ok")
    /\ UNCHANGED <<conf, now, ctx, sender, timerQ, t, u, log, rd, serverVars, net, dups>>

\* A packet or an error comes from the read goroutine; in the end, what it has
\* is thrown away until it closes the channel.
FromReader(c) ==
    /\ pc[c] \in {"select", "drain"} /\ rd[c] \in {"send", "error"}
    /\ rd' = [rd EXCEPT ![c] = IF @ = "send" THEN "read" ELSE "closed"]
    /\ IF pc[c] = "select" /\ rd[c] = "error" THEN Return(c, "error")
       ELSE UNCHANGED <<pc, res, open>>
    /\ UNCHANGED <<conf, now, ctx, sender, timerQ, t, u, log, serverVars, net, dups>>

Drained(c) ==
    /\ pc[c] = "drain" /\ rd[c] = "closed"
    /\ pc' = [pc EXCEPT ![c] = "done"]
    /\ UNCHANGED <<conf, now, ctx, sender, timerQ, t, res, u, log, open, rd, serverVars,
                   net, dups>>

CtxDone(c) ==
    /\ pc[c] = "select" /\ c \in ctx
    /\ Return(c, "ok")
    /\ UNCHANGED <<conf, now, ctx, sender, timerQ, t, u, log, rd, serverVars, net, dups>>

-----------------------------------------------------------------------------
(* The read goroutine of a client, and the network.                        *)

\* A packet is delivered: it is gone then, or there is another copy of it.  A
\* packet that is lost stays in net for ever.
Deliver(p, out) ==
    \/ net' = (net \ {p}) \cup out /\ UNCHANGED dups
    \/ dups < MaxDup /\ dups' = dups + 1 /\ net' = net \cup out

Replies(c) == {p \in net : p.c = c /\ p.Flag = "FlagReply"}

ReadReply(c) ==
    /\ rd[c] = "read" /\ c \in open
    /\ \E p \in Replies(c) : Deliver(p, {})
    /\ rd' = [rd EXCEPT ![c] = "send"]
    /\ UNCHANGED <<conf, now, ctx, pc, sender, timerQ, t, res, u, log, open, serverVars>>

\* The connection is closed, the server's host refuses, or what comes is no
\* packet.
ReadFails(c) ==
    /\ rd[c] = "read" /\ (c \in open => "read" \in conf[c].may)
    /\ rd' = [rd EXCEPT ![c] = "error"]
    /\ UNCHANGED <<conf, now, ctx, pc, sender, timerQ, t, res, u, log, open, serverVars, net,
                   dups>>

-----------------------------------------------------------------------------
(* PacketServer.                                                           *)

\* The loop of the main goroutine ends before it has begun, for d is false: errc
\* is closed, and no one is left to close the connection or to receive from ec.
MainExits ==
    /\ main = "run" /\ main' = "done"
    /\ UNCHANGED <<conf, now, ctx, clientVars, srv, f, d, heard, echoed, net, dups>>

\* Mutant: duplicates are not detected.
EchoesAgain(p) == p.Flag = "FlagEcho"

\* An echo is requested, and none was for a packet with this Seq before.
Echoes(p) == p.Flag = "FlagEcho" /\ p.Seq \notin d

ServerMayFail == \E c \in Clients : "server" \in conf[c].may

\* The Seq is kept in d, and then the reply is written.  When that fails, the
\* packet goroutine ends with the error: it waits on ec.
Echo(p) ==
    LET reply == [p EXCEPT !.Flag = "FlagReply"] IN
    IF Echoes(p)
    THEN /\ d' = d \cup {p.Seq}
         /\ \/ echoed' = Append(echoed, reply) /\ Deliver(p, {reply}) /\ UNCHANGED srv
            \/ ServerMayFail /\ srv' = "stuck" /\ Deliver(p, {}) /\ UNCHANGED echoed
    ELSE Deliver(p, {}) /\ UNCHANGED <<srv, d, echoed>>

\* The packet goroutine gets a packet.  It is dropped if its Flow is known from
\* another address, else recorded, and echoed.
Serve(p) ==
    LET flow == conf[p.c].Flow
        known == flow \in DOMAIN f
    IN
    /\ srv = "read" /\ p \in net /\ p.Flag # "FlagReply"
    /\ f' = IF known THEN f ELSE [x \in DOMAIN f \cup {flow} |-> IF x = flow THEN p.c ELSE f[x]]
    /\ IF known /\ f[flow] # p.c
       THEN Deliver(p, {}) /\ UNCHANGED <<srv, d, heard, echoed>>
       ELSE heard' = heard \cup {p} /\ Echo(p)
    /\ UNCHANGED <<conf, now, ctx, clientVars, main>>

\* ReadFrom fails: the packet goroutine waits on ec.
ServerReadFails ==
    /\ srv = "read" /\ ServerMayFail
    /\ srv' = "stuck"
    /\ UNCHANGED <<conf, now, ctx, clientVars, main, f, d, heard, echoed, net, dups>>

-----------------------------------------------------------------------------

Cancel(c) ==
    /\ "cancel" \in conf[c].may
    /\ c \notin ctx /\ pc[c] # "done"
    /\ ctx' = ctx \cup {c}
    /\ UNCHANGED <<conf, now, clientVars, serverVars, net, dups>>

\* Time passes until the senders are done.
Tick ==
    /\ \E c \in Clients : pc[c] # "done" /\ \E i \in DOMAIN conf[c].Sender :
          now < conf[c].Sender[i].Duration
    /\ now' = now + 1
    /\ UNCHANGED <<conf, ctx, clientVars, serverVars, net, dups>>

RunStep(c) ==
    \/ First(c) \/ Arm(c) \/ Fire(c) \/ FireFails(c) \/ LastWait(c) \/ FromReader(c)
    \/ Drained(c) \/ CtxDone(c)

Finished == \A c \in Clients : pc[c] = "done"

Next ==
    \/ \E c \in Clients : RunStep(c) \/ ReadReply(c) \/ ReadFails(c) \/ Cancel(c)
    \/ MainExits \/ ServerReadFails \/ Tick
    \/ \E p \in net : Serve(p)
    \/ Finished /\ UNCHANGED vars

Spec == Init /\ [][Next]_vars

\* Time passes, and the goroutines of the clients go on while they can; packets
\* need not arrive.
Fairness == WF_vars(Tick) /\ \A c \in Clients : WF_vars(RunStep(c)) /\ WF_vars(ReadFails(c))

FairSpec == Spec /\ Fairness

-----------------------------------------------------------------------------
(* Properties.                                                             *)

\* The times of a Sender: the sums of its Waits, cycled through,
At(s) ==
    LET at[k \in 0 .. s.Duration + 1] ==
           IF k = 0 THEN 0 ELSE at[k - 1] + s.Wait[((k - 1) % Len(s.Wait)) + 1]
    IN  at

\* and those for which it has a packet: before Duration, the first one whatever
\* Duration is.
Times(s) ==
    {At(s)[k] : k \in {k \in 0 .. s.Duration :
                         IF k = 0 THEN ~s.WaitFirst ELSE At(s)[k] < s.Duration}}

Sent(c, i) == {j \in DOMAIN log[c] : log[c][j].sender = i}

\* However late timers are, and however replies come in between: packets are
\* sent in the order in which they are scheduled and not before their time; the
\* packets of a Sender are those of its schedule, from the first on and each
\* once; and all of them once Run has returned without an error and was not
\* canceled.
ScheduleKept ==
    \A c \in Clients :
       /\ \A j, k \in DOMAIN log[c] : j < k => log[c][j].at <= log[c][k].at
       /\ \A k \in DOMAIN log[c] : log[c][k].at <= log[c][k].now
       /\ \A i \in DOMAIN conf[c].Sender :
             LET sent == {log[c][j].at : j \in Sent(c, i)}
                 all == Times(conf[c].Sender[i])
             IN  /\ \A j, k \in Sent(c, i) : log[c][j].at = log[c][k].at => j = k
                 /\ sent \subseteq all
                 /\ \A a \in all, b \in sent : a < b => a \in sent
                 /\ res[c] = "ok" /\ c \notin ctx => sent = all

\* The packets that ask for an echo and whose Seq was never echoed.
Answered == {echoed[j].Seq : j \in DOMAIN echoed}
Unechoed == {p \in heard : p.Flag = "FlagEcho" /\ p.Seq \notin Answered}

\* A packet is echoed once at most, though it came twice, and only to the client
\* that sent it, which is the only one of its Flow that is recorded.  One that
\* was recorded is echoed, unless one with the same Seq was, be it of another
\* Flow: there is one d for all of them.  The one exception is the packet at
\* whose reply the server has failed, after which it receives no more.
EchoedOnce ==
    /\ \A j, k \in DOMAIN echoed : echoed[j] = echoed[k] => j = k
    /\ \A j \in DOMAIN echoed : [echoed[j] EXCEPT !.Flag = "FlagEcho"] \in heard
    /\ \A p, q \in heard : conf[p.c].Flow = conf[q.c].Flow => p.c = q.c
    /\ srv = "read" => Unechoed = {}
    /\ \A p, q \in Unechoed : p = q

\* Every client returns, and its read goroutine with it.
ClientsEnd == \A c \in Clients : <>(pc[c] = "done" /\ rd[c] = "closed")

-----------------------------------------------------------------------------
(* The inductive invariant; PacketProofs proves it.                        *)

Timers(c) == timerQ[c] \cup ({t[c]} \ {NoTimer})

\* Sender i was called k times, for its first k times, and has a timer for the
\* next;
Scheduled(c, i, k) ==
    LET s == conf[c].Sender[i]
        at == At(s)
        v == u[c][i]
    IN  /\ v.started <=> k > 0
        /\ v.waitIndex = (k % Len(s.Wait)) + 1
        /\ k > 0 => v.done = s.Duration
        /\ \A m \in 1 .. k - 1 : at[m] < s.Duration
        /\ \A x \in Timers(c) : x.sender = i => k > 0 /\ x.at = at[k] /\ at[k] < s.Duration
        /\ k > 0 /\ at[k] < s.Duration => [sender |-> i, at |-> at[k]] \in Timers(c)

\* it has sent one packet each time, but for the first with WaitFirst.
SentFor(c, i, k) ==
    LET s == conf[c].Sender[i]
        at == At(s)
    IN  /\ \A j \in Sent(c, i) :
              \E m \in 0 .. k - 1 : (m = 0 => ~s.WaitFirst) /\ log[c][j].at = at[m]
        /\ \A m \in 0 .. k - 1 :
              (m = 0 => ~s.WaitFirst) => \E j \in Sent(c, i) : log[c][j].at = at[m]
        /\ \A j, l \in Sent(c, i) : log[c][j].at = log[c][l].at => j = l

\* What was sent is not after what is still to be sent, and the timer that is
\* waited for is the earliest.
QueueInv(c) ==
    /\ \A j, k \in DOMAIN log[c] : j < k => log[c][j].at <= log[c][k].at
    /\ \A j \in DOMAIN log[c] : log[c][j].at <= log[c][j].now
    /\ \A j \in DOMAIN log[c], x \in Timers(c) : log[c][j].at <= x.at
    /\ t[c] # NoTimer => t[c] \notin timerQ[c] /\ \A x \in timerQ[c] : t[c].at <= x.at

\* Run calls all Senders first, and ends by itself when no timer is left.
RunInv(c) ==
    LET all == DOMAIN conf[c].Sender IN
    /\ pc[c] = "first" => /\ sender[c] \in all /\ t[c] = NoTimer
                          /\ \A i \in all : u[c][i].started <=> i < sender[c]
                          /\ \A j \in DOMAIN log[c] : log[c][j].at = 0
    /\ pc[c] \in {"arm", "select"} => \A i \in all : u[c][i].started
    /\ pc[c] = "arm" => t[c] = NoTimer
    /\ pc[c] = "select" /\ t[c] = NoTimer => timerQ[c] = {}
    /\ pc[c] \in {"first", "arm", "select"} => res[c] = "none"
    /\ res[c] = "ok" /\ c \notin ctx => Timers(c) = {} /\ \A i \in all : u[c][i].started

SenderInv(c) ==
    \A i \in DOMAIN conf[c].Sender :
       \E k \in 0 .. conf[c].Sender[i].Duration + 1 : Scheduled(c, i, k) /\ SentFor(c, i, k)

\* d has the Seqs of the replies, and that of the one which could not be written;
\* f has the client of each Flow.
ServerInv ==
    /\ Answered \subseteq d /\ (srv = "read" => d = Answered)
    /\ \A j, k \in DOMAIN echoed : echoed[j].Seq = echoed[k].Seq => j = k
    /\ \A j \in DOMAIN echoed : [echoed[j] EXCEPT !.Flag = "FlagEcho"] \in heard
    /\ \A p \in heard : conf[p.c].Flow \in DOMAIN f /\ f[conf[p.c].Flow] = p.c
    /\ \A p \in heard : p.Flag = "FlagEcho" => p.Seq \in d
    /\ \A p, q \in Unechoed : p = q

\* All of this holds always: the timers, the packets that were sent and the state
\* of the Senders are in step, as are the maps of the server and its replies.
PacketInv ==
    /\ TypeOK /\ ServerInv
    /\ \A c \in Clients : QueueInv(c) /\ RunInv(c) /\ SenderInv(c)
=============================================================================
