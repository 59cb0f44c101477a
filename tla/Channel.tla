-------------------------------- MODULE Channel --------------------------------
(***************************************************************************)
(* A server's channel to another server: the client object with its call   *)
(* queue, the background task that holds the session and serves the queue, *)
(* and the supervisor that pings, drops and reconnects it.                 *)
(*                                                                         *)
(* Everything but the peer runs on one event loop: an action is what runs  *)
(* between two awaits.  The three loop servers and the hub carry copies of *)
(* the code, which differ in what becomes of a ping that fails.            *)
(***************************************************************************)
EXTENDS Naturals, Sequences

CONSTANTS Requests,      \* a bound as well: calls that may be made
          MaxConnects,   \* bound: attempts to connect
          MaxPings,      \* bound: pings
          MaxOutages     \* bound: losses of the transport

ChannelAssumption == {MaxConnects, MaxPings, MaxOutages} \subseteq Nat

Attempts == 1..MaxConnects

VARIABLES
  server,    \* "loop" or "hub": whose copy of the code this is
  slot,      \* adaptors.<name> is set
  task,      \* of each attempt: its background task
  working,   \* the attempts whose transport works
  current,   \* _task: an attempt, or 0
  session,   \* _session: the attempt that opened it, or 0
  stop,      \* _stop
  ready, error,   \* _ready and _error, as long as connect waits for them
  queue,     \* _call_queue
  serving,   \* of each attempt: what its task is awaiting
  probes,    \* _probe_queue
  seq,       \* _probe_seq
  tick,      \* where the supervisor is
  connects,
  outages,
  future,    \* of each request: what its caller sees
  executed,  \* auxiliary: how often the peer has executed it
  sentAt,    \* auxiliary: connects when it was put on the queue
  cut        \* auxiliary: drops of a session that worked and whose task served it

adaptor == <<slot, task, current, session, stop, ready, error, serving>>
bounds == <<connects, outages>>
channelVars == <<server, adaptor, working, queue, probes, seq, tick, bounds, future, executed, sentAt, cut>>

Call(r) == [op |-> "call", id |-> r]
Ping(n) == [op |-> "ping", id |-> n]
Nothing == [op |-> "none", id |-> 0]
Up == session # 0 /\ session \in working

-----------------------------------------------------------------------------
(***************************************************************************)
(* call_tool: the caller puts the call and its future on the queue and     *)
(* waits for so long.  A future that timed out is cancelled; what is on    *)
(* the queue stays there.                                                  *)
(***************************************************************************)
Send(r) ==
  /\ slot /\ session # 0
  /\ future[r] = "new"
  /\ queue' = Append(queue, Call(r))
  /\ future' = [future EXCEPT ![r] = "waiting"]
  /\ sentAt' = [sentAt EXCEPT ![r] = connects]

CallTimeout(r) ==
  /\ future[r] = "waiting"
  /\ future' = [future EXCEPT ![r] = "timeout"]
  /\ UNCHANGED <<server, adaptor, working, queue, probes, seq, tick, bounds, executed, sentAt, cut>>

\* mutant: answers are matched to callers by their order
ResolveFirst(r, answer) ==
  LET waiting == {w \in Requests : future[w] = "waiting"}
  IN  IF waiting = {} THEN future' = future
      ELSE \E w \in waiting : future' = [future EXCEPT ![w] = answer]

\* An answer lands on the future of its own call, if that still waits.
Resolve(r, answer) ==
  future' = IF future[r] = "waiting" THEN [future EXCEPT ![r] = answer] ELSE future

-----------------------------------------------------------------------------
(***************************************************************************)
(* _run and _serve, the background task of attempt t.                      *)
(***************************************************************************)
\* initialize: it sets the fields of the client, whoever waits for them.
RunInitialized(t) ==
  /\ task[t] = "starting" /\ t \in working
  /\ task' = [task EXCEPT ![t] = "serving"]
  /\ session' = t /\ ready' = (tick = "connect")
  /\ UNCHANGED <<server, slot, current, stop, error, serving, working, queue, probes, seq, tick, bounds,
                 future, executed, sentAt, cut>>

Wake == ready' = (tick = "connect") /\ error' = (tick = "connect")

\* An exception ends the task, and what it was awaiting stays unanswered.
RunFails(t) ==
  /\ task[t] \in {"starting", "serving"} /\ t \notin working
  /\ task' = [task EXCEPT ![t] = "done"]
  /\ serving' = [serving EXCEPT ![t] = Nothing]
  /\ Wake
  /\ UNCHANGED <<server, slot, current, session, stop, working, queue, probes, seq, tick, bounds,
                 future, executed, sentAt, cut>>

ServeStops(t) ==
  /\ task[t] = "serving" /\ serving[t] = Nothing /\ stop
  /\ task' = [task EXCEPT ![t] = "done"]
  /\ UNCHANGED <<server, slot, current, session, stop, ready, error, serving, working, queue, probes, seq, tick,
                 bounds, future, executed, sentAt, cut>>

ServeTakes(t) ==
  /\ task[t] = "serving" /\ serving[t] = Nothing /\ ~stop
  /\ queue # << >>
  /\ serving' = [serving EXCEPT ![t] = Head(queue)]
  /\ queue' = Tail(queue)
  /\ UNCHANGED <<server, slot, task, current, session, stop, ready, error, working, probes, seq, tick, bounds,
                 future, executed, sentAt, cut>>

Serving(t, op) == task[t] = "serving" /\ serving[t].op = op
Served(t) == serving' = [serving EXCEPT ![t] = Nothing]

PeerExecutes(t) ==
  /\ Serving(t, "call") /\ Up
  /\ executed' = [executed EXCEPT ![serving[t].id] = @ + 1]
  /\ serving' = [serving EXCEPT ![t].op = "executed"]
  /\ UNCHANGED <<server, slot, task, current, session, stop, ready, error, working, queue, probes, seq, tick,
                 bounds, future, sentAt, cut>>

CallAnswered(t) ==
  /\ Serving(t, "executed") /\ Up
  /\ Resolve(serving[t].id, "ok")
  /\ Served(t)
  /\ UNCHANGED <<server, slot, task, current, session, stop, ready, error, working, queue, probes, seq, tick,
                 bounds, executed, sentAt, cut>>

\* The session is gone, or its transport: call_tool raises, whether or not
\* the peer has executed the call.
CallFails(t) ==
  /\ Serving(t, "call") \/ Serving(t, "executed")
  /\ ~Up
  /\ Resolve(serving[t].id, "error")
  /\ Served(t)
  /\ UNCHANGED <<server, slot, task, current, session, stop, ready, error, working, queue, probes, seq, tick,
                 bounds, executed, sentAt, cut>>

PingAnswered(t) ==
  /\ Serving(t, "ping") /\ Up
  /\ probes' = Append(probes, [answer |-> "ok", id |-> serving[t].id])
  /\ Served(t)
  /\ UNCHANGED <<server, slot, task, current, session, stop, ready, error, working, queue, seq, tick, bounds,
                 future, executed, sentAt, cut>>

\* A loop server puts the failure on the probe queue.
PingFails(t) ==
  /\ Serving(t, "ping") /\ ~Up /\ server = "loop"
  /\ probes' = Append(probes, [answer |-> "error", id |-> serving[t].id])
  /\ Served(t)
  /\ UNCHANGED <<server, slot, task, current, session, stop, ready, error, working, queue, seq, tick, bounds,
                 future, executed, sentAt, cut>>

\* mutant: the hub does so as well
HubPingFailsAsLoop(t) ==
  /\ Serving(t, "ping") /\ ~Up /\ server = "hub"
  /\ probes' = Append(probes, [answer |-> "error", id |-> serving[t].id])
  /\ Served(t)
  /\ UNCHANGED <<server, slot, task, current, session, stop, ready, error, working, queue, seq, tick, bounds,
                 future, executed, sentAt, cut>>

\* The hub treats a ping's future, which there is none of, as a call's: the
\* task ends.
HubPingFails(t) ==
  /\ Serving(t, "ping") /\ ~Up /\ server = "hub"
  /\ task' = [task EXCEPT ![t] = "done"]
  /\ Wake
  /\ Served(t)
  /\ UNCHANGED <<server, slot, current, session, stop, working, queue, probes, seq, tick, bounds,
                 future, executed, sentAt, cut>>

\* The transport of every attempt is lost.
Outage ==
  /\ outages < MaxOutages
  /\ working' = {}
  /\ outages' = outages + 1
  /\ UNCHANGED <<server, adaptor, queue, probes, seq, tick, connects, future, executed, sentAt, cut>>

-----------------------------------------------------------------------------
(***************************************************************************)
(* run_connectivity_supervisor: a tick drops a channel whose task ended,   *)
(* pings a live one, and connects one that is down.                        *)
(***************************************************************************)
\* disconnect: the current task is cancelled, and an older one is left alone.
Disconnect ==
  /\ slot' = FALSE
  /\ stop' = TRUE
  /\ task' = [t \in Attempts |-> IF t = current THEN "done" ELSE task[t]]
  /\ serving' = [t \in Attempts |-> IF t = current THEN Nothing ELSE serving[t]]
  /\ session' = 0 /\ current' = 0
  /\ cut' = IF Up /\ session = current /\ task[current] = "serving" THEN cut + 1 ELSE cut

TickDead ==
  /\ tick = "idle" /\ slot /\ task[current] = "done"
  /\ Disconnect
  /\ UNCHANGED <<server, ready, error, working, queue, probes, seq, tick, bounds, future, executed, sentAt>>

TickPing ==
  /\ tick = "idle" /\ slot /\ task[current] # "done"
  /\ seq < MaxPings
  /\ seq' = seq + 1
  /\ queue' = Append(queue, Ping(seq + 1))
  /\ tick' = "ping"
  /\ UNCHANGED <<server, adaptor, working, probes, bounds, future, executed, sentAt, cut>>

PingEnds ==
  /\ tick = "ping" /\ probes # << >>
  /\ Head(probes).answer = "ok"
  /\ probes' = Tail(probes)
  /\ tick' = IF Head(probes).id = seq THEN "idle" ELSE tick
  /\ UNCHANGED <<server, adaptor, working, queue, seq, bounds, future, executed, sentAt, cut>>

\* Any failure on the probe queue drops the channel.
PingDrops ==
  /\ tick = "ping" /\ probes # << >>
  /\ Head(probes).answer = "error"
  /\ probes' = Tail(probes)
  /\ tick' = "idle"
  /\ Disconnect
  /\ UNCHANGED <<server, ready, error, working, queue, seq, bounds, future, executed, sentAt>>

\* The peer is busy, not down.
PingTimeout ==
  /\ tick = "ping"
  /\ tick' = "idle"
  /\ UNCHANGED <<server, adaptor, working, queue, probes, seq, bounds, future, executed, sentAt, cut>>

\* connect: the call queue is emptied, the probe queue is not.
TickConnect ==
  /\ tick = "idle" /\ ~slot /\ connects < MaxConnects
  /\ connects' = connects + 1
  /\ task' = [task EXCEPT ![connects + 1] = "starting"]
  /\ \E w \in {working, working \cup {connects + 1}} : working' = w
  /\ current' = connects + 1 /\ session' = 0
  /\ stop' = FALSE /\ ready' = FALSE /\ error' = FALSE
  /\ queue' = << >>
  /\ tick' = "connect"
  /\ UNCHANGED <<server, slot, serving, probes, seq, outages, future, executed, sentAt, cut>>

ConnectEnds ==
  /\ tick = "connect" /\ ready
  /\ slot' = ~error
  /\ tick' = "idle" /\ ready' = FALSE /\ error' = FALSE
  /\ UNCHANGED <<server, task, current, session, stop, serving, working, queue, probes, seq, bounds,
                 future, executed, sentAt, cut>>

\* The handshake's deadline gives up the wait, not the task.
ConnectTimeout ==
  /\ tick = "connect"
  /\ tick' = "idle" /\ ready' = FALSE /\ error' = FALSE
  /\ UNCHANGED <<server, slot, task, current, session, stop, serving, working, queue, probes, seq, bounds, future, executed, sentAt, cut>>

-----------------------------------------------------------------------------
ChannelInit ==
  /\ server \in {"loop", "hub"}
  /\ slot = FALSE
  /\ task = [t \in Attempts |-> "none"] /\ serving = [t \in Attempts |-> Nothing]
  /\ working = {} /\ current = 0 /\ session = 0
  /\ stop = FALSE /\ ready = FALSE /\ error = FALSE
  /\ queue = << >> /\ probes = << >> /\ seq = 0
  /\ tick = "idle" /\ connects = 0 /\ outages = 0
  /\ future = [r \in Requests |-> "new"]
  /\ executed = [r \in Requests |-> 0] /\ sentAt = [r \in Requests |-> 0]
  /\ cut = 0

ChannelNext ==
  \/ \E r \in Requests : CallTimeout(r)
  \/ \E t \in Attempts :
       \/ RunInitialized(t) \/ RunFails(t) \/ ServeStops(t) \/ ServeTakes(t)
       \/ PeerExecutes(t) \/ CallAnswered(t) \/ CallFails(t)
       \/ PingAnswered(t) \/ PingFails(t) \/ HubPingFails(t)
  \/ Outage
  \/ TickDead \/ TickPing \/ PingEnds \/ PingDrops \/ PingTimeout
  \/ TickConnect \/ ConnectEnds \/ ConnectTimeout

-----------------------------------------------------------------------------
ChannelTypeOK ==
  /\ \A t \in Attempts : task[t] \in {"none", "starting", "serving", "done"}
  /\ current \in 0..MaxConnects /\ session \in 0..MaxConnects
  /\ slot => current # 0
  /\ \A t \in Attempts : serving[t] # Nothing => task[t] = "serving"
  /\ \A r \in Requests : future[r] \in {"new", "waiting", "timeout", "ok", "error"}

\* A caller that is answered is answered with the result of its own call,
\* whichever calls and pings have timed out before, and no call is executed
\* twice.
AnswersMatch ==
  \A r \in Requests : executed[r] <= 1 /\ (future[r] = "ok" => executed[r] = 1)

\* The hub never drops a session that works, although a handshake that was
\* given up, or a ping that was, may still end later.
HealthyIsKept == server = "hub" => cut = 0
===============================================================================
