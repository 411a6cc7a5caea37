------------------------- MODULE ReplDelivery_proofs ------------------------
(***************************************************************************)
(* What an answered PUT of the replicated store has come to: it is at each *)
(* follower that it was due to, and where it was the last of its key, the  *)
(* replicas agree.                                                         *)
(***************************************************************************)
EXTENDS ReplicatedKV_proofs

\* A server that runs listens; only the leader is ever in the loop that forwards.
Running ==
    \A n \in Nodes : /\ pc[n] # "off" => up[n]
                     /\ pc[n] = "send" => n = Leader

\* Which requests wait at a client port: those of clients that named this
\* server, unchanged, and at the leader nobody has answered them.
Addressed ==
    /\ \A n \in Nodes : \A i \in DOMAIN clientQ[n] :
          LET m == clientQ[n][i]
          IN op[m.from].node = n /\ (m.type # "EOF" => m.type = op[m.from].type)
    /\ \A i \in DOMAIN clientQ[Leader] :
          clientQ[Leader][i].type # "EOF" => inbox[clientQ[Leader][i].from].kind = "open"

\* Who is in the log asked the leader for a PUT, and is answered or cut off
\* when it is no longer forwarded; nobody else's PUT is answered.
Logged ==
    /\ \A c \in Clients : In(log, c) =>
          /\ op[c].type = "PUT" /\ op[c].node = Leader
          /\ inbox[c].kind \in (IF cur[Leader] = c THEN {"open"} ELSE {"eof", "reply"})
    /\ \A c \in Clients : Acked(c) => In(log, c)

\* A PUT that is due to a follower has been sent to it, or will be in the rest
\* of the loop, or its client is cut off.
Delivered ==
    \A c \in Clients :
        /\ due[c] # {} => In(log, c)
        /\ \A n \in due[c] :
              /\ n # Leader /\ pc[n] \in {"serve", "hung"}
              /\ \/ Sent(n, c)
                 \/ cur[Leader] = c /\ at[Leader] =< n
                 \/ inbox[c].kind = "eof"

DeliveryInv == Running /\ Addressed /\ Logged /\ Delivered

-----------------------------------------------------------------------------

LEMMA Shapes ==
    ASSUME TypeInv
    PROVE  /\ Leader \in Nodes /\ N \in Nat /\ \A n \in Nodes : n \in Nat /\ n < N
           /\ pc \in [Nodes -> {"off", "connect", "accept", "serve", "send", "hung"}]
           /\ up \in [Nodes -> BOOLEAN] /\ at \in [Nodes -> 0..N]
           /\ cur \in [Nodes -> Clients \cup {Nobody}] /\ Nobody \notin Clients
           /\ peerQ \in [Nodes -> Seq(Entry)] /\ clientQ \in [Nodes -> Seq(ClientMsg)]
           /\ db \in [Nodes -> [Keys -> Values \cup {None}]]
           /\ inbox \in [Clients -> Reply] /\ log \in Seq(Clients)
           /\ applied \in [Nodes -> Seq(Clients)] /\ due \in [Clients -> SUBSET Nodes]
           /\ \A c \in Clients : op[c].key \in Keys /\ op[c].node \in Nodes
BY NodesInt, NetAssumption, OpTypes
   DEF TypeInv, QueueTypes, SocketTypes, ServerTypeOK, HistoryTypes, NetAssumption

\* What a server does, one step of it.
ServerSteps(m) ==
    \/ Start(m) \/ MeshJoin(m) \/ MeshSkip(m) \/ MeshWait(m) \/ MeshAccept(m)
    \/ OpenClientPort(m)
    \/ LeaderGet \/ LeaderBegin \/ LeaderSend \/ LeaderSkip \/ LeaderCommit
    \/ FollowerApply(m) \/ FollowerIgnore(m) \/ ThreadGet(m) \/ ThreadDiscard(m)
    \/ OutOfDescriptors(m) \/ Aborts(m) \/ Crash(m) \/ CrashInSend(m)

LEMMA RunningSteps ==
    ASSUME TypeInv, Running, NEW m \in Nodes, ServerSteps(m)
    PROVE  /\ Running'
           /\ \A n \in Followers : pc[n] \in {"serve", "hung"} => pc'[n] \in {"serve", "hung", "off"}
<1>a. /\ Leader \in Nodes /\ up \in [Nodes -> BOOLEAN]
      /\ pc \in [Nodes -> {"off", "connect", "accept", "serve", "send", "hung"}]
  BY Shapes
<1> DEFINE Kept == \A n \in Followers : pc[n] \in {"serve", "hung"} => pc'[n] \in {"serve", "hung", "off"}
<1>1. ASSUME pc' = pc, up' = up PROVE Running' /\ Kept
  BY <1>1 DEF Running, Followers
<1>2. ASSUME NEW n \in Nodes, NEW l, pc' = [pc EXCEPT ![n] = l], l # "off" => up'[n],
             l = "send" => n = Leader, \A k \in Nodes \ {n} : up'[k] = up[k],
             n = Leader \/ pc[n] \notin {"serve", "hung"} \/ l \in {"serve", "hung", "off"}
      PROVE  Running' /\ Kept
  <2>1. \A k \in Nodes : pc'[k] = IF k = n THEN l ELSE pc[k]
    BY <1>a, <1>2
  <2>2. Running'
    BY <1>2, <2>1 DEF Running
  <2> QED
    BY <1>2, <2>1, <2>2 DEF Followers
<1>3. CASE \/ MeshJoin(m) \/ MeshSkip(m) \/ OpenClientPort(m) \/ LeaderGet \/ LeaderSend \/ LeaderSkip
           \/ FollowerApply(m) \/ FollowerIgnore(m) \/ ThreadGet(m) \/ ThreadDiscard(m)
  BY <1>1, <1>3 DEF MeshJoin, MeshSkip, OpenClientPort, LeaderGet, LeaderSend, LeaderSkip,
     FollowerApply, FollowerIgnore, ThreadGet, ThreadDiscard, netVars, serverVars
<1>4. CASE Start(m)
  <2>1. pc[m] = "off" /\ pc' = [pc EXCEPT ![m] = "connect"] /\ up' = [up EXCEPT ![m] = TRUE]
    BY <1>4 DEF Start, Goto
  <2> QED
    BY <1>a, <1>2, <2>1
<1>5. CASE MeshWait(m)
  <2>1. pc[m] = "connect" /\ pc' = [pc EXCEPT ![m] = IF need[m] = 0 THEN "serve" ELSE "accept"] /\ up' = up
    BY <1>5 DEF MeshWait, Goto, netVars
  <2> QED
    BY <1>2, <2>1 DEF Running
<1>6. CASE MeshAccept(m)
  <2>1. pc[m] = "accept" /\ pc' = [pc EXCEPT ![m] = IF need[m] = 1 THEN "serve" ELSE "accept"] /\ up' = up
    BY <1>6 DEF MeshAccept, Goto
  <2> QED
    BY <1>2, <2>1 DEF Running
<1>7. CASE LeaderBegin
  <2>1. pc[Leader] = "serve" /\ pc' = [pc EXCEPT ![Leader] = "send"] /\ up' = up
    BY <1>7 DEF LeaderBegin, Goto
  <2> QED
    BY <1>a, <1>2, <2>1 DEF Running
<1>8. CASE LeaderCommit
  <2>1. pc[Leader] = "send" /\ pc' = [pc EXCEPT ![Leader] = "serve"] /\ up' = up
    BY <1>8 DEF LeaderCommit, Goto
  <2> QED
    BY <1>a, <1>2, <2>1 DEF Running
<1>9. CASE OutOfDescriptors(m)
  <2>1. /\ up' = up
        /\ pc' = pc \/ (pc[m] # "off" /\ pc' = [pc EXCEPT ![m] = "hung"])
    BY <1>9 DEF OutOfDescriptors, AcceptsPeers, AcceptsClients, Serving, ThreadRuns, Goto, netVars
  <2> QED
    BY <1>1, <1>2, <2>1 DEF Running
<1>10. CASE Aborts(m) \/ Crash(m) \/ CrashInSend(m)
  <2>1. pc' = [pc EXCEPT ![m] = "off"] /\ up' = [up EXCEPT ![m] = FALSE]
    BY <1>10 DEF Aborts, Crash, CrashInSend, Dies, Vanish, Goto
  <2> QED
    BY <1>a, <1>2, <2>1
<1> QED
  BY <1>3, <1>4, <1>5, <1>6, <1>7, <1>8, <1>9, <1>10 DEF ServerSteps

\* A follower applies in one kind of step only.
LEMMA WhoApplies ==
    ASSUME TypeInv, NEW m \in Nodes, ServerSteps(m), NEW n \in Followers, Applies(n)
    PROVE  FollowerApply(m) /\ m = n
<1>a. n \in Nodes /\ Leader \in Nodes /\ peerQ \in [Nodes -> Seq(Entry)]
  BY Shapes DEF Followers
<1>1. CASE FollowerApply(m)
  <2>1. peerQ' = [peerQ EXCEPT ![m] = Tail(peerQ[m])]
    BY <1>1 DEF FollowerApply, AcceptPeer
  <2>2. ASSUME m # n PROVE FALSE
    BY <1>a, <2>1, <2>2, QuietSame DEF Quiet
  <2> QED
    BY <1>1, <2>2
<1>2. CASE LeaderSend
  <2>1. peerQ' = [peerQ EXCEPT ![at[Leader]] = Append(peerQ[at[Leader]], AppendEntry(cur[Leader]))]
    BY <1>2 DEF LeaderSend, Tell
  <2>2. peerQ'[n] = peerQ[n] \/ peerQ'[n] = Append(peerQ[n], AppendEntry(cur[Leader]))
    BY <1>a, <2>1
  <2>3. ~(Len(peerQ'[n]) < Len(peerQ[n]))
    BY <1>a, <2>2
  <2> QED
    BY <2>3 DEF Applies
<1>3. CASE ~FollowerApply(m) /\ ~LeaderSend
  BY <1>3, QuietSteps DEF ServerSteps, Quiet
<1> QED
  BY <1>1, <1>2, <1>3

\* What was sent to a follower that serves stays stored or queued until it dies.
LEMMA SentStays ==
    ASSUME TypeInv, History, NEW m \in Nodes, ServerSteps(m),
           NEW n \in Followers, pc[n] \in {"serve", "hung"}, pc'[n] # "off",
           NEW c \in Clients, Sent(n, c)
    PROVE  Sent(n, c)'
<1>a. /\ n \in Nodes /\ peerQ \in [Nodes -> Seq(Entry)] /\ applied \in [Nodes -> Seq(Clients)]
      /\ pc \in [Nodes -> {"off", "connect", "accept", "serve", "send", "hung"}]
      /\ peerQ[n] \in Seq(Entry) /\ applied[n] \in Seq(Clients)
  BY Shapes DEF Followers
\* A follower that does not apply, whose queue loses nothing but a join.
<1>1. ASSUME ~FollowerApply(n), \A i \in DOMAIN peerQ[n] : peerQ[n][i].type = "APPEND" =>
                  \E j \in DOMAIN peerQ'[n] : peerQ'[n][j] = peerQ[n][i]
      PROVE  Sent(n, c)'
  <2>1. applied'[n] = applied[n]
    BY <1>a, <1>1, WhoApplies, QuietHistory
  <2>2. Underway(n, c) => Underway(n, c)'
    BY <1>1 DEF Underway, AppendEntry
  <2> QED
    BY <2>1, <2>2 DEF Sent, Underway
<1>2. ASSUME ~FollowerApply(n), peerQ'[n] = peerQ[n]
      PROVE  Sent(n, c)'
  BY <1>1, <1>2
<1>3. ASSUME NEW e \in Entry, ~FollowerApply(n), peerQ'[n] = Append(peerQ[n], e)
      PROVE  Sent(n, c)'
  <2>1. \A i \in DOMAIN peerQ[n] : i \in DOMAIN peerQ'[n] /\ peerQ'[n][i] = peerQ[n][i]
    BY <1>a, <1>3
  <2> QED
    BY <1>1, <1>3, <2>1
<1>4. CASE FollowerApply(n)
  <2>1. /\ n # Leader /\ pc'[n] = "serve" /\ pc[n] = "serve" /\ peerQ[n] # <<>>
        /\ Head(peerQ[n]).type = "APPEND" /\ peerQ'[n] = Tail(peerQ[n])
    BY <1>a, <1>4 DEF FollowerApply, Serving, AcceptPeer
  <2>2. /\ Len(Tail(peerQ[n])) < Len(peerQ[n]) /\ Head(peerQ[n]) = peerQ[n][1]
        /\ \A i \in DOMAIN peerQ[n] : i # 1 =>
              \E j \in DOMAIN Tail(peerQ[n]) : Tail(peerQ[n])[j] = peerQ[n][i]
    <3>1. /\ Len(Tail(peerQ[n])) < Len(peerQ[n]) /\ Head(peerQ[n]) = peerQ[n][1]
          /\ \A i \in DOMAIN peerQ[n] : i # 1 =>
                i - 1 \in DOMAIN Tail(peerQ[n]) /\ Tail(peerQ[n])[i - 1] = peerQ[n][i]
      BY <1>a, <2>1
    <3> QED
      BY <3>1
  <2>3. Applies(n)
    BY <2>1, <2>2 DEF Applies, Follows, Serving
  <2>4. Head(peerQ[n]).put \in Clients
    <3>1. Head(peerQ[n]) \in Entry
      BY <1>a, <2>1
    <3> QED
      BY <2>1, <3>1 DEF Entry
  <2>5. Extended(applied[n], Head(peerQ[n]).put, applied'[n])
    <3>1. applied'[n] = Append(applied[n], Head(peerQ[n]).put)
      BY <1>a, <2>3 DEF History
    <3> QED
      BY <1>a, <2>4, <3>1, AppendOrder
  <2>6. CASE In(applied[n], c)
    BY <2>5, <2>6 DEF Extended, Sent
  <2>7. CASE Underway(n, c)
    <3>1. PICK i \in DOMAIN peerQ[n] : peerQ[n][i] = AppendEntry(c)
      BY <2>7 DEF Underway
    <3>2. CASE i = 1
      <4>1. Head(peerQ[n]).put = c
        BY <2>2, <3>1, <3>2 DEF AppendEntry
      <4> QED
        BY <2>5, <4>1 DEF Extended, Sent
    <3>3. CASE i # 1
      <4>1. Underway(n, c)'
        BY <2>1, <2>2, <3>1, <3>3 DEF Underway
      <4> QED
        BY <4>1 DEF Sent, Underway
    <3> QED
      BY <3>2, <3>3
  <2> QED
    BY <2>6, <2>7 DEF Sent
<1>5. CASE \/ Start(m) \/ MeshSkip(m) \/ MeshWait(m) \/ OpenClientPort(m) \/ LeaderGet \/ LeaderBegin
           \/ LeaderSkip \/ LeaderCommit \/ ThreadGet(m) \/ ThreadDiscard(m) \/ OutOfDescriptors(m)
  <2>1. peerQ' = peerQ
    BY <1>5 DEF Start, MeshSkip, MeshWait, OpenClientPort, LeaderGet, LeaderBegin, LeaderSkip,
       LeaderCommit, ThreadGet, ThreadDiscard, OutOfDescriptors, netVars
  <2> QED
    BY <1>2, <1>4, <2>1
<1>6. CASE MeshJoin(m)
  <2>1. peerQ' = [peerQ EXCEPT ![at[m]] = Append(peerQ[at[m]], Join)]
    BY <1>6 DEF MeshJoin, Tell
  <2>2. peerQ'[n] = peerQ[n] \/ peerQ'[n] = Append(peerQ[n], Join)
    BY <1>a, <2>1
  <2> QED
    BY <1>2, <1>3, <1>4, <2>2, EntryTypes
<1>7. CASE LeaderSend
  <2>1. peerQ' = [peerQ EXCEPT ![at[Leader]] = Append(peerQ[at[Leader]], AppendEntry(cur[Leader]))]
        /\ pc[Leader] = "send"
    BY <1>7 DEF LeaderSend, Tell
  <2>2. peerQ'[n] = peerQ[n] \/ peerQ'[n] = Append(peerQ[n], AppendEntry(cur[Leader]))
    BY <1>a, <2>1
  <2>3. AppendEntry(cur[Leader]) \in Entry
    BY <2>1, NodesInt, EntryTypes DEF TypeInv, Forwarding
  <2> QED
    BY <1>2, <1>3, <1>4, <2>2, <2>3
\* A queue that loses its head.
<1>8. ASSUME peerQ[m] # <<>>, peerQ' = [peerQ EXCEPT ![m] = Tail(peerQ[m])],
             m = n => Head(peerQ[n]).type # "APPEND"
      PROVE  Sent(n, c)'
  <2>1. CASE m # n
    <3>1. peerQ'[n] = peerQ[n]
      BY <1>a, <1>8, <2>1
    <3> QED
      BY <1>2, <1>4, <3>1
  <2>2. CASE m = n
    <3>1. /\ Head(peerQ[n]) = peerQ[n][1]
          /\ \A i \in DOMAIN peerQ[n] : i # 1 =>
                i - 1 \in DOMAIN Tail(peerQ[n]) /\ Tail(peerQ[n])[i - 1] = peerQ[n][i]
      BY <1>a, <1>8, <2>2
    <3>2. peerQ'[n] = Tail(peerQ[n])
      BY <1>a, <1>8, <2>2
    <3>3. \A i \in DOMAIN peerQ[n] : peerQ[n][i].type = "APPEND" =>
             i - 1 \in DOMAIN peerQ'[n] /\ peerQ'[n][i - 1] = peerQ[n][i]
      BY <1>8, <2>2, <3>1, <3>2
    <3> QED
      BY <1>1, <1>4, <3>3
  <2> QED
    BY <2>1, <2>2
<1>9. CASE MeshAccept(m)
  <2>1. peerQ[m] # <<>> /\ peerQ' = [peerQ EXCEPT ![m] = Tail(peerQ[m])] /\ pc[m] = "accept"
    BY <1>9 DEF MeshAccept, AcceptPeer
  <2> QED
    BY <1>8, <2>1
<1>10. CASE FollowerIgnore(m)
  <2>1. /\ peerQ[m] # <<>> /\ peerQ' = [peerQ EXCEPT ![m] = Tail(peerQ[m])]
        /\ Head(peerQ[m]).type = "JOIN"
    BY <1>10 DEF FollowerIgnore, AcceptPeer
  <2> QED
    BY <1>8, <2>1
<1>11. CASE FollowerApply(m)
  <2>1. CASE m # n
    <3>1. peerQ'[n] = peerQ[n]
      BY <1>a, <1>11, <2>1 DEF FollowerApply, AcceptPeer
    <3> QED
      BY <1>2, <1>4, <3>1
  <2> QED
    BY <1>4, <1>11, <2>1
<1>12. CASE Aborts(m) \/ Crash(m) \/ CrashInSend(m)
  <2>1. /\ pc' = [pc EXCEPT ![m] = "off"]
        /\ \/ peerQ' = [peerQ EXCEPT ![m] = <<>>]
           \/ peerQ' = [peerQ EXCEPT ![m] = <<>>, ![at[m]] = Append(@, PeerEof)] /\ at[m] # m
    BY <1>12 DEF Aborts, Crash, CrashInSend, Dies, Goto
  <2>2. m # n
    BY <1>a, <2>1
  <2>3. peerQ'[n] = peerQ[n] \/ peerQ'[n] = Append(peerQ[n], PeerEof)
    BY <1>a, <2>1, <2>2
  <2> QED
    BY <1>2, <1>3, <1>4, <2>3, EntryTypes
<1> QED
  BY <1>5, <1>6, <1>7, <1>9, <1>10, <1>11, <1>12 DEF ServerSteps

-----------------------------------------------------------------------------
(* What the clients see of a step of a server.                             *)

\* A server takes nothing but the client's own message, and answers a client
\* that waits for an answer; the PUT forwarded is over when it is answered.
Effects ==
    /\ op' = op
    /\ \A n \in Nodes : \A i \in DOMAIN clientQ'[n] :
          \E j \in DOMAIN clientQ[n] : clientQ[n][j] = clientQ'[n][i]
    /\ \A c \in Clients : inbox'[c] # inbox[c] =>
          /\ inbox[c].kind = "open" /\ inbox'[c].kind \in {"eof", "reply"}
          /\ inbox'[c].kind = "reply" => op[c].type # "PUT" \/ cur[Leader] = c
          /\ cur'[Leader] # c
          /\ \A i \in DOMAIN clientQ'[Leader] : clientQ'[Leader][i].from # c
    /\ \A c \in Clients : cur[Leader] = c /\ cur'[Leader] # c => inbox'[c].kind \in {"eof", "reply"}

\* The queue of n has lost its head.
LEMMA TailEffects ==
    ASSUME TypeInv, NEW n \in Nodes, clientQ[n] # <<>>,
           clientQ' = [clientQ EXCEPT ![n] = Tail(clientQ[n])]
    PROVE  /\ Head(clientQ[n]) = clientQ[n][1] /\ 1 \in DOMAIN clientQ[n]
           /\ Head(clientQ[n]).from \in Clients
           /\ \A k \in Nodes : \A i \in DOMAIN clientQ'[k] :
                 \E j \in DOMAIN clientQ[k] : /\ clientQ[k][j] = clientQ'[k][i]
                                              /\ k = n => j # 1
<1>1. clientQ \in [Nodes -> Seq(ClientMsg)] /\ clientQ[n] \in Seq(ClientMsg)
  BY Shapes
<1>2. Head(clientQ[n]) = clientQ[n][1] /\ 1 \in DOMAIN clientQ[n] /\ Head(clientQ[n]) \in ClientMsg
  BY <1>1
<1>3. \A i \in DOMAIN Tail(clientQ[n]) :
         /\ i + 1 \in DOMAIN clientQ[n] /\ i + 1 # 1
         /\ clientQ[n][i + 1] = Tail(clientQ[n])[i]
  BY <1>1
<1>4. clientQ'[n] = Tail(clientQ[n]) /\ \A k \in Nodes \ {n} : clientQ'[k] = clientQ[k]
  BY <1>1
<1>5. ASSUME NEW k \in Nodes, NEW i \in DOMAIN clientQ'[k]
      PROVE  \E j \in DOMAIN clientQ[k] : clientQ[k][j] = clientQ'[k][i] /\ (k = n => j # 1)
  <2>1. CASE k = n
    BY <1>3, <1>4, <1>5, <2>1
  <2>2. CASE k # n
    BY <1>4, <1>5, <2>2
  <2> QED
    BY <2>1, <2>2
<1> QED
  BY <1>2, <1>5 DEF ClientMsg

\* The head of the queue of n is answered, or not.
LEMMA AnswerEffects ==
    ASSUME TypeInv, OrderInv, Addressed, Logged, NEW n \in Nodes, clientQ[n] # <<>>,
           clientQ' = [clientQ EXCEPT ![n] = Tail(clientQ[n])], UNCHANGED <<op, cur>>,
           NEW c, c = Head(clientQ[n]).from, op[c].type # "PUT" \/ inbox' = inbox,
           \E r \in Reply : r.kind = "reply" /\ inbox' \in {inbox, [inbox EXCEPT ![c] = r]},
           inbox' # inbox => inbox[c].kind = "open",
           n = Leader => cur[Leader] = Nobody
    PROVE  Effects
<1>a. Leader \in Nodes /\ inbox \in [Clients -> Reply] /\ Nobody \notin Clients
  BY Shapes
<1>1. /\ Head(clientQ[n]) = clientQ[n][1] /\ 1 \in DOMAIN clientQ[n] /\ c \in Clients
      /\ \A k \in Nodes : \A i \in DOMAIN clientQ'[k] :
            \E j \in DOMAIN clientQ[k] : clientQ[k][j] = clientQ'[k][i] /\ (k = n => j # 1)
  BY TailEffects
<1>2. op[c].node = n
  BY <1>1 DEF Addressed
<1>3. \A i \in DOMAIN clientQ'[Leader] : clientQ'[Leader][i].from # c
  <2>1. ASSUME NEW i \in DOMAIN clientQ'[Leader], clientQ'[Leader][i].from = c PROVE FALSE
    <3>1. PICK j \in DOMAIN clientQ[Leader] :
             clientQ[Leader][j] = clientQ'[Leader][i] /\ (Leader = n => j # 1)
      BY <1>a, <1>1
    <3>2. op[c].node = Leader
      BY <1>a, <2>1, <3>1 DEF Addressed
    <3> QED
      BY <1>1, <1>2, <2>1, <3>1, <3>2 DEF OrderInv, AskedOnce
  <2> QED
    BY <2>1
<1>4. cur[Leader] # c
  <2>1. CASE n = Leader
    BY <1>a, <1>1, <2>1
  <2>2. CASE n # Leader
    <3>1. ~In(log, c)
      BY <1>1, <1>2, <2>2 DEF Logged
    <3>2. cur[Leader] # Nobody => In(log, cur[Leader])
      <4>1. log \in Seq(Clients)
        BY Shapes
      <4>2. log # <<>> => Len(log) \in DOMAIN log
        BY <4>1
      <4> QED
        BY <4>2 DEF OrderInv, CurLast, In
    <3> QED
      BY <1>a, <1>1, <3>1, <3>2
  <2> QED
    BY <2>1, <2>2
<1>5. \A d \in Clients : inbox'[d] # inbox[d] =>
         d = c /\ inbox[d].kind = "open" /\ inbox'[d].kind = "reply"
  BY <1>a, <1>1
<1> QED
  BY <1>1, <1>3, <1>4, <1>5 DEF Effects

\* Who is being forwarded is in the log.
LEMMA ForwardedLogged ==
    ASSUME TypeInv, OrderInv, NEW c \in Clients, cur[Leader] = c
    PROVE  In(log, c)
<1>1. log # <<>> /\ log[Len(log)] = c
  BY NetAssumption DEF OrderInv, CurLast, NetAssumption
<1>2. Len(log) \in DOMAIN log
  BY <1>1, Shapes
<1> QED
  BY <1>1, <1>2 DEF In

LEMMA DeathEffects ==
    ASSUME TypeInv, OrderInv, Addressed, Logged, NEW m \in Nodes, Dies(m)
    PROVE  Effects
<1>1. /\ op' = op /\ clientQ' = [clientQ EXCEPT ![m] = <<>>] /\ cur' = [cur EXCEPT ![m] = Nobody]
      /\ inbox' = [c \in Clients |->
             IF op[c].node = m /\ inbox[c].kind = "open" THEN Ended ELSE inbox[c]]
  BY DEF Dies, Vanish
<1>2. /\ Leader \in Nodes /\ clientQ \in [Nodes -> Seq(ClientMsg)] /\ Nobody \notin Clients
      /\ cur \in [Nodes -> Clients \cup {Nobody}]
  BY Shapes
<1>3. \A n \in Nodes : \A i \in DOMAIN clientQ'[n] :
          \E j \in DOMAIN clientQ[n] : clientQ[n][j] = clientQ'[n][i]
  BY <1>1, <1>2
<1>4. Ended.kind = "eof"
  BY DEF Ended, Closed
<1>5. ASSUME NEW c \in Clients, inbox'[c] # inbox[c]
      PROVE  /\ op[c].node = m /\ inbox[c].kind = "open" /\ inbox'[c].kind = "eof"
             /\ cur'[Leader] # c /\ \A i \in DOMAIN clientQ'[Leader] : clientQ'[Leader][i].from # c
  <2>1. op[c].node = m /\ inbox[c].kind = "open" /\ inbox'[c].kind = "eof"
    BY <1>1, <1>4, <1>5
  <2>2. CASE m = Leader
    <3>1. cur'[Leader] = Nobody /\ clientQ'[Leader] = <<>>
      BY <1>1, <1>2, <2>2
    <3> QED
      BY <1>2, <2>1, <3>1
  <2>3. CASE m # Leader
    <3>1. cur'[Leader] = cur[Leader] /\ clientQ'[Leader] = clientQ[Leader]
      BY <1>1, <1>2, <2>3
    <3>2. cur[Leader] # c
      BY <2>1, <2>3, ForwardedLogged DEF Logged
    <3>3. \A i \in DOMAIN clientQ[Leader] : clientQ[Leader][i].from # c
      BY <1>2, <2>1, <2>3 DEF Addressed
    <3> QED
      BY <2>1, <3>1, <3>2, <3>3
  <2> QED
    BY <2>2, <2>3
<1>6. ASSUME NEW c \in Clients, cur[Leader] = c, cur'[Leader] # c
      PROVE  inbox'[c].kind \in {"eof", "reply"}
  <2>1. m = Leader
    BY <1>1, <1>2, <1>6
  <2>2. op[c].node = Leader /\ inbox[c].kind = "open"
    BY <1>6, ForwardedLogged DEF Logged
  <2> QED
    BY <1>1, <1>4, <2>1, <2>2
<1> QED
  BY <1>1, <1>3, <1>5, <1>6 DEF Effects

LEMMA ServerEffects ==
    ASSUME TypeInv, OrderInv, Addressed, Logged, NEW m \in Nodes, ServerSteps(m), ~LeaderBegin
    PROVE  Effects
<1>a. /\ Leader \in Nodes /\ inbox \in [Clients -> Reply] /\ Nobody \notin Clients
      /\ clientQ \in [Nodes -> Seq(ClientMsg)] /\ cur \in [Nodes -> Clients \cup {Nobody}]
      /\ db \in [Nodes -> [Keys -> Values \cup {None}]]
  BY Shapes
<1>1. CASE \/ Start(m) \/ MeshJoin(m) \/ MeshSkip(m) \/ MeshWait(m) \/ MeshAccept(m)
           \/ OpenClientPort(m) \/ LeaderSend \/ LeaderSkip
           \/ FollowerApply(m) \/ FollowerIgnore(m) \/ OutOfDescriptors(m)
  <2>1. UNCHANGED <<op, clientQ, inbox, cur>>
    BY <1>1 DEF Start, MeshJoin, MeshSkip, MeshWait, MeshAccept, OpenClientPort, LeaderSend, LeaderSkip,
       FollowerApply, FollowerIgnore, OutOfDescriptors, netVars, serverVars
  <2> QED
    BY <2>1 DEF Effects
<1>b. \A c \in Clients : op[c].key \in Keys
  BY Shapes
\* A request at the head of the queue of n that is a GET.
<1>2. ASSUME NEW n \in Nodes, AcceptClient(n, "GET") \/ AcceptClient(n, "DIRECT_GET")
      PROVE  LET c == Head(clientQ[n]).from
             IN /\ c \in Clients /\ op[c].type # "PUT"
                /\ Get(n) => \E r \in Reply : r.kind = "reply" /\ inbox' \in {inbox, [inbox EXCEPT ![c] = r]}
                /\ Get(n) /\ inbox' # inbox => inbox[c].kind = "open"
  <2>1. /\ clientQ[n] # <<>> /\ Head(clientQ[n]).type \in {"GET", "DIRECT_GET"}
        /\ clientQ' = [clientQ EXCEPT ![n] = Tail(clientQ[n])]
    BY <1>2 DEF AcceptClient
  <2>2. PICK c \in Clients : c = Head(clientQ[n]).from
    BY <2>1, TailEffects
  <2>3. op[c].type # "PUT"
    <3>1. Head(clientQ[n]) = clientQ[n][1] /\ 1 \in DOMAIN clientQ[n]
      BY <2>1, TailEffects
    <3> QED
      BY <2>1, <2>2, <3>1 DEF Addressed
  <2>4. PICK r : r = GetAnswer(db[n][op[c].key])
    OBVIOUS
  <2>5. db[n][op[c].key] \in Values \cup {None}
    BY <1>a, <1>b
  <2>6. r \in Reply /\ r.kind = "reply"
    BY <2>4, <2>5 DEF GetAnswer, Answer, Reply
  <2>7. Get(n) => inbox' = IF inbox[c].kind = "open" THEN [inbox EXCEPT ![c] = r] ELSE inbox
    BY <2>2, <2>4 DEF Get, Respond
  <2> QED
    BY <2>2, <2>3, <2>6, <2>7
<1>3. CASE LeaderGet
  <2>1. /\ pc[Leader] = "serve" /\ Get(Leader) /\ UNCHANGED <<op, cur>>
        /\ AcceptClient(Leader, "GET") \/ AcceptClient(Leader, "DIRECT_GET")
    BY <1>3 DEF LeaderGet
  <2>2. cur[Leader] = Nobody
    BY <2>1 DEF OrderInv, CurLast
  <2>3. clientQ[Leader] # <<>> /\ clientQ' = [clientQ EXCEPT ![Leader] = Tail(clientQ[Leader])]
    BY <2>1 DEF AcceptClient
  <2> QED
    BY <1>2, <1>a, <2>1, <2>2, <2>3, AnswerEffects
<1>4. CASE ThreadGet(m)
  <2>1. m # Leader /\ AcceptClient(m, "DIRECT_GET") /\ Get(m) /\ UNCHANGED <<op, cur>>
    BY <1>4 DEF ThreadGet, ThreadRuns
  <2>2. clientQ[m] # <<>> /\ clientQ' = [clientQ EXCEPT ![m] = Tail(clientQ[m])]
    BY <2>1 DEF AcceptClient
  <2> QED
    BY <1>2, <2>1, <2>2, AnswerEffects
<1>5. CASE ThreadDiscard(m)
  <2>1. /\ m # Leader /\ UNCHANGED <<op, cur>> /\ inbox' = inbox
        /\ clientQ[m] # <<>> /\ clientQ' = [clientQ EXCEPT ![m] = Tail(clientQ[m])]
    BY <1>5 DEF ThreadDiscard, ThreadRuns, AcceptClient
  <2>2. \A k \in Nodes : \A i \in DOMAIN clientQ'[k] :
           \E j \in DOMAIN clientQ[k] : clientQ[k][j] = clientQ'[k][i]
    <3>1. \A k \in Nodes : \A i \in DOMAIN clientQ'[k] :
             \E j \in DOMAIN clientQ[k] : clientQ[k][j] = clientQ'[k][i] /\ (k = m => j # 1)
      BY <2>1, TailEffects
    <3> QED
      BY <3>1
  <2> QED
    BY <2>1, <2>2 DEF Effects
<1>6. CASE LeaderCommit
  <2>1. /\ pc[Leader] = "send" /\ Respond(cur[Leader], Answer("OK", None))
        /\ cur' = [cur EXCEPT ![Leader] = Nobody] /\ UNCHANGED <<op, clientQ>>
    BY <1>6 DEF LeaderCommit
  <2>2. PICK c \in Clients : c = cur[Leader]
    BY <1>a, <2>1 DEF TypeInv, Forwarding
  <2>3. In(log, c) /\ inbox[c].kind = "open" /\ op[c].node = Leader
    BY <2>2, ForwardedLogged DEF Logged
  <2>4. PICK r : r = Answer("OK", None)
    OBVIOUS
  <2>5. r.kind = "reply" /\ inbox' = [inbox EXCEPT ![c] = r] /\ cur'[Leader] = Nobody
    BY <1>a, <2>1, <2>2, <2>3, <2>4 DEF Respond, Answer
  <2>6. \A i \in DOMAIN clientQ[Leader] : clientQ[Leader][i].from # c
    BY <2>3 DEF OrderInv, AskedOnce
  <2> QED
    BY <1>a, <2>1, <2>2, <2>3, <2>5, <2>6 DEF Effects
<1>7. CASE Aborts(m) \/ Crash(m) \/ CrashInSend(m)
  BY <1>7, DeathEffects DEF Aborts, Crash, CrashInSend
<1> QED
  BY <1>1, <1>3, <1>4, <1>5, <1>6, <1>7 DEF ServerSteps

-----------------------------------------------------------------------------
(* The steps keep the invariant. *)

\* Requests that only leave their queues are those of before.
LEMMA AddressedKept ==
    ASSUME TypeInv, Addressed, Effects
    PROVE  Addressed'
<1>1. Leader \in Nodes /\ clientQ \in [Nodes -> Seq(ClientMsg)]
  BY Shapes
<1>2. ASSUME NEW n \in Nodes, NEW i \in DOMAIN clientQ'[n]
      PROVE  LET m == clientQ'[n][i]
             IN op'[m.from].node = n /\ (m.type # "EOF" => m.type = op'[m.from].type)
  <2>1. PICK j \in DOMAIN clientQ[n] : clientQ[n][j] = clientQ'[n][i]
    BY DEF Effects
  <2>2. PICK m : m = clientQ[n][j]
    OBVIOUS
  <2>3. op[m.from].node = n /\ (m.type # "EOF" => m.type = op[m.from].type)
    BY <2>2 DEF Addressed
  <2> QED
    BY <2>1, <2>2, <2>3 DEF Effects
<1>3. ASSUME NEW i \in DOMAIN clientQ'[Leader], clientQ'[Leader][i].type # "EOF"
      PROVE  inbox'[clientQ'[Leader][i].from].kind = "open"
  <2>1. PICK j \in DOMAIN clientQ[Leader] : clientQ[Leader][j] = clientQ'[Leader][i]
    BY <1>1 DEF Effects
  <2>2. clientQ[Leader][j] \in ClientMsg
    BY <1>1
  <2>3. PICK c \in Clients : c = clientQ'[Leader][i].from
    BY <2>1, <2>2 DEF ClientMsg
  <2>4. inbox[c].kind = "open"
    BY <1>3, <2>1, <2>3 DEF Addressed
  <2>5. inbox'[c] = inbox[c]
    BY <2>3 DEF Effects
  <2> QED
    BY <2>3, <2>4, <2>5
<1> QED
  BY <1>2, <1>3 DEF Addressed

LEMMA LoggedKept ==
    ASSUME TypeInv, OrderInv, Logged, Effects, Continues, log' = log
    PROVE  Logged'
<1>1. Nobody \notin Clients
  BY Shapes
<1>2. ASSUME NEW c \in Clients, In(log, c)
      PROVE  /\ op'[c].type = "PUT" /\ op'[c].node = Leader
             /\ inbox'[c].kind \in (IF cur'[Leader] = c THEN {"open"} ELSE {"eof", "reply"})
  <2>1. /\ op[c].type = "PUT" /\ op[c].node = Leader
        /\ inbox[c].kind \in (IF cur[Leader] = c THEN {"open"} ELSE {"eof", "reply"})
    BY <1>2 DEF Logged
  <2>2. CASE cur'[Leader] = c
    <3>1. cur[Leader] = c /\ inbox'[c] = inbox[c]
      BY <1>1, <2>2 DEF Continues, Effects
    <3> QED
      BY <2>1, <2>2, <3>1 DEF Effects
  <2>3. CASE cur'[Leader] # c
    <3>1. inbox'[c].kind \in {"eof", "reply"}
      BY <2>1, <2>3 DEF Effects
    <3> QED
      BY <2>1, <2>3, <3>1 DEF Effects
  <2> QED
    BY <2>2, <2>3
<1>3. ASSUME NEW c \in Clients, op'[c].type = "PUT", inbox'[c].kind = "reply"
      PROVE  In(log, c)
  <2>1. CASE inbox'[c] = inbox[c]
    BY <1>3, <2>1 DEF Effects, Logged, Acked
  <2>2. CASE inbox'[c] # inbox[c]
    <3>1. cur[Leader] = c
      BY <1>3, <2>2 DEF Effects
    <3> QED
      BY <3>1, ForwardedLogged
  <2> QED
    BY <2>1, <2>2
<1>4. \A c \in Clients : In(log', c) <=> In(log, c)
  BY DEF In
<1> QED
  BY <1>2, <1>3, <1>4 DEF Logged, Acked, In

\* Unless the leader takes a PUT, followers are only struck off what is due.
LEMMA DueKept ==
    ASSUME TypeInv, History, Continues, NEW c \in Clients
    PROVE  due'[c] = {n \in due[c] : pc'[n] # "off" /\ ~Unsent(c, n)}
<1>1. ~Begins(c)
  BY NetAssumption DEF Begins, Continues, NetAssumption
<1> QED
  BY <1>1 DEF History

\* While c is forwarded, a follower that is still to come in the loop is reached
\* there, or struck off, or c is cut off.
LEMMA LoopDelivers ==
    ASSUME TypeInv, OrderInv, DeliveryInv, NEW m \in Nodes, ServerSteps(m), ~LeaderBegin,
           NEW c \in Clients, cur[Leader] = c, NEW n \in Followers, at[Leader] =< n,
           pc[n] # "off", ~Unsent(c, n), Effects
    PROVE  \/ Underway(n, c)'
           \/ cur'[Leader] = c /\ at'[Leader] =< n
           \/ inbox'[c].kind = "eof"
<1>a. /\ Leader \in Nodes /\ n \in Nodes /\ n # Leader /\ n \in Nat /\ n < N /\ N \in Nat
      /\ at \in [Nodes -> 0..N] /\ cur \in [Nodes -> Clients \cup {Nobody}] /\ Nobody \notin Clients
      /\ peerQ \in [Nodes -> Seq(Entry)] /\ inbox \in [Clients -> Reply]
  BY Shapes DEF Followers
<1>b. pc[Leader] = "send"
  BY <1>a DEF OrderInv, CurLast
<1>1. CASE LeaderSend
  <2>1. /\ cur' = cur /\ at' = [at EXCEPT ![Leader] = at[Leader] + 1]
        /\ peerQ' = [peerQ EXCEPT ![at[Leader]] = Append(peerQ[at[Leader]], AppendEntry(c))]
    BY <1>1 DEF LeaderSend, Tell
  <2>2. CASE at[Leader] = n
    <3>1. peerQ[n] \in Seq(Entry) /\ peerQ'[n] = Append(peerQ[n], AppendEntry(c))
      BY <1>a, <2>1, <2>2
    <3>2. Len(peerQ[n]) + 1 \in DOMAIN peerQ'[n] /\ peerQ'[n][Len(peerQ[n]) + 1] = AppendEntry(c)
      BY <3>1, EntryTypes
    <3> QED
      BY <3>2 DEF Underway
  <2>3. CASE at[Leader] # n
    <3>1. at[Leader] \in Nat /\ at'[Leader] = at[Leader] + 1
      BY <1>a, <2>1
    <3> QED
      BY <1>a, <2>1, <2>3, <3>1
  <2> QED
    BY <2>2, <2>3
<1>2. CASE LeaderSkip
  <2>1. /\ cur' = cur /\ at' = [at EXCEPT ![Leader] = at[Leader] + 1]
        /\ at[Leader] # Leader => ConnectFails(Leader, at[Leader])
    BY <1>2 DEF LeaderSkip, Skip
  <2>2. at[Leader] # n
    <3>1. ASSUME at[Leader] = n PROVE FALSE
      <4>1. fds[Leader] = FdLimit \/ ~CanReach(n)
        BY <1>a, <2>1, <3>1 DEF ConnectFails
      <4>2. up[n]
        BY <1>a DEF DeliveryInv, Running
      <4>3. Len(peerQ[n]) \in Nat /\ Slots \in Nat
        BY <1>a, NetAssumption DEF NetAssumption
      <4>4. fds[Leader] = FdLimit \/ Len(peerQ[n]) >= Slots
        BY <4>1, <4>2, <4>3 DEF CanReach
      <4> QED
        BY <1>b, <3>1, <4>4 DEF Unsent
    <3> QED
      BY <3>1
  <2>3. at[Leader] \in Nat /\ at'[Leader] = at[Leader] + 1
    BY <1>a, <2>1
  <2> QED
    BY <1>a, <2>1, <2>2, <2>3
<1>3. CASE LeaderCommit
  BY <1>a, <1>3 DEF LeaderCommit
<1>4. CASE LeaderGet
  BY <1>b, <1>4 DEF LeaderGet
<1>5. CASE Start(m) \/ MeshJoin(m) \/ MeshSkip(m)
  <2>1. /\ pc[m] # "send" /\ cur' = cur
        /\ \E x : at' = [at EXCEPT ![m] = x]
    BY <1>5 DEF Start, MeshJoin, MeshSkip, Skip
  <2>2. m # Leader
    BY <1>b, <2>1
  <2> QED
    BY <1>a, <2>1, <2>2
<1>6. CASE \/ MeshWait(m) \/ MeshAccept(m) \/ OpenClientPort(m)
           \/ FollowerApply(m) \/ FollowerIgnore(m) \/ ThreadGet(m) \/ ThreadDiscard(m) \/ OutOfDescriptors(m)
  <2>1. cur' = cur /\ at' = at
    BY <1>6 DEF MeshWait, MeshAccept, OpenClientPort, FollowerApply, FollowerIgnore, ThreadGet,
       ThreadDiscard, OutOfDescriptors, serverVars
  <2> QED
    BY <2>1
<1>7. CASE Aborts(m) \/ Crash(m) \/ CrashInSend(m)
  <2>1. /\ cur' = [cur EXCEPT ![m] = Nobody] /\ at' = at
        /\ inbox' = [d \in Clients |->
               IF op[d].node = m /\ inbox[d].kind = "open" THEN Ended ELSE inbox[d]]
    BY <1>7 DEF Aborts, Crash, CrashInSend, Dies, Vanish
  <2>2. CASE m # Leader
    <3>1. cur'[Leader] = cur[Leader]
      BY <1>a, <2>1, <2>2
    <3> QED
      BY <2>1, <3>1
  <2>3. CASE m = Leader
    <3>1. op[c].node = Leader /\ inbox[c].kind = "open"
      BY ForwardedLogged DEF DeliveryInv, Logged
    <3> QED
      BY <2>1, <2>3, <3>1 DEF Ended, Closed
  <2> QED
    BY <2>2, <2>3
<1> QED
  BY <1>1, <1>2, <1>3, <1>4, <1>5, <1>6, <1>7 DEF ServerSteps

LEMMA DeliveredKept ==
    ASSUME TypeInv, OrderInv, DeliveryInv, History, NEW m \in Nodes, ServerSteps(m), ~LeaderBegin,
           Effects, Continues, log' = log
    PROVE  Delivered'
<1>1. ASSUME NEW c \in Clients, due'[c] # {} PROVE In(log', c)
  <2>1. due[c] # {}
    BY <1>1, DueKept
  <2> QED
    BY <2>1 DEF DeliveryInv, Delivered
<1>2. ASSUME NEW c \in Clients, NEW n \in due'[c]
      PROVE  /\ n # Leader /\ pc'[n] \in {"serve", "hung"}
             /\ \/ Sent(n, c)'
                \/ cur'[Leader] = c /\ at'[Leader] =< n
                \/ inbox'[c].kind = "eof"
  <2>1. n \in due[c] /\ pc'[n] # "off" /\ ~Unsent(c, n)
    BY DueKept
  <2>2. n \in Nodes /\ n # Leader /\ pc[n] \in {"serve", "hung"}
    BY <2>1, Shapes DEF DeliveryInv, Delivered
  <2>3. n \in Followers
    BY <2>2 DEF Followers
  <2>4. pc'[n] \in {"serve", "hung"}
    BY <2>1, <2>2, <2>3, RunningSteps DEF DeliveryInv
  <2>5. CASE Sent(n, c)
    BY <2>1, <2>2, <2>3, <2>4, <2>5, SentStays
  <2>6. CASE cur[Leader] = c /\ at[Leader] =< n
    <3>1. \/ Underway(n, c)'
          \/ cur'[Leader] = c /\ at'[Leader] =< n
          \/ inbox'[c].kind = "eof"
      BY <2>1, <2>2, <2>3, <2>6, LoopDelivers
    <3> QED
      BY <2>2, <2>4, <3>1 DEF Sent, Underway
  <2>7. CASE inbox[c].kind = "eof"
    <3>1. inbox'[c] = inbox[c]
      BY <2>7 DEF Effects
    <3> QED
      BY <2>2, <2>4, <2>7, <3>1
  <2> QED
    BY <2>1, <2>5, <2>6, <2>7 DEF DeliveryInv, Delivered
<1> QED
  BY <1>1, <1>2 DEF Delivered, Sent, In, Underway

\* The leader takes the PUT of c, which joins the log.
LEMMA BeginFacts ==
    ASSUME TypeInv, OrderInv, DeliveryInv, History, LeaderBegin
    PROVE  \E c \in Clients :
              /\ clientQ[Leader] # <<>> /\ clientQ[Leader][1].from = c /\ 1 \in DOMAIN clientQ[Leader]
              /\ clientQ' = [clientQ EXCEPT ![Leader] = Tail(clientQ[Leader])]
              /\ UNCHANGED <<op, inbox, peerQ, db, up>> /\ at'[Leader] = 0
              /\ cur[Leader] = Nobody /\ cur'[Leader] = c
              /\ op[c].type = "PUT" /\ op[c].node = Leader /\ inbox[c].kind = "open"
              /\ ~In(log, c) /\ Extended(log, c, log')
<1>a. /\ Leader \in Nodes /\ at \in [Nodes -> 0..N] /\ log \in Seq(Clients) /\ Nobody \notin Clients
      /\ cur \in [Nodes -> Clients \cup {Nobody}]
  BY Shapes
<1>1. /\ pc[Leader] = "serve" /\ clientQ[Leader] # <<>> /\ Head(clientQ[Leader]).type = "PUT"
      /\ clientQ' = [clientQ EXCEPT ![Leader] = Tail(clientQ[Leader])]
      /\ UNCHANGED <<op, inbox, peerQ, db, up>>
      /\ at' = [at EXCEPT ![Leader] = 0] /\ cur' = [cur EXCEPT ![Leader] = Head(clientQ[Leader]).from]
  BY DEF LeaderBegin, AcceptClient
<1>2. PICK c \in Clients : c = Head(clientQ[Leader]).from
  BY <1>a, <1>1, TailEffects
<1>3. Head(clientQ[Leader]) = clientQ[Leader][1] /\ 1 \in DOMAIN clientQ[Leader]
  BY <1>a, <1>1, TailEffects
<1>4. at'[Leader] = 0 /\ cur'[Leader] = c
  BY <1>a, <1>1, <1>2
<1>5. op[c].type = "PUT" /\ op[c].node = Leader /\ inbox[c].kind = "open"
  BY <1>a, <1>1, <1>2, <1>3 DEF DeliveryInv, Addressed
<1>6. cur[Leader] = Nobody
  BY <1>1 DEF OrderInv, CurLast
<1>7. ~In(log, c)
  BY <1>2, <1>3 DEF OrderInv, AskedOnce
<1>8. Extended(log, c, log')
  <2>1. log' = Append(log, c)
    BY <1>a, <1>4, <1>6 DEF History
  <2> QED
    BY <1>a, <2>1, AppendOrder
<1> QED
  BY <1>1, <1>2, <1>3, <1>4, <1>5, <1>6, <1>7, <1>8

LEMMA BeginDelivery ==
    ASSUME TypeInv, OrderInv, DeliveryInv, History, LeaderBegin
    PROVE  DeliveryInv'
<1>1. PICK c \in Clients :
         /\ clientQ[Leader] # <<>> /\ clientQ[Leader][1].from = c /\ 1 \in DOMAIN clientQ[Leader]
         /\ clientQ' = [clientQ EXCEPT ![Leader] = Tail(clientQ[Leader])]
         /\ UNCHANGED <<op, inbox, peerQ, db, up>> /\ at'[Leader] = 0
         /\ cur[Leader] = Nobody /\ cur'[Leader] = c
         /\ op[c].type = "PUT" /\ op[c].node = Leader /\ inbox[c].kind = "open"
         /\ ~In(log, c) /\ Extended(log, c, log')
  BY BeginFacts
<1>2. Leader \in Nodes /\ Nobody \notin Clients /\ \A n \in Nodes : n \in Nat
  BY Shapes
<1>3. Running' /\ \A n \in Followers : pc[n] \in {"serve", "hung"} => pc'[n] \in {"serve", "hung", "off"}
  BY <1>2, RunningSteps DEF ServerSteps, DeliveryInv
<1>4. Addressed'
  <2>1. \A n \in Nodes : \A i \in DOMAIN clientQ'[n] :
           \E j \in DOMAIN clientQ[n] : clientQ[n][j] = clientQ'[n][i] /\ (n = Leader => j # 1)
    BY <1>1, <1>2, TailEffects
  <2>2. \A n \in Nodes : \A i \in DOMAIN clientQ'[n] :
           \E j \in DOMAIN clientQ[n] : clientQ[n][j] = clientQ'[n][i]
    BY <2>1
  <2>3. ASSUME NEW n \in Nodes, NEW i \in DOMAIN clientQ'[n]
        PROVE  LET m == clientQ'[n][i]
               IN /\ op'[m.from].node = n /\ (m.type # "EOF" => m.type = op'[m.from].type)
                  /\ n = Leader /\ m.type # "EOF" => inbox'[m.from].kind = "open"
    <3>1. PICK j \in DOMAIN clientQ[n] : clientQ[n][j] = clientQ'[n][i]
      BY <2>2
    <3>2. PICK m : m = clientQ[n][j]
      OBVIOUS
    <3>3. /\ op[m.from].node = n /\ (m.type # "EOF" => m.type = op[m.from].type)
          /\ n = Leader /\ m.type # "EOF" => inbox[m.from].kind = "open"
      BY <3>2 DEF DeliveryInv, Addressed
    <3> QED
      BY <1>1, <3>1, <3>2, <3>3
  <2> QED
    BY <1>2, <2>3 DEF Addressed
<1>5. Logged'
  <2>1. ASSUME NEW d \in Clients, In(log', d)
        PROVE  /\ op'[d].type = "PUT" /\ op'[d].node = Leader
               /\ inbox'[d].kind \in (IF cur'[Leader] = d THEN {"open"} ELSE {"eof", "reply"})
    <3>1. CASE d = c
      BY <1>1, <3>1
    <3>2. CASE d # c
      <4>1. In(log, d)
        BY <1>1, <2>1, <3>2 DEF Extended
      <4>2. cur[Leader] # d
        BY <1>1, <1>2
      <4> QED
        BY <1>1, <3>2, <4>1, <4>2 DEF DeliveryInv, Logged
    <3> QED
      BY <3>1, <3>2
  <2>2. \A d \in Clients : op'[d].type = "PUT" /\ inbox'[d].kind = "reply" => In(log', d)
    BY <1>1 DEF DeliveryInv, Logged, Acked, Extended
  <2> QED
    BY <2>1, <2>2 DEF Logged, Acked, In
<1>6. Delivered'
  <2>1. ASSUME NEW d \in Clients, NEW n \in due'[d]
        PROVE  /\ In(log', d) /\ n # Leader /\ pc'[n] \in {"serve", "hung"}
               /\ \/ Sent(n, d)'
                  \/ cur'[Leader] = d /\ at'[Leader] =< n
                  \/ inbox'[d].kind = "eof"
    <3>1. CASE d = c
      <4>1. due'[c] = {k \in Nodes : Follows(k)}
        BY <1>1 DEF History, Begins
      <4>2. n \in Nodes /\ Follows(n)
        BY <2>1, <3>1, <4>1
      <4>3. In(log', c) /\ at'[Leader] =< n
        BY <1>1, <1>2, <4>2 DEF Extended
      <4> QED
        BY <1>1, <3>1, <4>2, <4>3 DEF Follows, Serving
    <3>2. CASE d # c
      <4>1. ~Begins(d)
        BY <1>1, <3>2 DEF Begins
      <4>2. n \in due[d] /\ pc'[n] # "off"
        BY <2>1, <4>1 DEF History
      <4>3. /\ n \in Nodes /\ n # Leader /\ pc[n] \in {"serve", "hung"} /\ In(log, d)
            /\ Sent(n, d) \/ inbox[d].kind = "eof"
        BY <1>1, <1>2, <4>2, Shapes DEF DeliveryInv, Delivered
      <4>4. n \in Followers
        BY <4>3 DEF Followers
      <4>5. Sent(n, d) => Sent(n, d)'
        BY <1>2, <4>2, <4>3, <4>4, SentStays DEF ServerSteps
      <4>6. In(log', d) /\ pc'[n] \in {"serve", "hung"}
        BY <1>1, <1>3, <4>2, <4>3, <4>4 DEF Extended
      <4> QED
        BY <1>1, <4>3, <4>5, <4>6
    <3> QED
      BY <3>1, <3>2
  <2> QED
    BY <2>1 DEF Delivered, Sent, In, Underway
<1> QED
  BY <1>3, <1>4, <1>5, <1>6 DEF DeliveryInv

\* A client that calls is new to the servers.
LEMMA ClientFacts ==
    ASSUME TypeInv, OrderInv, History, ClientNext, UNCHANGED serverVars
    PROVE  /\ UNCHANGED <<op, up, peerQ, pc, at, cur, db, log>>
           /\ \A n \in Nodes : applied'[n] = applied[n]
           /\ \A c \in Clients : due'[c] \subseteq due[c]
           /\ \A c \in Clients : inbox'[c] # inbox[c] =>
                 cpc[c] = "start" /\ inbox'[c].kind = "open" /\ ~In(log, c)
           /\ \/ clientQ' = clientQ
              \/ \E c \in Clients, t \in {"PUT", "GET", "DIRECT_GET", "EOF"} :
                    /\ clientQ' = [clientQ EXCEPT ![op[c].node] =
                                      Append(clientQ[op[c].node], [type |-> t, from |-> c])]
                    /\ t # "EOF" => t = op[c].type /\ inbox'[c].kind = "open"
<1>a. /\ inbox \in [Clients -> Reply] /\ peerQ \in [Nodes -> Seq(Entry)] /\ Leader \in Nodes
      /\ cur \in [Nodes -> Clients \cup {Nobody}] /\ Nobody \notin Clients
  BY Shapes
<1>1. UNCHANGED <<op, up, peerQ, pc, at, cur, db>> /\ log' = log
  BY DEF ClientNext, ClientStep, ClientCalls, ClientRefused, ClientKilled, ClientExits, ClientAborts,
         netVars, serverVars, History
<1>2. \A n \in Nodes : applied'[n] = applied[n]
  BY <1>a, <1>1, QuietSame, QuietHistory DEF Quiet
<1>3. \A c \in Clients : due'[c] \subseteq due[c]
  <2>1. \A c \in Clients : ~Begins(c)
    BY <1>a, <1>1 DEF Begins
  <2> QED
    BY <2>1 DEF History
<1>4. PICK c \in Clients : ClientStep(c) \/ ClientKilled(c)
  BY DEF ClientNext
<1>5. CASE ClientCalls(c)
  <2>1. /\ cpc[c] = "start" /\ inbox' = [inbox EXCEPT ![c] = Waiting]
        /\ clientQ' = [clientQ EXCEPT ![op[c].node] =
                         Append(clientQ[op[c].node], [type |-> op[c].type, from |-> c])]
    BY <1>5 DEF ClientCalls, Call
  <2>2. inbox'[c].kind = "open" /\ \A d \in Clients \ {c} : inbox'[d] = inbox[d]
    BY <1>a, <2>1 DEF Waiting, Closed
  <2>3. ~In(log, c)
    BY <2>1 DEF OrderInv, AskedOnce
  <2>4. op[c].type \in {"PUT", "GET", "DIRECT_GET", "EOF"}
    BY OpTypes DEF TypeInv
  <2> QED
    BY <1>1, <1>2, <1>3, <2>1, <2>2, <2>3, <2>4
<1>6. CASE ClientKilled(c)
  <2>1. /\ inbox' = inbox
        /\ clientQ' = [clientQ EXCEPT ![op[c].node] =
                         Append(clientQ[op[c].node], [type |-> "EOF", from |-> c])]
    BY <1>6 DEF ClientKilled, Call
  <2>2. \E d \in Clients, t \in {"PUT", "GET", "DIRECT_GET", "EOF"} :
           /\ clientQ' = [clientQ EXCEPT ![op[d].node] =
                             Append(clientQ[op[d].node], [type |-> t, from |-> d])]
           /\ t # "EOF" => t = op[d].type /\ inbox'[d].kind = "open"
    BY <2>1
  <2> QED
    BY <1>1, <1>2, <1>3, <2>1, <2>2
<1>7. CASE ClientRefused(c) \/ ClientExits(c) \/ ClientAborts(c)
  <2>1. inbox' = inbox /\ clientQ' = clientQ
    BY <1>7 DEF ClientRefused, ClientExits, ClientAborts, netVars
  <2> QED
    BY <1>1, <1>2, <1>3, <2>1
<1> QED
  BY <1>4, <1>5, <1>6, <1>7 DEF ClientStep

LEMMA ClientDelivery ==
    ASSUME TypeInv, OrderInv, DeliveryInv, History, ClientNext, UNCHANGED serverVars
    PROVE  DeliveryInv'
<1>1. /\ UNCHANGED <<op, up, peerQ, pc, at, cur, db, log>>
      /\ \A n \in Nodes : applied'[n] = applied[n]
      /\ \A c \in Clients : due'[c] \subseteq due[c]
      /\ \A c \in Clients : inbox'[c] # inbox[c] =>
            cpc[c] = "start" /\ inbox'[c].kind = "open" /\ ~In(log, c)
  BY ClientFacts
<1>2. \/ clientQ' = clientQ
      \/ \E c \in Clients, t \in {"PUT", "GET", "DIRECT_GET", "EOF"} :
            /\ clientQ' = [clientQ EXCEPT ![op[c].node] =
                              Append(clientQ[op[c].node], [type |-> t, from |-> c])]
            /\ t # "EOF" => t = op[c].type /\ inbox'[c].kind = "open"
  BY ClientFacts
<1>3. /\ Leader \in Nodes /\ clientQ \in [Nodes -> Seq(ClientMsg)]
      /\ \A c \in Clients : op[c].node \in Nodes
  BY Shapes
<1>4. Running'
  BY <1>1 DEF DeliveryInv, Running
<1>5. Logged'
  <2>1. \A d \in Clients : In(log, d) => inbox'[d] = inbox[d]
    BY <1>1
  <2>2. \A d \in Clients : inbox'[d].kind = "reply" => inbox'[d] = inbox[d]
    BY <1>1
  <2> QED
    BY <1>1, <2>1, <2>2 DEF DeliveryInv, Logged, Acked, In
<1>6. Delivered'
  <2>1. \A d \in Clients : In(log, d) => inbox'[d] = inbox[d]
    BY <1>1
  <2>2. \A d \in Clients, n \in Nodes : Sent(n, d) => Sent(n, d)'
    BY <1>1 DEF Sent, In, Underway
  <2>3. ASSUME NEW d \in Clients, NEW n \in due'[d]
        PROVE  /\ In(log, d) /\ n # Leader /\ pc[n] \in {"serve", "hung"}
               /\ Sent(n, d)' \/ (cur[Leader] = d /\ at[Leader] =< n) \/ inbox'[d].kind = "eof"
    <3>1. n \in due[d] /\ n \in Nodes
      BY <1>1, Shapes
    <3>2. /\ In(log, d) /\ n # Leader /\ pc[n] \in {"serve", "hung"}
          /\ Sent(n, d) \/ (cur[Leader] = d /\ at[Leader] =< n) \/ inbox[d].kind = "eof"
      BY <3>1 DEF DeliveryInv, Delivered
    <3> QED
      BY <2>1, <2>2, <3>1, <3>2
  <2> QED
    BY <1>1, <2>3 DEF Delivered, Sent, In, Underway
\* What is said of a request that waited before.
<1>7. ASSUME NEW n \in Nodes, NEW i \in DOMAIN clientQ[n], NEW m, m = clientQ[n][i]
      PROVE  /\ op[m.from].node = n /\ (m.type # "EOF" => m.type = op[m.from].type)
             /\ n = Leader /\ m.type # "EOF" => inbox'[m.from].kind = "open"
  <2>1. m \in ClientMsg
    BY <1>3, <1>7
  <2>2. PICK d \in Clients : d = m.from
    BY <2>1 DEF ClientMsg
  <2>3. n = Leader => cpc[d] # "start"
    BY <1>7, <2>2 DEF OrderInv, AskedOnce
  <2> QED
    BY <1>1, <1>7, <2>2, <2>3 DEF DeliveryInv, Addressed
<1>8. ASSUME NEW n \in Nodes, NEW i \in DOMAIN clientQ'[n], NEW m, m = clientQ'[n][i]
      PROVE  /\ op[m.from].node = n /\ (m.type # "EOF" => m.type = op[m.from].type)
             /\ n = Leader /\ m.type # "EOF" => inbox'[m.from].kind = "open"
  <2>1. CASE clientQ'[n] = clientQ[n]
    BY <1>7, <1>8, <2>1
  <2>2. CASE clientQ'[n] # clientQ[n]
    <3>1. PICK c \in Clients, t \in {"PUT", "GET", "DIRECT_GET", "EOF"} :
             /\ clientQ' = [clientQ EXCEPT ![op[c].node] =
                               Append(clientQ[op[c].node], [type |-> t, from |-> c])]
             /\ t # "EOF" => t = op[c].type /\ inbox'[c].kind = "open"
      BY <1>2, <2>2
    <3>2. n = op[c].node /\ clientQ'[n] = Append(clientQ[n], [type |-> t, from |-> c])
      BY <1>3, <2>2, <3>1
    <3>3. \/ i \in DOMAIN clientQ[n] /\ clientQ'[n][i] = clientQ[n][i]
          \/ clientQ'[n][i] = [type |-> t, from |-> c]
      BY <1>3, <1>8, <3>2
    <3>4. CASE clientQ'[n][i] = [type |-> t, from |-> c]
      BY <1>8, <3>1, <3>2, <3>4
    <3>5. CASE i \in DOMAIN clientQ[n] /\ clientQ'[n][i] = clientQ[n][i]
      BY <1>7, <1>8, <3>5
    <3> QED
      BY <3>3, <3>4, <3>5
  <2> QED
    BY <2>1, <2>2
<1>9. Addressed'
  <2>1. ASSUME NEW n \in Nodes, NEW i \in DOMAIN clientQ'[n]
        PROVE  LET m == clientQ'[n][i]
               IN /\ op'[m.from].node = n /\ (m.type # "EOF" => m.type = op'[m.from].type)
                  /\ n = Leader /\ m.type # "EOF" => inbox'[m.from].kind = "open"
    BY <1>1, <1>8
  <2> QED
    BY <1>3, <2>1 DEF Addressed
<1> QED
  BY <1>4, <1>5, <1>6, <1>9 DEF DeliveryInv

LEMMA InitDelivery == Init => DeliveryInv
<1> SUFFICES ASSUME Init PROVE DeliveryInv
  OBVIOUS
<1>1. Leader \in Nodes /\ log = <<>> /\ DOMAIN log = {}
  BY NodesInt DEF Init
<1>2. \A n \in Nodes : clientQ[n] = <<>> /\ DOMAIN clientQ[n] = {}
  BY DEF Init
<1>3. Running
  BY DEF Init, Running
<1>4. Addressed
  BY <1>1, <1>2 DEF Addressed
<1>5. Logged
  BY <1>1 DEF Init, Logged, Acked, In, Closed
<1>6. Delivered
  BY DEF Init, Delivered
<1> QED
  BY <1>3, <1>4, <1>5, <1>6 DEF DeliveryInv

LEMMA ServerNextSteps == ServerNext => \E m \in Nodes : ServerSteps(m)
BY DEF ServerNext, ServerSteps, MainStep, ThreadStep, Fails, LeaderStep

\* What a step of a server but LeaderBegin has in common.
LEMMA OtherSteps ==
    ASSUME TypeInv, TypeInv', OrderInv, DeliveryInv, History, UNCHANGED cpc,
           NEW m \in Nodes, ServerSteps(m), ~LeaderBegin
    PROVE  Effects /\ Continues /\ log' = log
<1>1. Effects
  BY ServerEffects DEF DeliveryInv
<1>2. Continues
  BY ContinueSteps DEF OrderInv, ServerSteps
<1>3. log' = log
  BY <1>2, ContinueKeeps DEF OrderInv
<1> QED
  BY <1>1, <1>2, <1>3

LEMMA NextDelivery ==
    TypeInv /\ TypeInv' /\ OrderInv /\ DeliveryInv /\ [Next]_vars => DeliveryInv'
<1> SUFFICES ASSUME TypeInv, TypeInv', OrderInv, DeliveryInv, [Next]_vars PROVE DeliveryInv'
  OBVIOUS
<1>1. CASE UNCHANGED vars
  BY <1>1 DEF vars, netVars, serverVars, clientVars, historyVars, DeliveryInv, Running, Addressed,
              Logged, Delivered, Acked, Sent, Underway, In
<1>2. CASE ServerNext /\ UNCHANGED clientVars /\ History
  <2>1. PICK m \in Nodes : ServerSteps(m)
    BY <1>2, ServerNextSteps
  <2>2. CASE LeaderBegin
    BY <1>2, <2>2, BeginDelivery
  <2>3. CASE ~LeaderBegin
    <3>1. Effects /\ Continues /\ log' = log
      BY <1>2, <2>1, <2>3, OtherSteps DEF clientVars
    <3>2. Running'
      BY <2>1, RunningSteps DEF DeliveryInv
    <3>3. Addressed' /\ Logged'
      BY <3>1, AddressedKept, LoggedKept DEF DeliveryInv
    <3>4. Delivered'
      BY <1>2, <2>1, <2>3, <3>1, DeliveredKept
    <3> QED
      BY <3>2, <3>3, <3>4 DEF DeliveryInv
  <2> QED
    BY <2>2, <2>3
<1>3. CASE ClientNext /\ UNCHANGED serverVars /\ History
  BY <1>3, ClientDelivery
<1> QED
  BY <1>1, <1>2, <1>3 DEF Next, Rest

\* The leader answers a PUT when its loop over allPorts is done (server.cpp):
\* then each follower that was serving when it began and still runs has stored
\* the PUT or has it in its accept queue, unless the leader had no descriptor
\* left for the connection or that queue stayed full.
THEOREM AckedDeliveredCorrect == Spec => []AckedDelivered
<1>1. TypeInv /\ DeliveryInv => AckedDelivered
  <2> SUFFICES ASSUME TypeInv, DeliveryInv, NEW c \in Clients, Acked(c), NEW n \in due[c]
               PROVE  In(applied[n], c) \/ Underway(n, c)
    BY DEF AckedDelivered
  <2>1. In(log, c) /\ inbox[c].kind = "reply"
    BY DEF DeliveryInv, Logged, Acked
  <2>2. cur[Leader] # c
    BY <2>1 DEF DeliveryInv, Logged
  <2> QED
    BY <2>1, <2>2 DEF DeliveryInv, Delivered, Sent
<1> QED
  BY <1>1, InitTypes, NextTypes, InitOrder, NextOrder, InitDelivery, NextDelivery, PTL DEF Spec

-----------------------------------------------------------------------------
(* The databases. *)

\* The last of the PUTs of a key in an order of them.
LastIn(s, c) ==
    In(s, c) /\ \A d \in Clients : op[d].key = op[c].key => ~Before(s, c, d)

\* A follower's database has the last value of each key that it stored; the
\* leader's has the last that was answered, unless a later one is forwarded.
FollowerStored(n) ==
    \A c \in Clients : LastIn(applied[n], c) => db[n][op[c].key] = op[c].value

LeaderStored ==
    \A c \in Clients :
        LastIn(log, c) /\ inbox[c].kind = "reply" => db[Leader][op[c].key] = op[c].value

Stored == LeaderStored /\ \A n \in Followers : FollowerStored(n)

\* The database d after the PUT of c.
With(d, c) == [d EXCEPT ![op[c].key] = op[c].value]

LEMMA WithPut ==
    ASSUME TypeInv, NEW n \in Nodes, NEW c \in Clients, NEW d \in Clients
    PROVE  /\ With(db[n], c)[op[c].key] = op[c].value
           /\ op[d].key # op[c].key => With(db[n], c)[op[d].key] = db[n][op[d].key]
<1>1. db[n] \in [Keys -> Values \cup {None}] /\ op[c].key \in Keys /\ op[d].key \in Keys
  BY Shapes
<1> QED
  BY <1>1 DEF With

\* A PUT that joins the order s makes the others of its key obsolete.
LEMMA LastExtended ==
    ASSUME NEW s, NEW t, NEW x \in Clients, Extended(s, x, t), NEW c \in Clients, c # x, LastIn(t, c)
    PROVE  LastIn(s, c) /\ op[c].key # op[x].key
<1>1. In(s, c) /\ Before(t, c, x)
  BY DEF LastIn, Extended
<1>2. op[c].key # op[x].key
  BY <1>1 DEF LastIn
<1>3. \A d \in Clients : op[d].key = op[c].key => ~Before(s, c, d)
  BY DEF LastIn, Extended
<1> QED
  BY <1>1, <1>2, <1>3 DEF LastIn

LEMMA FollowerStores ==
    ASSUME TypeInv, History, op' = op, NEW n \in Followers, FollowerStored(n),
           FollowerApply(n) \/ (~Applies(n) /\ db'[n] = db[n])
    PROVE  FollowerStored(n)'
<1>a. n \in Nodes /\ n # Leader /\ applied \in [Nodes -> Seq(Clients)] /\ peerQ \in [Nodes -> Seq(Entry)]
      /\ db \in [Nodes -> [Keys -> Values \cup {None}]]
  BY Shapes DEF Followers
<1>1. CASE ~Applies(n) /\ db'[n] = db[n]
  <2>1. applied'[n] = applied[n]
    BY <1>a, <1>1, QuietHistory
  <2> QED
    BY <1>1, <2>1 DEF FollowerStored, LastIn, In, Before
<1>2. CASE FollowerApply(n)
  <2>1. /\ Serving(n) /\ pc' = pc /\ peerQ[n] # <<>> /\ Head(peerQ[n]).type = "APPEND"
        /\ peerQ' = [peerQ EXCEPT ![n] = Tail(peerQ[n])]
    BY <1>2 DEF FollowerApply, AcceptPeer
  <2>2. Len(peerQ'[n]) < Len(peerQ[n]) /\ Head(peerQ[n]) \in Entry
    BY <1>a, <2>1
  <2>3. PICK x \in Clients : x = Head(peerQ[n]).put
    BY <2>1, <2>2 DEF Entry
  <2>4. Applies(n)
    BY <2>1, <2>2 DEF Applies, Follows, Serving
  <2>5. Extended(applied[n], x, applied'[n])
    <3>1. applied'[n] = Append(applied[n], x)
      BY <1>a, <2>3, <2>4 DEF History
    <3> QED
      BY <1>a, <3>1, AppendOrder
  <2>6. db'[n] = With(db[n], x)
    BY <1>a, <1>2, <2>3 DEF FollowerApply, StoredAt, With
  <2>7. ASSUME NEW c \in Clients, LastIn(applied'[n], c) PROVE db'[n][op[c].key] = op[c].value
    <3>1. CASE c = x
      BY <1>a, <2>6, <3>1, WithPut
    <3>2. CASE c # x
      <4>1. LastIn(applied[n], c) /\ op[c].key # op[x].key
        BY <2>5, <2>7, <3>2, LastExtended
      <4> QED
        BY <1>a, <2>6, <4>1, WithPut DEF FollowerStored
    <3> QED
      BY <3>1, <3>2
  <2> QED
    BY <2>7 DEF FollowerStored, LastIn, In, Before
<1> QED
  BY <1>1, <1>2

\* What the leader stores is the last of its log.
LEMMA LeaderStores ==
    ASSUME TypeInv, OrderInv, LeaderStored, op' = op, log' = log,
           NEW x \in Clients \cup {Nobody}, x = cur[Leader],
           db'[Leader] = db[Leader] \/ (x \in Clients /\ db'[Leader] = With(db[Leader], x)),
           \A c \in Clients : In(log, c) /\ inbox'[c].kind = "reply" =>
               inbox[c].kind = "reply" \/ (c = x /\ db'[Leader] = With(db[Leader], x))
    PROVE  LeaderStored'
<1>a. Leader \in Nodes /\ log \in Seq(Clients) /\ Nobody \notin Clients
  BY Shapes
<1>1. ASSUME NEW c \in Clients, LastIn(log, c), inbox'[c].kind = "reply"
      PROVE  db'[Leader][op[c].key] = op[c].value
  <2>1. CASE db'[Leader] = db[Leader] /\ inbox[c].kind = "reply"
    BY <1>1, <2>1 DEF LeaderStored
  <2>2. CASE x \in Clients /\ db'[Leader] = With(db[Leader], x)
    <3>1. CASE c = x
      BY <1>a, <2>2, <3>1, WithPut
    <3>2. CASE c # x
      <4>1. inbox[c].kind = "reply"
        BY <1>1, <3>2 DEF LastIn
      <4>2. Before(log, c, x)
        <5>1. PICK i \in DOMAIN log : log[i] = c
          BY <1>1 DEF LastIn, In
        <5>2. log[Len(log)] = x
          BY <1>a, <2>2 DEF OrderInv, CurLast
        <5>3. Len(log) \in DOMAIN log /\ i < Len(log)
          BY <1>a, <3>2, <5>1, <5>2
        <5> QED
          BY <5>1, <5>2, <5>3 DEF Before
      <4>3. op[c].key # op[x].key
        BY <1>1, <2>2, <4>2 DEF LastIn
      <4> QED
        BY <1>1, <1>a, <2>2, <4>1, <4>3, WithPut DEF LeaderStored
    <3> QED
      BY <3>1, <3>2
  <2>3. CASE c = x /\ db'[Leader] = With(db[Leader], x)
    BY <2>2, <2>3
  <2> QED
    BY <1>1, <2>1, <2>2, <2>3 DEF LastIn
<1> QED
  BY <1>1 DEF LeaderStored, LastIn, In, Before

\* Which databases a step changes, and that nobody but LeaderCommit answers a PUT.
LEMMA WhoStores ==
    ASSUME TypeInv, DeliveryInv, NEW m \in Nodes, ServerSteps(m), ~LeaderBegin
    PROVE  /\ \A n \in Followers : FollowerApply(n) \/ db'[n] = db[n]
           /\ \/ db'[Leader] = db[Leader]
              \/ cur[Leader] \in Clients /\ db'[Leader] = With(db[Leader], cur[Leader])
           /\ \A c \in Clients : cur[Leader] = c /\ cur'[Leader] # c /\ inbox'[c].kind = "reply" =>
                 inbox[c].kind = "reply" \/ db'[Leader] = With(db[Leader], c)
<1>a. /\ Leader \in Nodes /\ db \in [Nodes -> [Keys -> Values \cup {None}]]
      /\ pc \in [Nodes -> {"off", "connect", "accept", "serve", "send", "hung"}]
  BY Shapes
<1>1. CASE \/ Start(m) \/ MeshJoin(m) \/ MeshSkip(m) \/ MeshWait(m) \/ MeshAccept(m)
           \/ OpenClientPort(m) \/ LeaderGet \/ LeaderSend \/ LeaderSkip
           \/ FollowerIgnore(m) \/ ThreadGet(m) \/ ThreadDiscard(m) \/ OutOfDescriptors(m)
  <2>1. UNCHANGED <<db, cur>>
    BY <1>1 DEF Start, MeshJoin, MeshSkip, MeshWait, MeshAccept, OpenClientPort, LeaderGet, LeaderSend,
       LeaderSkip, FollowerIgnore, ThreadGet, ThreadDiscard, OutOfDescriptors, serverVars
  <2> QED
    BY <2>1
<1>2. CASE FollowerApply(m)
  <2>1. cur' = cur /\ m # Leader /\ \A n \in Nodes \ {m} : db'[n] = db[n]
    BY <1>a, <1>2 DEF FollowerApply, Serving, StoredAt
  <2> QED
    BY <1>a, <1>2, <2>1 DEF Followers
<1>3. CASE LeaderCommit
  <2>1. /\ cur[Leader] \in Clients /\ \A n \in Nodes \ {Leader} : db'[n] = db[n]
        /\ db'[Leader] = With(db[Leader], cur[Leader])
    BY <1>a, <1>3 DEF LeaderCommit, StoredAt, TypeInv, Forwarding, With
  <2> QED
    BY <2>1 DEF Followers
<1>4. CASE Aborts(m) \/ Crash(m) \/ CrashInSend(m)
  <2>1. /\ db' = db \/ (pc[m] = "send" /\ StoredAt(m, cur[m]))
        /\ inbox' = [c \in Clients |->
               IF op[c].node = m /\ inbox[c].kind = "open" THEN Ended ELSE inbox[c]]
    BY <1>4 DEF Aborts, Crash, CrashInSend, Dies, Vanish
  <2>2. \A c \in Clients : inbox'[c].kind = "reply" => inbox[c].kind = "reply"
    BY <2>1 DEF Ended, Closed
  <2>3. CASE db' = db
    BY <2>2, <2>3
  <2>4. CASE pc[m] = "send" /\ StoredAt(m, cur[m])
    <3>1. m = Leader
      BY <2>4 DEF DeliveryInv, Running
    <3>2. /\ cur[Leader] \in Clients /\ \A n \in Nodes \ {Leader} : db'[n] = db[n]
          /\ db'[Leader] = With(db[Leader], cur[Leader])
      BY <1>a, <2>4, <3>1 DEF StoredAt, TypeInv, Forwarding, With
    <3> QED
      BY <2>2, <3>2 DEF Followers
  <2> QED
    BY <2>1, <2>3, <2>4
<1> QED
  BY <1>1, <1>2, <1>3, <1>4 DEF ServerSteps

LEMMA ServerStored ==
    ASSUME TypeInv, OrderInv, DeliveryInv, Stored, History, NEW m \in Nodes, ServerSteps(m),
           ~LeaderBegin, Effects, log' = log
    PROVE  Stored'
<1>1. op' = op
  BY DEF Effects
<1>2. ASSUME NEW n \in Followers PROVE FollowerStored(n)'
  <2>1. FollowerApply(n) \/ (~Applies(n) /\ db'[n] = db[n])
    BY WhoApplies, WhoStores
  <2> QED
    BY <1>1, <2>1, FollowerStores DEF Stored
<1>3. PICK x \in Clients \cup {Nobody} : x = cur[Leader]
  BY Shapes
<1>4. db'[Leader] = db[Leader] \/ (x \in Clients /\ db'[Leader] = With(db[Leader], x))
  BY <1>3, WhoStores
<1>5. ASSUME NEW c \in Clients, In(log, c), inbox'[c].kind = "reply", inbox[c].kind # "reply"
      PROVE  c = x /\ db'[Leader] = With(db[Leader], x)
  <2>1. op[c].type = "PUT"
    BY <1>5 DEF DeliveryInv, Logged
  <2>2. cur[Leader] = c /\ cur'[Leader] # c
    BY <1>5, <2>1 DEF Effects
  <2> QED
    BY <1>3, <1>5, <2>2, WhoStores
<1>6. LeaderStored'
  BY <1>1, <1>3, <1>4, <1>5, LeaderStores DEF Stored
<1> QED
  BY <1>2, <1>6 DEF Stored, Followers

LEMMA BeginStored ==
    ASSUME TypeInv, OrderInv, DeliveryInv, Stored, History, LeaderBegin
    PROVE  Stored'
<1>1. PICK x \in Clients :
         /\ UNCHANGED <<op, inbox, peerQ, db, up>> /\ inbox[x].kind = "open"
         /\ Extended(log, x, log')
  BY BeginFacts
<1>2. ASSUME NEW n \in Followers PROVE FollowerStored(n)'
  <2>1. ~Applies(n)
    BY <1>1, <1>2, QuietSame DEF Quiet, Followers
  <2> QED
    BY <1>1, <2>1, FollowerStores DEF Stored
<1>3. ASSUME NEW c \in Clients, LastIn(log', c), inbox'[c].kind = "reply"
      PROVE  db'[Leader][op[c].key] = op[c].value
  <2>1. c # x
    BY <1>1, <1>3
  <2>2. LastIn(log, c)
    BY <1>1, <1>3, <2>1, LastExtended
  <2> QED
    BY <1>1, <1>3, <2>2 DEF Stored, LeaderStored
<1>4. LeaderStored'
  BY <1>1, <1>3 DEF LeaderStored, LastIn, In, Before
<1> QED
  BY <1>2, <1>4 DEF Stored, Followers

LEMMA ClientStored ==
    ASSUME TypeInv, OrderInv, Stored, History, ClientNext, UNCHANGED serverVars
    PROVE  Stored'
<1>1. /\ UNCHANGED <<op, db, log>> /\ \A n \in Nodes : applied'[n] = applied[n]
      /\ \A c \in Clients : inbox'[c].kind = "reply" => inbox[c].kind = "reply"
  BY ClientFacts
<1>2. LeaderStored'
  BY <1>1 DEF Stored, LeaderStored, LastIn, In, Before
<1>3. ASSUME NEW n \in Followers PROVE FollowerStored(n)'
  <2>1. applied'[n] = applied[n]
    BY <1>1 DEF Followers
  <2> QED
    BY <1>1, <2>1 DEF Stored, FollowerStored, LastIn, In, Before
<1> QED
  BY <1>2, <1>3 DEF Stored, Followers

LEMMA InitStored == Init => Stored
<1> SUFFICES ASSUME Init PROVE Stored
  OBVIOUS
<1>1. log = <<>> /\ DOMAIN log = {} /\ \A n \in Followers : applied[n] = <<>> /\ DOMAIN applied[n] = {}
  BY DEF Init, Followers
<1> QED
  BY <1>1 DEF Stored, LeaderStored, FollowerStored, LastIn, In

LEMMA NextStored ==
    TypeInv /\ TypeInv' /\ OrderInv /\ DeliveryInv /\ Stored /\ [Next]_vars => Stored'
<1> SUFFICES ASSUME TypeInv, TypeInv', OrderInv, DeliveryInv, Stored, [Next]_vars PROVE Stored'
  OBVIOUS
<1>1. CASE UNCHANGED vars
  BY <1>1 DEF vars, netVars, serverVars, historyVars, Stored, LeaderStored, FollowerStored, LastIn,
              In, Before
<1>2. CASE ServerNext /\ UNCHANGED clientVars /\ History
  <2>1. PICK m \in Nodes : ServerSteps(m)
    BY <1>2, ServerNextSteps
  <2>2. CASE LeaderBegin
    BY <1>2, <2>2, BeginStored
  <2>3. CASE ~LeaderBegin
    <3>1. Effects /\ log' = log
      BY <1>2, <2>1, <2>3, OtherSteps DEF clientVars
    <3> QED
      BY <1>2, <2>1, <2>3, <3>1, ServerStored
  <2> QED
    BY <2>2, <2>3
<1>3. CASE ClientNext /\ UNCHANGED serverVars /\ History
  BY <1>3, ClientStored
<1> QED
  BY <1>1, <1>2, <1>3 DEF Next, Rest

\* The leader stores a PUT after forwarding it and each follower stores what it
\* takes from its queue, in one order (server.cpp): on the key of the last PUT,
\* once answered, a follower that it was due to agrees with the leader when
\* nothing is under way to it.
THEOREM ReplicasAgreeCorrect == Spec => []ReplicasAgree
<1>1. TypeInv /\ OrderInv /\ DeliveryInv /\ Stored => ReplicasAgree
  <2> SUFFICES ASSUME TypeInv, OrderInv, DeliveryInv, Stored, NEW k \in Keys, NEW c \in Clients,
                      LastPut(k, c), Acked(c), NEW n \in due[c], \A d \in Clients : ~Underway(n, d)
               PROVE  db[n][k] = db[Leader][k]
    BY DEF ReplicasAgree
  <2>1. In(log, c) /\ inbox[c].kind = "reply" /\ cur[Leader] # c
    BY DEF DeliveryInv, Logged, Acked
  <2>2. n \in Followers
    BY Shapes DEF DeliveryInv, Delivered, Followers
  <2>3. In(applied[n], c)
    BY <2>1 DEF DeliveryInv, Delivered, Sent
  <2>4. LastIn(log, c) /\ op[c].key = k
    BY DEF LastPut, LastIn
  <2>5. LastIn(applied[n], c)
    BY <2>2, <2>3, <2>4 DEF LastIn, OrderInv, NodeInv, NodeInOrder
  <2> QED
    BY <2>1, <2>2, <2>4, <2>5 DEF Stored, LeaderStored, FollowerStored
<1> QED
  BY <1>1, InitTypes, NextTypes, InitOrder, NextOrder, InitDelivery, NextDelivery, InitStored,
     NextStored, PTL DEF Spec

-----------------------------------------------------------------------------
(***************************************************************************)
(* The replicated store implements one atomic map for its leader's clients *)
(***************************************************************************)

\* What the refinement mapping makes of the clients.
Asks == [c \in Clients |-> AbstractOp(op[c])]

Phases ==
    [c \in Clients |->
        CASE op[c].node # Leader -> "asked"
          [] inbox[c].kind = "eof" -> "failed"
          [] inbox[c].kind = "reply" -> "answered"
          [] OTHER -> "asked"]

Told ==
    [c \in Clients |->
        IF op[c].node = Leader
        THEN [found |-> inbox[c].status = "OK", value |-> inbox[c].value]
        ELSE [found |-> FALSE, value |-> None]]

\* Before it calls, a client has received nothing; and what is no answer is empty.
Fresh ==
    \A c \in Clients :
        /\ cpc[c] = "start" => inbox[c].kind = "closed"
        /\ inbox[c].kind # "reply" => inbox[c].status = "NONE" /\ inbox[c].value = None

\* Only what the inboxes of the leader's clients hold is seen above.
LEMMA SameTold ==
    ASSUME op' = op, NEW c \in Clients,
           op[c].node = Leader => inbox'[c] = inbox[c]
    PROVE  Phases'[c] = Phases[c] /\ Told'[c] = Told[c]
BY DEF Phases, Told

LEMMA PhaseAnswered ==
    ASSUME op' = op, NEW c \in Clients, op[c].node = Leader, inbox'[c].kind = "reply",
           \A d \in Clients \ {c} : inbox'[d] = inbox[d]
    PROVE  Phases' = [Phases EXCEPT ![c] = "answered"]
<1>1. Phases'[c] = "answered"
  BY DEF Phases
<1>2. \A d \in Clients \ {c} : Phases'[d] = Phases[d]
  BY SameTold
<1>3. /\ Phases = [d \in Clients |-> Phases[d]]
      /\ Phases' = [d \in Clients |-> Phases'[d]]
  BY DEF Phases
<1> QED
  BY <1>1, <1>2, <1>3

LEMMA SilentStep ==
    ASSUME op' = op, db'[Leader] = db[Leader],
           \A c \in Clients : op[c].node = Leader =>
              \/ inbox'[c] = inbox[c]
              \/ /\ {inbox'[c].kind, inbox[c].kind} \cap {"reply", "eof"} = {}
                 /\ inbox'[c].status = inbox[c].status /\ inbox'[c].value = inbox[c].value
    PROVE  UNCHANGED Atomic!vars
<1>1. Phases' = Phases /\ Told' = Told /\ Asks' = Asks
  BY DEF Phases, Told, Asks
<1> QED
  BY <1>1 DEF Atomic!vars, Asks, Phases, Told

\* An answered GET of the leader is one read of the map.
LEMMA ReadStep ==
    ASSUME TypeInv, NEW c \in Clients, op[c].node = Leader, op[c].type # "PUT",
           inbox[c].kind = "open", op' = op, db'[Leader] = db[Leader],
           inbox' = [inbox EXCEPT ![c] = GetAnswer(db[Leader][op[c].key])]
    PROVE  Atomic!Perform(c)
<1>1. PICK v : v = db[Leader][op[c].key]
  OBVIOUS
<1>2. inbox \in [Clients -> Reply]
  BY Shapes
<1>3. /\ inbox'[c].kind = "reply" /\ (inbox'[c].status = "OK" <=> v # None) /\ inbox'[c].value = v
      /\ \A d \in Clients \ {c} : inbox'[d] = inbox[d]
  BY <1>1, <1>2 DEF GetAnswer, Answer
<1>4. Phases[c] = "asked" /\ Asks' = Asks
  BY DEF Phases, Asks
<1>5. Phases' = [Phases EXCEPT ![c] = "answered"]
  BY <1>3, PhaseAnswered
<1>6. Told' = [Told EXCEPT ![c] = [found |-> v # None, value |-> v]]
  BY <1>3 DEF Told
<1>7. Told' = [Told EXCEPT ![c] = IF v = None THEN [found |-> FALSE, value |-> None]
                                  ELSE [found |-> TRUE, value |-> v]]
  BY <1>6
<1>8. Asks[c].type = "GET" /\ Asks[c].key = op[c].key
  BY DEF Asks, AbstractOp
<1>9. Told' = [Told EXCEPT ![c] = Atomic!Read(Asks[c].key)]
  BY <1>1, <1>7, <1>8 DEF Atomic!Read, Atomic!Silence
<1> QED
  BY <1>4, <1>5, <1>8, <1>9 DEF Atomic!Perform, Asks, Phases, Told

\* The answer to a PUT is one write.
LEMMA WriteStep ==
    ASSUME TypeInv, NEW c \in Clients, op[c].node = Leader, op[c].type = "PUT",
           inbox[c].kind = "open", op' = op, db'[Leader] = With(db[Leader], c),
           inbox' = [inbox EXCEPT ![c] = Answer("OK", None)]
    PROVE  Atomic!Perform(c)
<1>1. inbox \in [Clients -> Reply]
  BY Shapes
<1>2. /\ inbox'[c].kind = "reply" /\ inbox'[c].status = "OK" /\ inbox'[c].value = None
      /\ \A d \in Clients \ {c} : inbox'[d] = inbox[d]
  BY <1>1 DEF Answer
<1>3. Phases[c] = "asked" /\ Asks' = Asks
  BY DEF Phases, Asks
<1>4. Phases' = [Phases EXCEPT ![c] = "answered"]
  BY <1>2, PhaseAnswered
<1>5. Told' = [Told EXCEPT ![c] = [found |-> TRUE, value |-> None]]
  BY <1>2 DEF Told
<1>6. Atomic!Write(c)
  BY DEF Atomic!Write, With, AbstractOp
<1> QED
  BY <1>3, <1>4, <1>5, <1>6 DEF Atomic!Perform, Asks, Phases, Told

\* The death of the leader cuts off the clients that wait for an answer; the
\* PUT of one of them may have been stored.
LEMMA CutStep ==
    ASSUME Fresh, op' = op,
           inbox' = [c \in Clients |->
               IF op[c].node = Leader /\ inbox[c].kind = "open" THEN Ended ELSE inbox[c]],
           \/ db'[Leader] = db[Leader]
           \/ \E c \in Clients : /\ op[c].node = Leader /\ op[c].type = "PUT" /\ inbox[c].kind = "open"
                                 /\ db'[Leader] = With(db[Leader], c)
    PROVE  [Atomic!Next]_(Atomic!vars)
<1>0. PICK S \in SUBSET Clients : S = {c \in Clients : op[c].node = Leader /\ inbox[c].kind = "open"}
  OBVIOUS
<1>1. \A c \in S : inbox[c].kind = "open" /\ inbox'[c].kind = "eof" /\ inbox'[c].status = "NONE"
                   /\ inbox'[c].value = None /\ inbox[c].status = "NONE" /\ inbox[c].value = None
  BY <1>0 DEF Fresh, Ended, Closed
<1>2. \A c \in Clients \ S : inbox'[c] = inbox[c]
  BY <1>0
<1>3. CASE S = {}
  <2>1. db'[Leader] = db[Leader] /\ \A c \in Clients : inbox'[c] = inbox[c]
    BY <1>0, <1>2, <1>3
  <2> QED
    BY <2>1, SilentStep
<1>4. CASE S # {}
  <2>1. db'[Leader] = db[Leader] \/ \E c \in S : op[c].type = "PUT" /\ db'[Leader] = With(db[Leader], c)
    BY <1>0
  <2>2. \A c \in S : op[c].node = Leader
    BY <1>0
  <2>3. Told' = Told /\ Asks' = Asks
    <3>1. \A c \in Clients : inbox'[c].status = inbox[c].status /\ inbox'[c].value = inbox[c].value
      BY <1>1, <1>2
    <3> QED
      BY <3>1 DEF Told, Asks
  <2>4. \A c \in S : Phases[c] = "asked"
    BY <1>1, <2>2 DEF Phases
  <2>5. Phases' = [c \in Clients |-> IF c \in S THEN "failed" ELSE Phases[c]]
    BY <1>1, <1>2, <2>2 DEF Phases
  <2>6. db'[Leader] = db[Leader] \/ \E c \in S : Atomic!Write(c)
    BY <2>1, <2>2 DEF Atomic!Write, With, AbstractOp
  <2>7. Atomic!CutOff(S)
    BY <1>4, <2>3, <2>4, <2>5, <2>6 DEF Atomic!CutOff, Asks, Phases, Told
  <2>8. Atomic!Next
    BY <2>7 DEF Atomic!Next
  <2> QED
    BY <2>8
<1> QED
  BY <1>3, <1>4

-----------------------------------------------------------------------------

LEMMA InitFresh == Init => Fresh
BY DEF Init, Fresh, Closed

LEMMA NextFresh == TypeInv /\ Fresh /\ [Next]_vars => Fresh'
<1> SUFFICES ASSUME TypeInv, Fresh, [Next]_vars PROVE Fresh'
  OBVIOUS
<1>a. inbox \in [Clients -> Reply]
  BY Shapes
<1>1. CASE UNCHANGED vars
  BY <1>1 DEF vars, netVars, clientVars, Fresh
<1>2. CASE ServerNext /\ UNCHANGED clientVars /\ History
  <2>1. PICK m \in Nodes : ServerSteps(m)
    BY <1>2, ServerNextSteps
  <2>2. ASSUME NEW c \in Clients
        PROVE  \/ inbox'[c] = inbox[c]
               \/ /\ inbox[c].kind = "open"
                  /\ inbox'[c].kind = "reply" \/ inbox'[c] = Ended
    <3>1. CASE \/ Start(m) \/ MeshJoin(m) \/ MeshSkip(m) \/ MeshWait(m) \/ MeshAccept(m)
               \/ OpenClientPort(m) \/ LeaderBegin \/ LeaderSend \/ LeaderSkip
               \/ FollowerApply(m) \/ FollowerIgnore(m) \/ ThreadDiscard(m) \/ OutOfDescriptors(m)
      BY <3>1 DEF Start, MeshJoin, MeshSkip, MeshWait, MeshAccept, OpenClientPort, LeaderBegin,
         LeaderSend, LeaderSkip, FollowerApply, FollowerIgnore, ThreadDiscard, OutOfDescriptors, netVars
    <3>2. ASSUME NEW d, NEW r, r.kind = "reply", Respond(d, r)
          PROVE  inbox'[c] = inbox[c] \/ (inbox[c].kind = "open" /\ inbox'[c].kind = "reply")
      BY <1>a, <3>2 DEF Respond
    <3>3. \A v : GetAnswer(v).kind = "reply" /\ Answer("OK", v).kind = "reply"
      BY DEF GetAnswer, Answer
    <3>4. CASE LeaderGet \/ ThreadGet(m) \/ LeaderCommit
      BY <3>2, <3>3, <3>4 DEF LeaderGet, ThreadGet, LeaderCommit, Get
    <3>5. CASE Aborts(m) \/ Crash(m) \/ CrashInSend(m)
      BY <3>5 DEF Aborts, Crash, CrashInSend, Dies, Vanish
    <3> QED
      BY <2>1, <3>1, <3>4, <3>5 DEF ServerSteps
  <2>3. cpc' = cpc
    BY <1>2 DEF clientVars
  <2> QED
    BY <2>2, <2>3 DEF Fresh, Ended, Closed
<1>3. CASE ClientNext /\ UNCHANGED serverVars /\ History
  <2>1. PICK c \in Clients : ClientStep(c) \/ ClientKilled(c)
    BY <1>3 DEF ClientNext
  <2>2. cpc \in [Clients -> {"start", "waiting", "done", "stuck", "aborted", "killed"}]
    BY DEF TypeInv, ClientTypeOK
  <2>3. CASE ClientCalls(c)
    BY <1>a, <2>2, <2>3 DEF ClientCalls, Fresh, Waiting, Closed
  <2>4. CASE ClientRefused(c) \/ ClientKilled(c) \/ ClientExits(c) \/ ClientAborts(c)
    <3>1. inbox' = inbox /\ \E l \in {"stuck", "killed", "done", "aborted"} : cpc' = [cpc EXCEPT ![c] = l]
      BY <2>4 DEF ClientRefused, ClientKilled, ClientExits, ClientAborts, netVars
    <3> QED
      BY <2>2, <3>1 DEF Fresh
  <2> QED
    BY <2>1, <2>3, <2>4 DEF ClientStep
<1> QED
  BY <1>1, <1>2, <1>3 DEF Next, Rest

\* Every step of a server is one of the map, or is not seen there.
LEMMA ServerSimulates ==
    ASSUME TypeInv, OrderInv, DeliveryInv, Fresh, NEW m \in Nodes, ServerSteps(m)
    PROVE  [Atomic!Next]_(Atomic!vars)
<1>a. /\ Leader \in Nodes /\ inbox \in [Clients -> Reply] /\ db \in [Nodes -> [Keys -> Values \cup {None}]]
      /\ clientQ \in [Nodes -> Seq(ClientMsg)]
  BY Shapes
<1>1. CASE \/ Start(m) \/ MeshJoin(m) \/ MeshSkip(m) \/ MeshWait(m) \/ MeshAccept(m)
           \/ OpenClientPort(m) \/ LeaderBegin \/ LeaderSend \/ LeaderSkip
           \/ FollowerIgnore(m) \/ ThreadDiscard(m) \/ OutOfDescriptors(m)
  <2>1. UNCHANGED <<op, db, inbox>>
    BY <1>1 DEF Start, MeshJoin, MeshSkip, MeshWait, MeshAccept, OpenClientPort, LeaderBegin,
       LeaderSend, LeaderSkip, FollowerIgnore, ThreadDiscard, OutOfDescriptors, netVars, serverVars
  <2> QED
    BY <2>1, SilentStep
<1>2. CASE FollowerApply(m)
  <2>1. UNCHANGED <<op, inbox>> /\ db'[Leader] = db[Leader]
    BY <1>a, <1>2 DEF FollowerApply, Serving, StoredAt
  <2> QED
    BY <2>1, SilentStep
\* The client of the request at the head of a queue.
<1>3. ASSUME NEW n \in Nodes, clientQ[n] # <<>>
      PROVE  LET c == Head(clientQ[n]).from
             IN /\ c \in Clients /\ op[c].node = n
                /\ Head(clientQ[n]).type # "EOF" => Head(clientQ[n]).type = op[c].type
                /\ Head(clientQ[n]).type # "EOF" /\ n = Leader => inbox[c].kind = "open"
  <2>1. clientQ[n] \in Seq(ClientMsg)
    BY <1>a
  <2>2. /\ Head(clientQ[n]) = clientQ[n][1] /\ 1 \in DOMAIN clientQ[n] /\ Head(clientQ[n]) \in ClientMsg
    BY <1>3, <2>1
  <2> QED
    BY <2>2 DEF DeliveryInv, Addressed, ClientMsg
<1>4. CASE LeaderGet
  <2>1. /\ clientQ[Leader] # <<>> /\ Head(clientQ[Leader]).type \in {"GET", "DIRECT_GET"}
        /\ Get(Leader) /\ UNCHANGED <<op, db>>
    BY <1>4 DEF LeaderGet, AcceptClient
  <2>2. PICK c \in Clients : c = Head(clientQ[Leader]).from
    BY <1>a, <1>3, <2>1
  <2>3. op[c].node = Leader /\ op[c].type # "PUT" /\ inbox[c].kind = "open"
    BY <1>a, <1>3, <2>1, <2>2
  <2>4. inbox' = [inbox EXCEPT ![c] = GetAnswer(db[Leader][op[c].key])]
    BY <2>1, <2>2, <2>3 DEF Get, Respond
  <2>5. Atomic!Perform(c)
    BY <2>1, <2>3, <2>4, ReadStep
  <2> QED
    BY <2>5 DEF Atomic!Next
<1>5. CASE ThreadGet(m)
  <2>1. m # Leader /\ clientQ[m] # <<>> /\ Get(m) /\ UNCHANGED <<op, db>>
    BY <1>5 DEF ThreadGet, ThreadRuns, AcceptClient
  <2>2. PICK c \in Clients : c = Head(clientQ[m]).from
    BY <1>3, <2>1
  <2>3. op[c].node # Leader
    BY <1>3, <2>1, <2>2
  <2>4. \A d \in Clients \ {c} : inbox'[d] = inbox[d]
    BY <1>a, <2>1, <2>2 DEF Get, Respond
  <2>5. \A d \in Clients : op[d].node = Leader => inbox'[d] = inbox[d]
    BY <2>3, <2>4
  <2> QED
    BY <2>1, <2>5, SilentStep
<1>6. CASE LeaderCommit
  <2>1. /\ pc[Leader] = "send" /\ StoredAt(Leader, cur[Leader])
        /\ Respond(cur[Leader], Answer("OK", None)) /\ op' = op
    BY <1>6 DEF LeaderCommit
  <2>2. PICK c \in Clients : c = cur[Leader]
    BY <1>a, <2>1 DEF TypeInv, Forwarding
  <2>3. op[c].node = Leader /\ op[c].type = "PUT" /\ inbox[c].kind = "open"
    BY <2>2, ForwardedLogged DEF DeliveryInv, Logged
  <2>4. inbox' = [inbox EXCEPT ![c] = Answer("OK", None)]
    BY <2>1, <2>2, <2>3 DEF Respond
  <2>5. db'[Leader] = With(db[Leader], c)
    BY <1>a, <2>1, <2>2 DEF StoredAt, With
  <2>6. Atomic!Perform(c)
    BY <2>1, <2>3, <2>4, <2>5, WriteStep
  <2> QED
    BY <2>6 DEF Atomic!Next
<1>7. CASE Aborts(m) \/ Crash(m) \/ CrashInSend(m)
  <2>1. /\ op' = op
        /\ db' = db \/ (pc[m] = "send" /\ StoredAt(m, cur[m]))
        /\ inbox' = [c \in Clients |->
               IF op[c].node = m /\ inbox[c].kind = "open" THEN Ended ELSE inbox[c]]
    BY <1>7 DEF Aborts, Crash, CrashInSend, Dies, Vanish
  <2>2. CASE m # Leader
    <3>1. db' = db
      BY <2>1, <2>2 DEF DeliveryInv, Running
    <3>2. \A d \in Clients : op[d].node = Leader => inbox'[d] = inbox[d]
      BY <2>1, <2>2
    <3> QED
      BY <2>1, <3>1, <3>2, SilentStep
  <2>3. CASE m = Leader
    <3>1. CASE db' = db
      BY <2>1, <2>3, <3>1, CutStep
    <3>2. CASE pc[m] = "send" /\ StoredAt(m, cur[m])
      <4>1. PICK c \in Clients : c = cur[Leader]
        BY <1>a, <2>3, <3>2 DEF TypeInv, Forwarding
      <4>2. op[c].node = Leader /\ op[c].type = "PUT" /\ inbox[c].kind = "open"
        BY <4>1, ForwardedLogged DEF DeliveryInv, Logged
      <4>3. db'[Leader] = With(db[Leader], c)
        BY <1>a, <2>3, <3>2, <4>1 DEF StoredAt, With
      <4> QED
        BY <2>1, <2>3, <4>2, <4>3, CutStep
    <3> QED
      BY <2>1, <3>1, <3>2
  <2> QED
    BY <2>2, <2>3
<1> QED
  BY <1>1, <1>2, <1>4, <1>5, <1>6, <1>7 DEF ServerSteps

LEMMA ClientSimulates ==
    ASSUME TypeInv, Fresh, ClientNext, UNCHANGED serverVars
    PROVE  UNCHANGED Atomic!vars
<1>1. PICK c \in Clients : ClientStep(c) \/ ClientKilled(c)
  BY DEF ClientNext
<1>2. CASE ClientCalls(c)
  <2>1. cpc[c] = "start" /\ inbox' = [inbox EXCEPT ![c] = Waiting] /\ op' = op /\ db' = db
    BY <1>2 DEF ClientCalls, serverVars
  <2>2. inbox \in [Clients -> Reply]
    BY Shapes
  <2>3. /\ \A d \in Clients \ {c} : inbox'[d] = inbox[d]
        /\ {inbox'[c].kind, inbox[c].kind} \cap {"reply", "eof"} = {}
        /\ inbox'[c].status = inbox[c].status /\ inbox'[c].value = inbox[c].value
    BY <2>1, <2>2 DEF Fresh, Waiting, Closed
  <2> QED
    BY <2>1, <2>3, SilentStep
<1>3. CASE ClientRefused(c) \/ ClientKilled(c) \/ ClientExits(c) \/ ClientAborts(c)
  <2>1. UNCHANGED <<op, inbox, db>>
    BY <1>3 DEF ClientRefused, ClientKilled, ClientExits, ClientAborts, netVars, serverVars
  <2> QED
    BY <2>1, SilentStep
<1> QED
  BY <1>1, <1>2, <1>3 DEF ClientStep

\* To the leader's clients the store is one atomic map, through its crashes and
\* restarts (server.cpp: handle_get of the leader, and its loop over allPorts
\* followed by the store and the answer): each step of the replicated store is a
\* step of the map or leaves it alone.
THEOREM AtomicKVImplemented == Spec => ImplementsAtomicKV
<1>1. Init => Atomic!Init
  <2> SUFFICES ASSUME Init PROVE Atomic!Init
    OBVIOUS
  <2>1. Leader \in Nodes
    BY NodesInt
  <2> QED
    BY <2>1 DEF Init, Atomic!Init, Atomic!Silence, AbstractOp, Closed
<1>2. TypeInv /\ OrderInv /\ DeliveryInv /\ Fresh /\ [Next]_vars => [Atomic!Next]_(Atomic!vars)
  <2> SUFFICES ASSUME TypeInv, OrderInv, DeliveryInv, Fresh, [Next]_vars
               PROVE  [Atomic!Next]_(Atomic!vars)
    OBVIOUS
  <2>1. CASE UNCHANGED vars
    <3>1. UNCHANGED <<op, inbox, db>>
      BY <2>1 DEF vars, netVars, serverVars
    <3> QED
      BY <3>1, SilentStep
  <2>2. CASE ServerNext /\ UNCHANGED clientVars /\ History
    BY <2>2, ServerNextSteps, ServerSimulates
  <2>3. CASE ClientNext /\ UNCHANGED serverVars /\ History
    BY <2>3, ClientSimulates
  <2> QED
    BY <2>1, <2>2, <2>3 DEF Next, Rest
<1> QED
  BY <1>1, <1>2, InitTypes, NextTypes, InitOrder, NextOrder, InitDelivery, NextDelivery,
     InitFresh, NextFresh, PTL DEF Spec, ImplementsAtomicKV, Atomic!Spec

=============================================================================
