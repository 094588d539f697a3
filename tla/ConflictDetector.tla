-------------------------- MODULE ConflictDetector --------------------------
(***************************************************************************)
(* Edge nodes that watch the same targets: perceptions shared over the     *)
(* mesh (edge-gui/p2p_mesh.cpp), conflicts between them detected and       *)
(* settled by each node on its own (edge-gui/conflict_detector.cpp), in    *)
(* the frames of its conflicts panel (edge-gui/app.cpp).                   *)
(*                                                                         *)
(* A report carries one detection; report k of node p is reports[p][k],    *)
(* and caches, connections and conflict records hold report numbers.  A    *)
(* broadcast reaches peers by TCP only: the JSON library writes keys in    *)
(* alphabetical order, so no datagram begins with the "report_id" that     *)
(* udp_listen_loop looks for.  A node may be its own peer, because its     *)
(* presence broadcast comes back to it, and handle_peer_connection does    *)
(* not compare node ids.  The program only wires what comes in: perceiving *)
(* is left to the code that will call submit_local_perception and          *)
(* broadcast_perception, and nobody adds or removes a rule.  Node ids are   *)
(* taken to differ: they are typed into the panel, and have one default.   *)
(***************************************************************************)
EXTENDS Integers, Sequences, FiniteSets

CONSTANTS
    Nodes,        \* edge nodes with their P2P threads running
    Detections,   \* what a node may perceive
    MaxReports,   \* bound: reports of all nodes together
    MaxFrames     \* bound: frames of all nodes that find a conflict

\* place is one coordinate, 0 if unknown; box stands for the bounding boxes that
\* overlap by more than half with each other, 0 for none; confidence in percent.
ASSUME NodesAssumption == IsFiniteSet(Nodes)
ASSUME DetectionsAssumption ==
    \A d \in Detections : d.confidence \in 0..100 /\ d.place \in Int
ASSUME BoundsAssumption == MaxReports \in Nat /\ MaxFrames \in Nat

NoConflict == [our |-> 0, peer |-> 0, their |-> 0]   \* no record

VARIABLES
    reports,    \* [Nodes -> the detections it has reported so far]
    local,      \* [Nodes -> _local_cache: its latest report on each target]
    views,      \* [Nodes -> [Nodes -> _peer_cache: numbers of the peer's reports]]
    lines,      \* [from -> [to -> reports sent by TCP and not yet handled]]
    todo,       \* [Nodes -> records of the frame's check not settled yet]
    stats,      \* [Nodes -> _stats as far as the panel balances it]
    request,    \* [Nodes -> the record its cloud client is busy with]
    perceived,  \* reports of all nodes (bounded)
    frames,     \* frames that found a conflict (bounded)
    verdicts    \* history: [Nodes -> how it settled records, and whom it followed]

meshVars == <<reports, local, views, lines>>
bounds == <<perceived, frames>>
vars == <<meshVars, todo, stats, request, bounds, verdicts>>

Init ==
    /\ reports = [n \in Nodes |-> <<>>]
    /\ local = [n \in Nodes |-> {}]
    /\ views = [n \in Nodes |-> [p \in Nodes |-> {}]]
    /\ lines = [p \in Nodes |-> [n \in Nodes |-> <<>>]]
    /\ todo = [n \in Nodes |-> {}]
    /\ stats = [n \in Nodes |-> [detected |-> 0, resolved |-> 0, escalated |-> 0]]
    /\ request = [n \in Nodes |-> NoConflict]
    /\ perceived = 0
    /\ frames = 0
    /\ verdicts = [n \in Nodes |-> {}]

-----------------------------------------------------------------------------
(* The mesh.                                                               *)

\* The entry of a target is overwritten.
Overwrite(rs, cache, k) == {j \in cache : rs[j].target # rs[k].target} \cup {k}

\* submit_local_perception and broadcast_perception of one detection; the peers
\* it knows and can connect to are any nodes, itself among them.
Perceive(n) ==
    /\ perceived < MaxReports
    /\ perceived' = perceived + 1
    /\ \E d \in Detections, reached \in SUBSET Nodes :
          LET k == Len(reports[n]) + 1 IN
          /\ reports' = [reports EXCEPT ![n] = Append(@, d)]
          /\ local' = [local EXCEPT ![n] = Overwrite(reports'[n], @, k)]
          /\ lines' = [lines EXCEPT ![n] =
                [p \in Nodes |-> IF p \in reached THEN Append(@[p], k) ELSE @[p]]]
    /\ UNCHANGED <<views, todo, stats, request, frames, verdicts>>

\* Mutant: a thread per connection, so that any of two reports may come first.
Receive_ThreadPerPeer(n, p) ==
    /\ \E i \in DOMAIN lines[p][n] :
          /\ views' = [views EXCEPT ![n][p] = Overwrite(reports[p], @, lines[p][n][i])]
          /\ lines' = [lines EXCEPT ![p][n] =
                SubSeq(@, 1, i - 1) \o SubSeq(@, i + 1, Len(@))]
    /\ UNCHANGED <<reports, local, todo, stats, request, bounds, verdicts>>

\* tcp_listen_loop takes one connection after the other.
Receive(n, p) ==
    /\ lines[p][n] # <<>>
    /\ views' = [views EXCEPT ![n][p] = Overwrite(reports[p], @, Head(lines[p][n]))]
    /\ lines' = [lines EXCEPT ![p][n] = Tail(@)]
    /\ UNCHANGED <<reports, local, todo, stats, request, bounds, verdicts>>

\* The connection breaks, its data is late, or the report is too long.
ReceiveNothing(n, p) ==
    /\ lines[p][n] # <<>>
    /\ lines' = [lines EXCEPT ![p][n] = Tail(@)]
    /\ UNCHANGED <<reports, local, views, todo, stats, request, bounds, verdicts>>

-----------------------------------------------------------------------------
(* Detection: check_all_conflicts, called in every frame of the panel.     *)

Gap(x, y) == IF x >= y THEN x - y ELSE y - x

\* Same name (not the empty one), overlapping boxes, or within ten metres of a known place.
SameTarget(a, b) ==
    \/ a.target # "" /\ a.target = b.target
    \/ a.box # 0 /\ a.box = b.box
    \/ a.place # 0 /\ Gap(a.place, b.place) < 10

Differ(a, b) ==
    \/ a.class # b.class
    \/ Gap(a.confidence, b.confidence) > 50
    \/ a.decision # b.decision

Opinions(n) == {o \in [peer : Nodes, their : UNION {views[n][p] : p \in Nodes}] :
                    o.their \in views[n][o.peer]}

Conflicts(n) ==
    {c \in {[our |-> k, peer |-> o.peer, their |-> o.their] : k \in local[n], o \in Opinions(n)} :
        LET ours == reports[n][c.our]
            theirs == reports[c.peer][c.their]
        IN  SameTarget(ours, theirs) /\ Differ(ours, theirs)}

\* A frame without a conflict changes nothing.
Check(n) ==
    /\ todo[n] = {}
    /\ Conflicts(n) # {}
    /\ frames < MaxFrames
    /\ frames' = frames + 1
    /\ todo' = [todo EXCEPT ![n] = Conflicts(n)]
    /\ stats' = [stats EXCEPT ![n].detected = @ + Cardinality(Conflicts(n))]
    /\ UNCHANGED <<meshVars, request, perceived, verdicts>>

-----------------------------------------------------------------------------
(* Resolution: resolve_locally tries the rules in this order.  Proximity   *)
(* never resolves anything.                                                *)

Margin == 30
SensorWeights ==
    [lidar |-> 10, radar |-> 9, thermal |-> 8, camera |-> 7, audio |-> 5, unknown |-> 5]
Weight(sensor) == IF sensor \in DOMAIN SensorWeights THEN SensorWeights[sensor] ELSE 5

\* Whose value is higher.
Higher(mine, other) == IF mine > other THEN "ours" ELSE "theirs"

\* Mutant: the gap is taken without its absolute value.
RulingOf_Signed(ours, theirs) ==
    LET mine == Weight(ours.sensor)
        other == Weight(theirs.sensor)
    IN  IF ours.confidence - theirs.confidence > Margin
        THEN [method |-> "confidence", side |-> "ours"]
        ELSE IF Gap(mine, other) > 2
        THEN [method |-> "authority", side |-> Higher(mine, other)]
        ELSE [method |-> "open", side |-> "none"]

\* resolve_by_confidence and resolve_by_authority.
RulingOf(ours, theirs) ==
    LET mine == Weight(ours.sensor)
        other == Weight(theirs.sensor)
    IN  IF Gap(ours.confidence, theirs.confidence) > Margin
        THEN [method |-> "confidence", side |-> Higher(ours.confidence, theirs.confidence)]
        ELSE IF Gap(mine, other) > 2
        THEN [method |-> "authority", side |-> Higher(mine, other)]
        ELSE [method |-> "open", side |-> "none"]

Ruling(n, c) == RulingOf(reports[n][c.our], reports[c.peer][c.their])

\* The ballot of resolve_by_consensus looks at the caches of that moment.
OwnOf(n, c) ==
    reports[n][CHOOSE k \in local[n] : reports[n][k].target = reports[n][c.our].target]
Ballot(n, c) ==
    {o \in Opinions(n) :
        /\ o.peer # c.peer
        /\ SameTarget(OwnOf(n, c), reports[o.peer][o.their])}
Ayes(n, c) ==
    {o \in Ballot(n, c) : reports[o.peer][o.their].class = OwnOf(n, c).class}
OurVotes(n, c) == 1 + Cardinality(Ayes(n, c))
TheirVotes(n, c) == 1 + Cardinality(Ballot(n, c) \ Ayes(n, c))

Verdict(c, method, winner) ==
    [our |-> c.our, peer |-> c.peer, their |-> c.their, method |-> method, winner |-> winner]

Resolved(n, c, method, side) ==
    /\ todo' = [todo EXCEPT ![n] = @ \ {c}]
    /\ stats' = [stats EXCEPT ![n].resolved = @ + 1]
    /\ verdicts' = [verdicts EXCEPT ![n] =
          @ \cup {Verdict(c, method, IF side = "ours" THEN {n} ELSE {c.peer})}]
    /\ UNCHANGED <<meshVars, request, bounds>>

ResolveByRule(n) ==
    \E c \in todo[n] :
        /\ Ruling(n, c).method # "open"
        /\ Resolved(n, c, Ruling(n, c).method, Ruling(n, c).side)

ResolveByConsensus(n) ==
    \E c \in todo[n] :
        /\ Ruling(n, c).method = "open"
        /\ OurVotes(n, c) + TheirVotes(n, c) >= 3
        /\ Resolved(n, c, "consensus", Higher(OurVotes(n, c), TheirVotes(n, c)))

\* The client is given the record unless it thinks the cloud is unreachable, as a
\* health check or a failed request may tell it at any time; it drops the record
\* while another one is with the cloud.
HandOver(n, c, reachable) ==
    IF reachable /\ request[n] = NoConflict
    THEN request' = [request EXCEPT ![n] = c]
    ELSE UNCHANGED request

\* Mutant: the counter is in the branch that sends.
Escalate_CountsSent(n) ==
    \E c \in todo[n], reachable \in BOOLEAN :
        /\ Ruling(n, c).method = "open"
        /\ OurVotes(n, c) + TheirVotes(n, c) < 3
        /\ HandOver(n, c, reachable)
        /\ todo' = [todo EXCEPT ![n] = @ \ {c}]
        /\ stats' = IF reachable THEN [stats EXCEPT ![n].escalated = @ + 1] ELSE stats
        /\ verdicts' = [verdicts EXCEPT ![n] = @ \cup {Verdict(c, "escalated", {})}]
        /\ UNCHANGED <<meshVars, bounds>>

\* escalate_to_cloud.
Escalate(n) ==
    \E c \in todo[n], reachable \in BOOLEAN :
        /\ Ruling(n, c).method = "open"
        /\ OurVotes(n, c) + TheirVotes(n, c) < 3
        /\ HandOver(n, c, reachable)
        /\ todo' = [todo EXCEPT ![n] = @ \ {c}]
        /\ stats' = [stats EXCEPT ![n].escalated = @ + 1]
        /\ verdicts' = [verdicts EXCEPT ![n] = @ \cup {Verdict(c, "escalated", {})}]
        /\ UNCHANGED <<meshVars, bounds>>

\* The button at the end of the panel.
ResetStats(n) ==
    /\ todo[n] = {}
    /\ stats' = [stats EXCEPT ![n] = [detected |-> 0, resolved |-> 0, escalated |-> 0]]
    /\ UNCHANGED <<meshVars, todo, request, bounds, verdicts>>

-----------------------------------------------------------------------------
(* The node's cloud client, at the grain of CloudRequest.                  *)

\* Mutant: a finishing event comes in when the request is over.
CloudAnswers_Late(n) ==
    /\ verdicts' = [verdicts EXCEPT ![n] = @ \cup {Verdict(request[n], "cloud", {})}]
    /\ UNCHANGED <<meshVars, todo, stats, request, bounds>>

\* A finishing event: the callback marks its copy of the record as resolved, with
\* the text of that event as the decision, which is always empty.
CloudAnswers(n) ==
    /\ request[n] # NoConflict
    /\ verdicts' = [verdicts EXCEPT ![n] = @ \cup {Verdict(request[n], "cloud", {})}]
    /\ UNCHANGED <<meshVars, todo, stats, request, bounds>>

\* The response is over, or there was none.
CloudEnds(n) ==
    /\ request[n] # NoConflict
    /\ request' = [request EXCEPT ![n] = NoConflict]
    /\ UNCHANGED <<meshVars, todo, stats, bounds, verdicts>>

-----------------------------------------------------------------------------
MeshNext(n) == Perceive(n) \/ \E p \in Nodes : Receive(n, p) \/ ReceiveNothing(n, p)

PanelNext(n) ==
    \/ Check(n) \/ ResolveByRule(n) \/ ResolveByConsensus(n) \/ Escalate(n)
    \/ ResetStats(n)

CloudNext(n) == CloudAnswers(n) \/ CloudEnds(n)

Next == \E n \in Nodes : MeshNext(n) \/ PanelNext(n) \/ CloudNext(n)

Spec == Init /\ [][Next]_vars

-----------------------------------------------------------------------------
(* Properties.                                                             *)

\* The type invariant: the numbers that caches, connections, records, requests
\* and verdicts hold are those of reports the node in question has made.
ConflictRecord == [our : Nat, peer : Nodes, their : Nat]
Settlement ==
    [our : Nat, peer : Nodes, their : Nat, winner : SUBSET Nodes,
     method : {"confidence", "authority", "consensus", "escalated", "cloud"}]
Made(n, c) == c.our \in DOMAIN reports[n] /\ c.their \in DOMAIN reports[c.peer]

MeshType ==
    /\ reports \in [Nodes -> Seq(Detections)]
    /\ local \in [Nodes -> SUBSET Nat]
    /\ views \in [Nodes -> [Nodes -> SUBSET Nat]]
    /\ lines \in [Nodes -> [Nodes -> Seq(Nat)]]
    /\ perceived \in 0..MaxReports
    /\ \A n \in Nodes : local[n] \subseteq DOMAIN reports[n]
    /\ \A n, p \in Nodes :
          /\ views[n][p] \subseteq DOMAIN reports[p]
          /\ \A i \in DOMAIN lines[p][n] : lines[p][n][i] \in DOMAIN reports[p]

PanelType ==
    /\ todo \in [Nodes -> SUBSET ConflictRecord]
    /\ stats \in [Nodes -> [detected : Nat, resolved : Nat, escalated : Nat]]
    /\ request \in [Nodes -> ConflictRecord \cup {NoConflict}]
    /\ verdicts \in [Nodes -> SUBSET Settlement]
    /\ frames \in 0..MaxFrames
    /\ \A n \in Nodes :
          /\ \A c \in todo[n] \cup verdicts[n] : Made(n, c)
          /\ request[n] # NoConflict => Made(n, request[n])

TypeOK == MeshType /\ PanelType

\* Two nodes that settle the conflict between the same two reports, each from its
\* own side and on its own, follow the same node, whenever one of them could do it
\* by confidence or authority (resolve_locally): the rules are symmetric.
NodesAgree ==
    \A m, n \in Nodes : \A v \in verdicts[m], w \in verdicts[n] :
        /\ v.peer = n /\ w.peer = m /\ v.our = w.their /\ v.their = w.our
        /\ v.method \in {"confidence", "authority"}
        => w.method = v.method /\ w.winner = v.winner

\* Every conflict a check has counted is settled or escalated, and counted so,
\* exactly once, or is still to do: the panel's figures balance.
CountsBalance ==
    \A n \in Nodes :
        stats[n].detected = stats[n].resolved + stats[n].escalated + Cardinality(todo[n])

\* What a node believes of a peer's target never goes back to an earlier report,
\* although no timestamp is compared (receive_peer_perception, tcp_listen_loop).
ViewsAdvance ==
    [][\A n, p \in Nodes : \A j \in views[n][p] : \E k \in views'[n][p] :
          k >= j /\ reports[p][k].target = reports[p][j].target]_vars
=============================================================================
