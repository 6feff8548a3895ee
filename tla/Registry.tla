------------------------------ MODULE Registry ------------------------------
(***************************************************************************)
(* The fleet as each daemon sees it (registry.go): peers found by mDNS     *)
(* browsing (mdns.go: mergeMdns), pulled from another daemon's registry    *)
(* (daemon.go: syncOnce, handleNodes) or listed in the peers file          *)
(* (loadStatic, and the attach and detach verbs), and forgotten when they  *)
(* have been silent for too long (prune).                                  *)
(*                                                                         *)
(* A daemon's maintenance loop (cmdDaemon) browses, loads the file, prunes *)
(* and syncs, in this order; each holds the registry's lock, and the NODES *)
(* handler of a pull runs between them.  Announcements are lossy, a node   *)
(* may die with or without its goodbye, and time passes for all alike: an  *)
(* age is counted in parts of the staleness limit.  Which peer a round     *)
(* pulls from is left open, as the round-robin index ranges over a list    *)
(* that changes.                                                           *)
(***************************************************************************)
EXTENDS Naturals, FiniteSets

CONSTANTS
  Daemons,
  Workers,    \* execution hosts, which answer no pull
  MaxDeaths,  \* bound: nodes that die
  Attachable, \* which daemon's users attach which node by hand
  MaxEdits    \* bound: attach verbs

Nodes == Daemons \cup Workers

VARIABLES
  up,      \* the nodes that are up
  peers,   \* each daemon's rows: source and age of each peer
  file,    \* each daemon's peers file
  turn,    \* the next step of each daemon's maintenance loop
  edits    \* attach verbs so far

vars == <<up, peers, file, turn, edits>>

mdnsStale == 1  \* a row that is older is pruned
None == [source |-> "none", age |-> 0]
Fresh(source) == [source |-> source, age |-> 0]
Rows == {None} \cup [source : {"mdns", "sync", "static"}, age : 0 .. mdnsStale + 1]
Known(d, n) == peers[d][n] # None

TypeOK ==
  /\ up \subseteq Nodes
  /\ peers \in [Daemons -> [Nodes -> Rows]]
  /\ file \in [Daemons -> SUBSET Nodes]
  /\ turn \in [Daemons -> {"browse", "load", "prune", "sync"}]
  /\ edits \in 0 .. MaxEdits

Init ==
  /\ up = Nodes
  /\ peers = [d \in Daemons |-> [n \in Nodes |-> None]]
  /\ file = [d \in Daemons |-> {}]
  /\ turn = [d \in Daemons |-> "browse"]
  /\ edits = 0

Step(d, from, to) == d \in up /\ turn[d] = from /\ turn' = [turn EXCEPT ![d] = to]

----------------------------------------------------------------------------
(* mergeMdns, for the announcements that got through.                      *)
Browse(d) ==
  /\ Step(d, "browse", "load")
  /\ \E heard \in SUBSET (up \ {d}) :
       peers' = [peers EXCEPT ![d] = [n \in Nodes |->
                   IF n \in heard THEN Fresh("mdns") ELSE @[n]]]
  /\ UNCHANGED <<up, file, edits>>

(* loadStatic: the file's peers replace what is known of them, and static  *)
(* peers no longer in it are dropped.                                      *)
Loaded(d) == [n \in Nodes |->
  IF n \in file[d] THEN Fresh("static")
  ELSE IF peers[d][n].source = "static" THEN None ELSE peers[d][n]]

loadStatic(d) ==
  /\ Step(d, "load", "prune")
  /\ peers' = [peers EXCEPT ![d] = Loaded(d)]
  /\ UNCHANGED <<up, file, edits>>

(* Mutant of Pruned: gossiped peers never expire.                          *)
PrunedMdns(rows) == [n \in Nodes |->
  IF rows[n].source = "mdns" /\ rows[n].age > mdnsStale THEN None ELSE rows[n]]

(* prune: silent peers go, static ones stay.                               *)
Pruned(rows) == [n \in Nodes |->
  IF rows[n].source # "static" /\ rows[n].age > mdnsStale THEN None ELSE rows[n]]

prune(d) ==
  /\ Step(d, "prune", "sync")
  /\ peers' = [peers EXCEPT ![d] = Pruned(@)]
  /\ UNCHANGED <<up, file, edits>>

(* handleNodes: the daemon that is asked loads its file, prunes and lists. *)
Listed(p) == Pruned(Loaded(p))

(* mergeSync: every row of the answer but the asker's own is fresh.        *)
Merged(d, rows) == [n \in Nodes |->
  IF n # d /\ rows[n] # None THEN Fresh("sync") ELSE peers[d][n]]

(* syncOnce: a peer's registry is pulled and merged.                       *)
syncOnce(d) ==
  /\ Step(d, "sync", "browse")
  /\ \E p \in Daemons \ {d} :
       /\ Known(d, p) /\ p \in up
       /\ peers' = [peers EXCEPT ![p] = Listed(p), ![d] = Merged(d, Listed(p))]
  /\ UNCHANGED <<up, file, edits>>

(* The peer is a worker, or does not answer, or there is none.             *)
SyncFails(d) ==
  /\ Step(d, "sync", "browse")
  /\ \/ \A n \in Nodes : ~Known(d, n)
     \/ \E n \in Nodes : Known(d, n) /\ (n \in Workers \/ n \notin up)
  /\ UNCHANGED <<up, peers, file, edits>>

----------------------------------------------------------------------------
(* A node dies; those who hear its goodbye drop its row.                   *)
Die(n) ==
  /\ n \in up /\ Cardinality(Nodes \ up) < MaxDeaths
  /\ up' = up \ {n}
  /\ \E heard \in SUBSET Daemons :
       peers' = [d \in Daemons |->
                   IF d \in heard /\ d # n THEN [peers[d] EXCEPT ![n] = None] ELSE peers[d]]
  /\ UNCHANGED <<file, turn, edits>>

(* addStatic and removeStatic: the attach and detach verbs.                *)
addStatic(d, n) ==
  /\ edits < MaxEdits /\ n \notin file[d]
  /\ file' = [file EXCEPT ![d] = @ \cup {n}]
  /\ edits' = edits + 1
  /\ UNCHANGED <<up, peers, turn>>

removeStatic(d, n) ==
  /\ n \in file[d]
  /\ file' = [file EXCEPT ![d] = @ \ {n}]
  /\ UNCHANGED <<up, peers, turn, edits>>

(* Time passes.                                                            *)
Tick ==
  /\ peers' = [d \in Daemons |-> [n \in Nodes |->
       IF peers[d][n].source \in {"mdns", "sync"} /\ peers[d][n].age <= mdnsStale
         THEN [peers[d][n] EXCEPT !.age = @ + 1] ELSE peers[d][n]]]
  /\ UNCHANGED <<up, file, turn, edits>>

Loop(d) == Browse(d) \/ loadStatic(d) \/ prune(d) \/ syncOnce(d) \/ SyncFails(d)

Next ==
  \/ \E d \in Daemons : \/ Loop(d)
                        \/ \E n \in {k \in Nodes : <<d, k>> \in Attachable} :
                             addStatic(d, n) \/ removeStatic(d, n)
  \/ \E n \in Nodes : Die(n)
  \/ Tick

(* The loops of daemons that are up go on, and so does time.               *)
Fairness ==
  /\ WF_vars(Tick)
  /\ \A d \in Daemons : WF_vars(Loop(d))

Spec == Init /\ [][Next]_vars
FairSpec == Spec /\ Fairness

----------------------------------------------------------------------------
Ghost(d, n) == d \in up /\ n \notin up /\ Known(d, n)

(* A daemon that is left alone forgets the dead, however it learned of     *)
(* them and of whatever goodbyes it missed, but for those its peers file   *)
(* names (registry.go, prune).                                             *)
DeadForgottenAlone ==
  \A d \in Daemons, n \in Nodes :
    <>[](up \cap Daemons = {d} /\ n \notin up /\ n \notin file[d]) => <>[]~Ghost(d, n)

(* Daemons that gossip forget the dead too (mdns.go: "a node that goes     *)
(* silent leaves the fleet on its own, no heartbeat protocol required").   *)
(* It fails: two daemons keep refreshing each other's row of a dead peer.  *)
DeadForgotten ==
  \A n \in Nodes :
    <>[](n \notin up /\ \A d \in Daemons : n \notin file[d])
      => \A d \in Daemons : <>[]~Ghost(d, n)

=============================================================================
