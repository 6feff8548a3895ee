---------------------------- MODULE CronTickers ----------------------------
(***************************************************************************)
(* The schedules of cron inputs (cron.go): a ticker per cron repository,   *)
(* kept in memory, armed when a pipeline is created or updated, disarmed   *)
(* when it is deleted, and armed again from the pipeline records when the  *)
(* daemon starts.  The name of a cron repository is made of the names of   *)
(* the pipeline and the input, is the key of its ticker, and can be that   *)
(* of two pipelines.                                                       *)
(***************************************************************************)
EXTENDS Integers, FiniteSets

CONSTANTS
  Pipelines,
  Declarations(_),   \* what a pipeline may declare: sets of inputs, each a name and a cadence
  Never,             \* the cadence of a schedule that does not parse
  cronRepo(_, _),    \* the repository's name
  Admins,            \* concurrent requests
  MaxTicks, MaxRestarts

VARIABLES
  rec,       \* the pipelines that have a record
  declared,  \* the cron inputs the record declares
  ticker,    \* the armed tickers: the owner and the cadence of each repository's, if there is one
  ticks,     \* how many tick commits were made in each repository
  admin,     \* each request: what it does to which pipeline, and its step
  boot,      \* the pipelines whose tickers the start of the daemon has still to arm
  contested, \* history: repositories whose ticker was another pipeline's when one was to be armed
  loose,     \* history: pipelines whose tickers and record were changed by requests that
             \* overlapped, or by one that failed half way
  restarts

vars == <<rec, declared, ticker, ticks, admin, boot, contested, loose, restarts>>

Inputs == UNION {UNION Declarations(p) : p \in Pipelines}
Repos == {cronRepo(p, i.name) : p \in Pipelines, i \in Inputs}
Nobody == "nobody"
Off == [owner |-> Nobody, every |-> Never]
Idle == [step |-> "idle", pipe |-> Nobody, ins |-> {}]

Ask(a, st, p, ins) == admin' = [admin EXCEPT ![a] = [step |-> st, pipe |-> p, ins |-> ins]]
Done(a) == admin' = [admin EXCEPT ![a] = Idle]
Saving(p) == \E a \in Admins : admin[a].step = "save" /\ admin[a].pipe = p
Removing(p) == \E a \in Admins : admin[a].step = "remove" /\ admin[a].pipe = p
Wiping == \E a \in Admins : admin[a].step = "wipe"

TypeOK ==
  /\ rec \subseteq Pipelines /\ boot \subseteq rec /\ loose \subseteq Pipelines
  /\ declared \in [Pipelines -> SUBSET Inputs] /\ contested \subseteq Repos
  /\ DOMAIN ticker = Repos /\ \A r \in Repos : ticker[r].owner \in Pipelines \cup {Nobody}
  /\ ticks \in [Repos -> 0 .. MaxTicks]
  /\ admin \in [Admins -> [step : {"idle", "save", "remove", "wipe"},
                           pipe : Pipelines \cup {Nobody}, ins : SUBSET Inputs]]
  /\ restarts \in 0 .. MaxRestarts

Init ==
  /\ rec = {} /\ boot = {} /\ contested = {} /\ loose = {} /\ restarts = 0
  /\ declared = [p \in Pipelines |-> {}]
  /\ ticker = [r \in Repos |-> Off] /\ ticks = [r \in Repos |-> 0]
  /\ admin = [a \in Admins |-> Idle]

(* The inputs of a declaration that tick in a repository.                  *)
TicksIn(p, ins, r) == {i \in ins : i.every # Never /\ cronRepo(p, i.name) = r}

(* startCronTicker, for every cron input: a schedule that does not parse   *)
(* is ignored, and a ticker that is there is kept as it is, whoever owns   *)
(* it and whatever its cadence.                                            *)
startCronTicker(p, ins) ==
  /\ ticker' = [r \in Repos |->
       IF ticker[r] = Off /\ TicksIn(p, ins, r) # {}
       THEN [owner |-> p, every |-> (CHOOSE i \in TicksIn(p, ins, r) : TRUE).every]
       ELSE ticker[r]]
  /\ contested' = contested \cup
       {r \in Repos : TicksIn(p, ins, r) # {} /\ ticker[r].owner \notin {p, Nobody}}

(* Create or update: the tickers first, then the record.                   *)
Apply(a, p, ins) ==
  /\ admin[a] = Idle /\ boot = {}
  /\ startCronTicker(p, ins)
  /\ Ask(a, "save", p, ins)
  /\ loose' = IF Removing(p) \/ Wiping THEN loose \cup {p} ELSE loose
  /\ UNCHANGED <<rec, declared, ticks, boot, restarts>>

Save(a) ==
  /\ admin[a].step = "save"
  /\ rec' = rec \cup {admin[a].pipe}
  /\ declared' = [declared EXCEPT ![admin[a].pipe] = admin[a].ins]
  /\ Done(a)
  /\ UNCHANGED <<ticker, ticks, boot, contested, loose, restarts>>

(* Mutant of Owns: the tickers of the repositories with its names.         *)
OwnsNamed(p, r) == \E i \in Inputs : cronRepo(p, i.name) = r

(* A ticker belongs to the pipeline that armed it.                         *)
Owns(p, r) == ticker[r].owner = p

(* Delete: stopCronTickers first; the record after the jobs have settled.  *)
Delete(a, p) ==
  /\ admin[a] = Idle /\ boot = {} /\ p \in rec
  /\ ticker' = [r \in Repos |-> IF Owns(p, r) THEN Off ELSE ticker[r]]
  /\ Ask(a, "remove", p, {})
  /\ loose' = IF Saving(p) THEN loose \cup {p} ELSE loose
  /\ UNCHANGED <<rec, declared, ticks, boot, contested, restarts>>

Remove(a) ==
  /\ admin[a].step = "remove"
  /\ rec' = rec \ {admin[a].pipe}
  /\ declared' = [declared EXCEPT ![admin[a].pipe] = {}]
  /\ Done(a)
  /\ UNCHANGED <<ticker, ticks, boot, contested, loose, restarts>>

(* The record cannot be written or removed: the tickers stay as the        *)
(* request has left them.                                                  *)
RecordFails(a) ==
  /\ admin[a].step \in {"save", "remove"}
  /\ loose' = loose \cup {admin[a].pipe}
  /\ Done(a)
  /\ UNCHANGED <<rec, declared, ticker, ticks, boot, contested, restarts>>

(* The reset of the node: the tickers first, then all records.             *)
stopAllCronTickers(a) ==
  /\ admin[a] = Idle /\ boot = {} /\ rec # {}
  /\ ticker' = [r \in Repos |-> Off]
  /\ Ask(a, "wipe", Nobody, {})
  /\ loose' = loose \cup {p \in Pipelines : Saving(p)}
  /\ UNCHANGED <<rec, declared, ticks, boot, contested, restarts>>

Wipe(a) ==
  /\ admin[a].step = "wipe"
  /\ rec' = {} /\ declared' = [p \in Pipelines |-> {}]
  /\ Done(a)
  /\ UNCHANGED <<ticker, ticks, boot, contested, loose, restarts>>

(* A tick: a commit of a file named by the time.                           *)
cronTick(r) ==
  /\ ticker[r] # Off /\ ticks[r] < MaxTicks
  /\ ticks' = [ticks EXCEPT ![r] = @ + 1]
  /\ UNCHANGED <<rec, declared, ticker, admin, boot, contested, loose, restarts>>

(* triggerCron: a tick by hand for every cron input of the pipeline.       *)
triggerCron(p) ==
  LET hand == {cronRepo(p, i.name) : i \in declared[p]}
  IN  /\ p \in rec /\ boot = {} /\ hand # {} /\ \A r \in hand : ticks[r] < MaxTicks
      /\ ticks' = [r \in Repos |-> IF r \in hand THEN ticks[r] + 1 ELSE ticks[r]]
      /\ UNCHANGED <<rec, declared, ticker, admin, boot, contested, loose, restarts>>

(* A restart at any time; restartCronTickers then goes through the records *)
(* before the daemon answers any request.                                  *)
Restart ==
  /\ restarts < MaxRestarts
  /\ restarts' = restarts + 1
  /\ ticker' = [r \in Repos |-> Off]
  /\ admin' = [a \in Admins |-> Idle]
  /\ boot' = rec /\ contested' = {} /\ loose' = {}
  /\ UNCHANGED <<rec, declared, ticks>>

restartCronTickers(p) ==
  /\ p \in boot
  /\ boot' = boot \ {p}
  /\ startCronTicker(p, declared[p])
  /\ UNCHANGED <<rec, declared, ticks, admin, loose, restarts>>

Next ==
  \/ \E a \in Admins :
       \/ Save(a) \/ Remove(a) \/ RecordFails(a) \/ stopAllCronTickers(a) \/ Wipe(a)
       \/ \E p \in Pipelines : Delete(a, p) \/ \E ins \in Declarations(p) : Apply(a, p, ins)
  \/ \E r \in Repos : cronTick(r)
  \/ \E p \in Pipelines : triggerCron(p) \/ restartCronTickers(p)
  \/ Restart

Spec == Init /\ [][Next]_vars

Quiet(p) == ~Saving(p) /\ ~Removing(p) /\ ~Wiping

(* When no request works on a pipeline and the start of the daemon is      *)
(* over, every schedule its record declares has a ticker, whatever         *)
(* happened to other pipelines, to earlier versions of it or to the daemon *)
(* (cron.go: "the cadence silently stops", "a foo cleanup must not kill    *)
(* foo-bar's"), and no ticker outlives the pipeline that armed it ("a      *)
(* deleted pipeline's schedule stops").  It says nothing of a pipeline     *)
(* whose record could not be saved or whose creation raced its deletion,   *)
(* nor of a repository that another pipeline's ticker already had.         *)
SchedulesLive ==
  boot = {} =>
    \A p \in Pipelines \ loose : Quiet(p) =>
      /\ p \in rec =>
           \A r \in Repos \ contested : TicksIn(p, declared[p], r) # {} => ticker[r].owner = p
      /\ \A r \in Repos : ticker[r].owner = p => p \in rec

(* The same with no exception for pipelines whose requests overlapped or   *)
(* failed: not kept, the code saves the record after the tickers, under no *)
(* lock, and does not disarm them when it cannot.                          *)
SchedulesLiveEver ==
  boot = {} =>
    \A p \in Pipelines : Quiet(p) => \A r \in Repos : ticker[r].owner = p => p \in rec

(* And with no exception for names that clash: not kept, the ticker of a   *)
(* repository is stopped with the pipeline that armed it first.            *)
SchedulesApart ==
  boot = {} =>
    \A p \in Pipelines \ loose : Quiet(p) =>
      \A r \in Repos : TicksIn(p, declared[p], r) # {} => ticker[r] # Off

(* What ticks is what some record declares: not kept.  An update only adds *)
(* tickers (pipeline.go, applyUpdate: "the existing tickers are keyed by   *)
(* those repositories and are left running"), so a dropped input ticks on  *)
(* and a new cadence waits until the pipeline is deleted or the daemon     *)
(* restarts.                                                               *)
SchedulesExact ==
  boot = {} =>
    \A p \in Pipelines \ loose : Quiet(p) =>
      \A r \in Repos : ticker[r].owner = p =>
        \E i \in TicksIn(p, declared[p], r) : ticker[r].every = i.every
=============================================================================
