----------------------------- MODULE IngressProofs -----------------------------
(***************************************************************************)
(* Theorems about Ingress, for any number of publishers, services and      *)
(* hostnames.                                                              *)
(***************************************************************************)
EXTENDS Ingress, ExitCodesProofs

(* TypeOK in two parts: History, which every step takes, is the second's. *)
StateTypeOK ==
  /\ routes \in Tables
  /\ disk \in Files \union {NoConfig}
  /\ tmp  \in Files \union {NoConfig}
  /\ live \in Files \union {Down}
  /\ box \in {"absent", "created", "running", "exited", "restarting"}
  /\ box = "running" <=> live # Down
  /\ pc \in [Publishers -> {"idle", "names", "load", "stub_stat", "stub_write", "generate",
                            "validate", "discard", "rename", "reload"}]
  /\ todo \in [Publishers -> SUBSET Services]
  /\ snap \in [Publishers -> Files]
  /\ exit \in {ExitOK, ExitCaddyReloadFail, ExitInternal, ExitRunFail, Killed, Pending}
  /\ up \in {"idle", "up_stat", "up_write", "up_inspect", "up_start", "up_run", "down_stop", "down_remove"}
  /\ changes \in 0..MaxChanges /\ faults \in 0..MaxFaults

HistTypeOK ==
  /\ alone \in SUBSET Publishers /\ passed \in [Publishers -> SUBSET Services]
  /\ ever \in [Services -> SUBSET SUBSET Hosts] /\ bare \in BOOLEAN

(* A publisher has no site blocks but while it lists and until it has      *)
(* generated; it has nothing left to load after that.                      *)
Listing(p) ==
  /\ pc[p] \in {"idle", "names", "validate", "discard", "rename", "reload"} => snap[p] = {}
  /\ pc[p] = "load" => todo[p] # {}
  /\ pc[p] \in {"stub_stat", "stub_write", "generate"} => todo[p] = {}

(* What a publisher has passed over it does not load again. *)
Passing(p) ==
  /\ passed[p] \intersect todo[p] = {}
  /\ pc[p] \in {"idle", "names"} => passed[p] = {}

(* How far a publisher that nobody disturbs has got. *)
Solo(p) ==
  /\ Busy(p) /\ up = "idle" /\ \A q \in Publishers \ {p} : ~Busy(q)
  /\ pc[p] = "load" => snap[p] = {b \in Listed(p) : b[2] \notin todo[p]}
  /\ pc[p] \in {"stub_stat", "stub_write", "generate"} => snap[p] = Listed(p)
  /\ pc[p] = "stub_write" => disk = NoConfig
  /\ pc[p] = "validate" => tmp = Listed(p)
  /\ pc[p] = "rename" => tmp = Listed(p) /\ Accepts(tmp)
  /\ pc[p] = "reload" => disk = Listed(p)

(* What the container is when caddy up and caddy down get to it. *)
ManagerAt ==
  /\ up = "up_run" => box = "absent"
  /\ up = "down_remove" => box \in {"absent", "created", "exited"}

SoloInv == \A p \in alone : Solo(p)
ListingInv == \A p \in Publishers : Listing(p)
PassingInv == \A p \in Publishers : Passing(p)

(* What a file routes to a service, and the files that commands which      *)
(* overlap can make of the registries they have seen.                      *)
Row(file, s) == {h \in Hosts : <<h, s>> \in file}

SeenBy(file, rows, none) == \/ none /\ file = Stub
                            \/ \A s \in Services : Row(file, s) \in rows[s]

Seen(file) == SeenBy(file, ever, bare)

(* What publishers hold, and leave in the files, comes from registries     *)
(* seen since all was quiet.                                               *)
Holds(p) == pc[p] \in {"load", "stub_stat", "stub_write", "generate"} =>
  \A s \in Services : IF s \in todo[p] THEN Row(snap[p], s) = {} ELSE Row(snap[p], s) \in ever[s]

OverlapInv ==
  /\ ~Quiet => \A s \in Services : routes[s] \in ever[s]
  /\ ~Quiet /\ disk = NoConfig => bare
  /\ up = "up_write" => bare
  /\ \A p \in Publishers :
       /\ Holds(p)
       /\ pc[p] = "stub_write" => bare
       /\ pc[p] \in {"validate", "discard", "rename"} /\ tmp # NoConfig => Seen(tmp)
       /\ pc[p] = "reload" => Seen(disk)

IInv == TypeOK /\ ManagerAt /\ ListingInv /\ PassingInv /\ SoloInv /\ OverlapInv
-----------------------------------------------------------------------------
LEMMA TypeSplit == TypeOK <=> StateTypeOK /\ HistTypeOK
BY DEF TypeOK, StateTypeOK, HistTypeOK

(* The codes the commands here end with. *)
LEMMA EndCodes ==
  /\ ExitCodeFor(NoError) = ExitOK
  /\ \A err \in {Plain, {"CaddyReload"}, {"CaddyUp"}, {"CaddyDown"}} :
       ExitCodeFor(err) \in {ExitCaddyReloadFail, ExitInternal, ExitRunFail}
  /\ ExitOK \notin {ExitCaddyReloadFail, ExitInternal, ExitRunFail, Killed, Pending}
BY IngressCodes DEF ExitOK, ExitCaddyReloadFail, ExitInternal, ExitRunFail, Killed, Pending

LEMMA BlocksType == \A table : Blocks(table) \in Files
BY DEF Blocks, Files

LEMMA HistoryType ==
  ASSUME TypeOK, StateTypeOK', History
  PROVE  HistTypeOK'
<1>1. alone' \in SUBSET Publishers
  BY DEF History
<1>2. bare' \in BOOLEAN
  BY DEF History
<1>3. ever' \in [Services -> SUBSET SUBSET Hosts]
  <2>1. \A s \in Services : routes[s] \in SUBSET Hosts /\ routes'[s] \in SUBSET Hosts
                            /\ ever[s] \in SUBSET SUBSET Hosts
    BY DEF TypeOK, StateTypeOK, Tables
  <2> DEFINE Over(s) == {{} : p \in {q \in Publishers : s \in passed'[q]}}
  <2>2. \A s \in Services : Over(s) \in SUBSET SUBSET Hosts
    OBVIOUS
  <2>3. ever' = [s \in Services |-> IF Quiet' THEN {}
                                   ELSE {routes'[s]} \union (IF Quiet THEN {routes[s]} ELSE ever[s]) \union Over(s)]
    BY DEF History
  <2> HIDE DEF Over
  <2>4. \A s \in Services :
          {routes'[s]} \union (IF Quiet THEN {routes[s]} ELSE ever[s]) \union Over(s) \in SUBSET SUBSET Hosts
    BY <2>1, <2>2
  <2> QED
    BY <2>3, <2>4
<1>4. passed' \in [Publishers -> SUBSET Services]
  BY DEF History, PassedOver, TypeOK
<1> QED
  BY <1>1, <1>2, <1>3, <1>4 DEF HistTypeOK

LEMMA InitType == Init => TypeOK
<1> SUFFICES ASSUME Init PROVE TypeOK
  OBVIOUS
<1>1. disk \in Files \union {NoConfig}
  BY BlocksType DEF Init, Stub, Files
<1>2. live \in Files \union {Down} /\ (box = "running" <=> live # Down)
  BY <1>1, DownIsNoFile DEF Init
<1>3. ever \in [Services -> SUBSET SUBSET Hosts]
  BY DEF Init
<1>4. snap \in [Publishers -> Files] /\ todo \in [Publishers -> SUBSET Services]
  BY DEF Init, Files
<1>5. changes \in 0..MaxChanges /\ faults \in 0..MaxFaults
  BY IngressBounds DEF Init
<1> QED
  BY <1>1, <1>2, <1>3, <1>4, <1>5 DEF Init, TypeOK

LEMMA BootType ==
  ASSUME StateTypeOK, Boot
  PROVE  /\ live' \in Files \union {Down}
         /\ box' \in {"running", "restarting"}
         /\ box' = "running" <=> live' # Down
BY DownIsNoFile DEF StateTypeOK, Boot, Accepts

LEMMA PublishType ==
  ASSUME StateTypeOK, NEW p \in Publishers, Publish(p)
  PROVE  StateTypeOK'
<1> USE IngressBounds, EndCodes
<1>1. CASE ListNames(p)
  BY <1>1 DEF ListNames, AfterLoading, Works, Fails, Goto, Return, StateTypeOK, caddyVars, boundVars
<1>2. CASE Load(p)
  <2>1. /\ todo' \in [Publishers -> SUBSET Services]
        /\ pc' \in [Publishers -> {"idle", "names", "load", "stub_stat", "stub_write", "generate",
                                   "validate", "discard", "rename", "reload"}]
    BY <1>2 DEF Load, AfterLoading, Goto, StateTypeOK
  <2>2. \A s : {b \in Blocks(routes) : b[2] = s} \in Files
    BY BlocksType DEF Files
  <2>3. snap' \in [Publishers -> Files]
    BY <1>2, <2>2 DEF Load, StateTypeOK, Files
  <2> QED
    BY <1>2, <2>1, <2>3 DEF Load, AfterLoading, Works, Fails, Goto, StateTypeOK, caddyVars, boundVars
<1>3. CASE StubStat(p)
  BY <1>3 DEF StubStat, OnlyFiles, Works, Fails, Goto, StateTypeOK, caddyVars, boundVars
<1>4. CASE StubWrite(p)
  BY <1>4 DEF StubWrite, Stub, Files, OnlyFiles, Works, Fails, Goto, StateTypeOK, boundVars
<1>5. CASE Generate(p)
  BY <1>5 DEF Generate, Files, Works, Fails, Goto, Return, StateTypeOK, boundVars
<1>6. CASE Validate(p)
  BY <1>6 DEF Validate, OnlyFiles, Works, Fails, Goto, StateTypeOK, caddyVars, boundVars
<1>7. CASE Discard(p)
  BY <1>7 DEF Discard, OnlyFiles, Works, Return, StateTypeOK, boundVars
<1>8. CASE Rename(p)
  BY <1>8 DEF Rename, OnlyFiles, Works, Fails, Goto, Return, StateTypeOK, boundVars
<1>9. CASE Reload(p)
  <2>1. live' \in Files \union {Down} /\ (box' = "running" <=> live' # Down)
    BY <1>9, DownIsNoFile DEF Reload, Accepts, StateTypeOK
  <2> QED
    BY <1>9, <2>1 DEF Reload, Works, Fails, Return, StateTypeOK, boundVars
<1> QED
  BY <1>1, <1>2, <1>3, <1>4, <1>5, <1>6, <1>7, <1>8, <1>9 DEF Publish

LEMMA ManageType ==
  ASSUME StateTypeOK, ManagerAt, Manage
  PROVE  StateTypeOK'
<1> USE IngressBounds, EndCodes
<1> USE DEF StateTypeOK, Works, Fails, UpGoto, UpReturn, OnlyManager, NoBox, publisherVars, boundVars
<1>1. CASE UpStat
  BY <1>1 DEF UpStat
<1>2. CASE UpWrite
  BY <1>2 DEF UpWrite, Stub, Files
<1>3. CASE UpInspect
  BY <1>3 DEF UpInspect
<1>4. CASE UpStart
  BY <1>4, BootType DEF UpStart
<1>5. CASE UpRun
  <2>1. CASE Boot
    BY <1>5, <2>1, BootType DEF UpRun
  <2>2. CASE NoBox
    BY <1>5, <2>2 DEF UpRun
  <2>3. CASE box' = "created" /\ UNCHANGED live
    BY <1>5, <2>3 DEF UpRun, ManagerAt
  <2> QED
    BY <1>5, <2>1, <2>2, <2>3 DEF UpRun
<1>6. CASE DownStop
  BY <1>6 DEF DownStop
<1>7. CASE DownRemove
  BY <1>7 DEF DownRemove, ManagerAt
<1> QED
  BY <1>1, <1>2, <1>3, <1>4, <1>5, <1>6, <1>7 DEF Manage

LEMMA OtherType ==
  ASSUME StateTypeOK,
         \/ \E p \in Publishers : \/ Crash(p)
                                  \/ \E s \in Services, hosts \in SUBSET Hosts : Commit(p, s, hosts)
         \/ \E step \in {"up_stat", "down_stop"} : BeginUp(step)
         \/ Retry \/ Bounce \/ UpCrash
  PROVE  StateTypeOK'
<1> USE IngressBounds
<1>1. ASSUME NEW p \in Publishers, Crash(p) PROVE StateTypeOK'
  BY <1>1 DEF Crash, Fails, StateTypeOK, Files, caddyVars
<1>2. ASSUME NEW p \in Publishers, NEW s \in Services, NEW hosts \in SUBSET Hosts, Commit(p, s, hosts)
      PROVE  StateTypeOK'
  <2>1. routes' \in Tables
    BY <1>2 DEF Commit, StateTypeOK, Tables
  <2>2. changes' \in 0..MaxChanges
    BY <1>2 DEF Commit, StateTypeOK
  <2> QED
    BY <1>2, <2>1, <2>2 DEF Commit, Goto, StateTypeOK, caddyVars
<1>3. ASSUME NEW step \in {"up_stat", "down_stop"}, BeginUp(step) PROVE StateTypeOK'
  BY <1>3 DEF BeginUp, UpGoto, Works, NoBox, OnlyManager, StateTypeOK, publisherVars, boundVars
<1>4. CASE Retry
  BY <1>4, BootType DEF Retry, OnlyManager, StateTypeOK, publisherVars, boundVars
<1>5. CASE Bounce
  BY <1>5, BootType DEF Bounce, Fails, OnlyManager, StateTypeOK, publisherVars
<1>6. CASE UpCrash
  BY <1>6 DEF UpCrash, Fails, OnlyManager, StateTypeOK, publisherVars
<1> QED
  BY <1>1, <1>2, <1>3, <1>4, <1>5, <1>6

LEMMA StepType == TypeOK /\ ManagerAt /\ [Next]_vars => TypeOK'
<1> SUFFICES ASSUME TypeOK, ManagerAt, [Next]_vars PROVE TypeOK'
  OBVIOUS
<1>1. CASE Next
  <2>1. StateTypeOK'
    BY <1>1, TypeSplit, PublishType, ManageType, OtherType DEF Next
  <2>2. HistTypeOK'
    BY <1>1, <2>1, HistoryType DEF Next
  <2> QED
    BY <2>1, <2>2 DEF TypeOK, StateTypeOK, HistTypeOK
<1>2. CASE UNCHANGED vars
  BY <1>2 DEF vars, caddyVars, publisherVars, boundVars, histVars, TypeOK
<1> QED
  BY <1>1, <1>2
-----------------------------------------------------------------------------
(* The steps that are not a publisher's. *)
World == \/ Manage \/ \E step \in {"up_stat", "down_stop"} : BeginUp(step)
         \/ Retry \/ Bounce \/ UpCrash

LEMMA WorldSpares ==
  ASSUME World
  PROVE  UNCHANGED <<tmp, routes, pc, todo, snap>>
<1> USE DEF OnlyManager, publisherVars
<1>1. CASE Manage
  BY <1>1 DEF Manage, UpStat, UpWrite, UpInspect, UpStart, UpRun, DownStop, DownRemove
<1>2. CASE \E step \in {"up_stat", "down_stop"} : BeginUp(step)
  BY <1>2 DEF BeginUp
<1>3. CASE Retry \/ Bounce \/ UpCrash
  BY <1>3 DEF Retry, Bounce, UpCrash
<1> QED
  BY <1>1, <1>2, <1>3 DEF World

LEMMA PublishSpares ==
  ASSUME TypeOK, NEW p \in Publishers, Publish(p)
  PROVE  /\ UNCHANGED <<routes, box, up>>
         /\ \A q \in Publishers \ {p} : pc'[q] = pc[q] /\ todo'[q] = todo[q] /\ snap'[q] = snap[q]
<1> USE DEF TypeOK, AfterLoading, Goto, Return, OnlyFiles
<1>1. CASE ListNames(p)
  BY <1>1 DEF ListNames
<1>2. CASE Load(p)
  BY <1>2 DEF Load
<1>3. CASE StubStat(p)
  BY <1>3 DEF StubStat
<1>4. CASE StubWrite(p)
  BY <1>4 DEF StubWrite
<1>5. CASE Generate(p)
  BY <1>5 DEF Generate
<1>6. CASE Validate(p)
  BY <1>6 DEF Validate
<1>7. CASE Discard(p)
  BY <1>7 DEF Discard
<1>8. CASE Rename(p)
  BY <1>8 DEF Rename
<1>9. CASE Reload(p)
  BY <1>9 DEF Reload
<1> QED
  BY <1>1, <1>2, <1>3, <1>4, <1>5, <1>6, <1>7, <1>8, <1>9 DEF Publish

LEMMA CrashSpares ==
  ASSUME TypeOK, NEW p \in Publishers, Crash(p)
  PROVE  /\ UNCHANGED <<routes, box, up, disk, tmp, live>> /\ exit' = Killed
         /\ pc'[p] = "idle" /\ snap'[p] = {} /\ Busy(p)
         /\ \A q \in Publishers \ {p} : pc'[q] = pc[q] /\ todo'[q] = todo[q] /\ snap'[q] = snap[q]
BY DEF Crash, TypeOK, caddyVars

LEMMA CommitSpares ==
  ASSUME TypeOK, NEW p \in Publishers, NEW s \in Services, NEW hosts, Commit(p, s, hosts)
  PROVE  /\ UNCHANGED <<box, up, disk, tmp, live, todo, snap>> /\ exit' = Pending
         /\ pc[p] = "idle" /\ pc'[p] = "names"
         /\ \A q \in Publishers \ {p} : pc'[q] = pc[q]
         /\ routes' = [routes EXCEPT ![s] = hosts]
BY DEF Commit, At, Goto, TypeOK, caddyVars

LEMMA NextCases ==
  ASSUME Next
  PROVE  /\ History
         /\ \/ World
            \/ \E p \in Publishers : \/ Publish(p) \/ Crash(p)
                                     \/ \E s \in Services, hosts \in SUBSET Hosts : Commit(p, s, hosts)
BY DEF Next, World

LEMMA StepManager == TypeOK /\ ManagerAt /\ [Next]_vars => ManagerAt'
<1> SUFFICES ASSUME TypeOK, ManagerAt, [Next]_vars PROVE ManagerAt'
  OBVIOUS
<1>1. ASSUME NEW p \in Publishers, Publish(p) PROVE ManagerAt'
  BY <1>1, PublishSpares DEF ManagerAt
<1>2. ASSUME NEW p \in Publishers, Crash(p) PROVE ManagerAt'
  BY <1>2, CrashSpares DEF ManagerAt
<1>3. ASSUME NEW p \in Publishers, NEW s \in Services, NEW hosts \in SUBSET Hosts, Commit(p, s, hosts)
      PROVE  ManagerAt'
  BY <1>3, CommitSpares DEF ManagerAt
<1>4. CASE Manage
  <2> USE DEF ManagerAt, UpGoto, UpReturn, NoBox
  <2>1. CASE UpStat \/ UpWrite \/ UpInspect
    BY <2>1 DEF UpStat, UpWrite, UpInspect
  <2>2. CASE UpStart \/ UpRun
    BY <2>2 DEF UpStart, UpRun
  <2>3. CASE DownStop
    BY <2>3 DEF DownStop, Works, boundVars, TypeOK
  <2>4. CASE DownRemove
    BY <2>4 DEF DownRemove
  <2> QED
    BY <1>4, <2>1, <2>2, <2>3, <2>4 DEF Manage
<1>5. CASE \E step \in {"up_stat", "down_stop"} : BeginUp(step)
  BY <1>5 DEF BeginUp, UpGoto, ManagerAt
<1>6. CASE Retry \/ Bounce \/ UpCrash
  BY <1>6 DEF Retry, Bounce, UpCrash, ManagerAt
<1>7. CASE UNCHANGED vars
  BY <1>7 DEF vars, ManagerAt
<1> QED
  BY <1>1, <1>2, <1>3, <1>4, <1>5, <1>6, <1>7, NextCases DEF World

LEMMA StepListing == TypeOK /\ ListingInv /\ [Next]_vars => ListingInv'
<1> SUFFICES ASSUME TypeOK, ListingInv, [Next]_vars, NEW q \in Publishers PROVE Listing(q)'
  BY DEF ListingInv
<1>0. Listing(q)
  BY DEF ListingInv
<1>1. ASSUME NEW p \in Publishers, Publish(p) PROVE Listing(q)'
  <2>1. CASE q # p
    BY <1>0, <1>1, <2>1, PublishSpares DEF Listing
  <2>2. CASE q = p
    <3> USE <1>0, <2>2 DEF Listing, TypeOK, AfterLoading, At, Goto, Return, OnlyFiles
    <3>1. CASE ListNames(p)
      BY <3>1 DEF ListNames
    <3>2. CASE Load(p)
      BY <3>2 DEF Load
    <3>3. CASE StubStat(p)
      BY <3>3 DEF StubStat
    <3>4. CASE StubWrite(p)
      BY <3>4 DEF StubWrite
    <3>5. CASE Generate(p)
      BY <3>5 DEF Generate
    <3>6. CASE Validate(p)
      BY <3>6 DEF Validate
    <3>7. CASE Discard(p)
      BY <3>7 DEF Discard
    <3>8. CASE Rename(p)
      BY <3>8 DEF Rename
    <3>9. CASE Reload(p)
      BY <3>9 DEF Reload
    <3> QED
      BY <1>1, <3>1, <3>2, <3>3, <3>4, <3>5, <3>6, <3>7, <3>8, <3>9 DEF Publish
  <2> QED
    BY <2>1, <2>2
<1>2. ASSUME NEW p \in Publishers, Crash(p) PROVE Listing(q)'
  BY <1>0, <1>2, CrashSpares DEF Listing
<1>3. ASSUME NEW p \in Publishers, NEW s \in Services, NEW hosts \in SUBSET Hosts, Commit(p, s, hosts)
      PROVE  Listing(q)'
  BY <1>0, <1>3, CommitSpares DEF Listing
<1>4. CASE World \/ UNCHANGED vars
  BY <1>0, <1>4, WorldSpares DEF Listing, vars, publisherVars
<1> QED
  BY <1>1, <1>2, <1>3, <1>4, NextCases

(* Only a load that fails passes a service over. *)
LEMMA PassesOver ==
  ASSUME TypeOK, NEW p \in Publishers, Publish(p), ~Load(p), Busy(p)'
  PROVE  PassedOver(p) = {}
<1>1. CASE ListNames(p)
  BY <1>1 DEF ListNames, Works, boundVars, Return, Busy, PassedOver, TypeOK
<1>2. CASE ~ListNames(p)
  <2>1. UNCHANGED todo
    BY <1>2 DEF Publish, StubStat, StubWrite, Generate, Validate, Discard, Rename, Reload, OnlyFiles
  <2> QED
    BY <2>1 DEF PassedOver
<1> QED
  BY <1>1, <1>2

LEMMA LoadsOne ==
  ASSUME TypeOK, ListingInv, NEW p \in Publishers, Load(p)
  PROVE  \E t \in todo[p] :
           /\ todo'[p] = todo[p] \ {t}
           /\ \/ PassedOver(p) = {} /\ snap'[p] = snap[p] \union {b \in Blocks(routes) : b[2] = t}
              \/ PassedOver(p) = {t} /\ snap'[p] = snap[p]
           /\ pc[p] = "load"
           /\ pc'[p] = IF todo'[p] = {} THEN "stub_stat" ELSE "load"
<1> DEFINE t == CHOOSE u \in todo[p] : TRUE
<1>1. pc[p] = "load" /\ t \in todo[p]
  BY DEF Load, At, ListingInv, Listing
<1>2. /\ todo' = [todo EXCEPT ![p] = @ \ {t}]
      /\ \/ Works /\ snap' = [snap EXCEPT ![p] = @ \union {b \in Blocks(routes) : b[2] = t}]
         \/ Fails /\ UNCHANGED snap
      /\ AfterLoading(p)
  BY DEF Load
<1> HIDE DEF t
<1>3. todo'[p] = todo[p] \ {t} /\ todo[p] \ todo'[p] = {t}
  BY <1>1, <1>2 DEF TypeOK
<1>4. \/ PassedOver(p) = {} /\ snap'[p] = snap[p] \union {b \in Blocks(routes) : b[2] = t}
      \/ PassedOver(p) = {t} /\ snap'[p] = snap[p]
  <2>1. CASE Works /\ snap' = [snap EXCEPT ![p] = @ \union {b \in Blocks(routes) : b[2] = t}]
    BY <2>1 DEF Works, boundVars, PassedOver, TypeOK
  <2>2. CASE Fails /\ UNCHANGED snap
    <3>1. faults' # faults
      BY <2>2 DEF Fails, TypeOK
    <3> QED
      BY <1>3, <2>2, <3>1 DEF PassedOver
  <2> QED
    BY <1>2, <2>1, <2>2
<1>5. pc'[p] = IF todo'[p] = {} THEN "stub_stat" ELSE "load"
  BY <1>2 DEF AfterLoading, Goto, TypeOK
<1> QED
  BY <1>1, <1>3, <1>4, <1>5

LEMMA StepPassing == TypeOK /\ ListingInv /\ PassingInv /\ [Next]_vars => PassingInv'
<1> SUFFICES ASSUME TypeOK, ListingInv, PassingInv, [Next]_vars, NEW q \in Publishers PROVE Passing(q)'
  BY DEF PassingInv
<1>1. Passing(q)
  BY DEF PassingInv
<1>2. CASE UNCHANGED vars
  BY <1>1, <1>2 DEF vars, publisherVars, histVars, Passing
<1>3. CASE Next
  <2>1. passed'[q] = IF Busy(q)' THEN passed[q] \union PassedOver(q) ELSE {}
    BY <1>3, NextCases DEF History
  <2>2. CASE ~Busy(q)'
    BY <2>1, <2>2 DEF Busy, Passing
  <2>3. ASSUME Busy(q)', todo'[q] = todo[q], pc'[q] = pc[q] \/ pc'[q] # "names" \/ pc[q] = "idle"
        PROVE  Passing(q)'
    <3>1. passed'[q] = passed[q]
      BY <2>1, <2>3 DEF PassedOver
    <3> QED
      BY <1>1, <2>3, <3>1 DEF Passing, Busy
  <2>4. ASSUME Busy(q)', NEW p \in Publishers, Publish(p) PROVE Passing(q)'
    <3>1. CASE q # p
      BY <2>3, <2>4, <3>1, PublishSpares
    <3>2. CASE q = p /\ Load(p)
      <4>1. PICK t \in todo[q] : todo'[q] = todo[q] \ {t} /\ PassedOver(q) \in {{}, {t}} /\ pc'[q] # "names"
        BY <3>2, LoadsOne
      <4> QED
        BY <1>1, <2>1, <2>4, <4>1 DEF Passing, Busy
    <3>3. CASE q = p /\ ListNames(p)
      <4>1. passed[q] = {} /\ pc'[q] # "names" /\ PassedOver(q) = {}
        <5>1. pc[q] = "names" /\ pc'[q] # "names" /\ ~Load(p)
          BY <3>3 DEF ListNames, Load, At, AfterLoading, Goto, Return, TypeOK
        <5> QED
          BY <1>1, <2>4, <3>3, <5>1, PassesOver DEF Passing
      <4> QED
        BY <2>1, <4>1 DEF Passing, Busy
    <3>4. CASE q = p /\ ~Load(p) /\ ~ListNames(p)
      <4>1. UNCHANGED todo /\ pc'[q] # "names"
        BY <2>4, <3>4 DEF Publish, StubStat, StubWrite, Generate, Validate, Discard, Rename, Reload,
             OnlyFiles, Goto, Return, TypeOK
      <4> QED
        BY <2>3, <2>4, <4>1
    <3> QED
      BY <3>1, <3>2, <3>3, <3>4
  <2>5. ASSUME Busy(q)', NEW p \in Publishers, Crash(p) PROVE Passing(q)'
    BY <2>3, <2>5, CrashSpares DEF Busy
  <2>6. ASSUME Busy(q)', NEW p \in Publishers, NEW s \in Services, NEW hosts \in SUBSET Hosts, Commit(p, s, hosts)
        PROVE  Passing(q)'
    BY <2>3, <2>6, CommitSpares
  <2>7. ASSUME Busy(q)', World PROVE Passing(q)'
    BY <2>3, <2>7, WorldSpares
  <2> QED
    BY <1>3, <2>2, <2>4, <2>5, <2>6, <2>7, NextCases
<1> QED
  BY <1>2, <1>3
-----------------------------------------------------------------------------
LEMMA PublishIsBusy == \A p : Publish(p) => Busy(p)
BY DEF Publish, ListNames, Load, StubStat, StubWrite, Generate, Validate, Discard, Rename, Reload, At, Busy

(* The blocks of the services that have routes are all the blocks. *)
LEMMA AllBlocks ==
  \A b \in Blocks(routes) : b[2] \in {s \in Services : routes[s] # {}}
BY DEF Blocks

(* A publisher alone steps on, and keeps what it has read and written true. *)
LEMMA SoloPublish ==
  ASSUME TypeOK, ListingInv, PassingInv, History, NEW p \in Publishers, Solo(p), Publish(p), Busy(p)'
  PROVE  Solo(p)'
<1>1. UNCHANGED <<routes, up>> /\ Blocks(routes)' = Blocks(routes)
  BY PublishSpares DEF Blocks
<1>2. Busy(p)' /\ up' = "idle" /\ \A q \in Publishers \ {p} : ~Busy(q)'
  BY PublishSpares DEF Solo, Busy
<1>3. Listing(p) /\ Passing(p)
  BY DEF ListingInv, PassingInv
<1>0. passed'[p] = passed[p] \union PassedOver(p)
  BY DEF History
<1>13. ~Load(p) => Listed(p)' = Listed(p)
  BY <1>0, <1>1, PassesOver DEF Listed
<1>14. pc[p] # "load" => Listed(p)' = Listed(p)
  BY <1>13 DEF Load, At
<1> USE <1>1, <1>2 DEF Solo, TypeOK, AfterLoading, At, Goto, Return, OnlyFiles
<1>4. CASE ListNames(p)
  <2>1. snap'[p] = {}
    BY <1>3, <1>4 DEF ListNames, Listing
  <2>2. pc'[p] # "idle" => todo'[p] = {s \in Services : routes[s] # {}}
    BY <1>4 DEF ListNames
  <2>3. pc'[p] \in {"idle", "load", "stub_stat"} /\ (pc'[p] = "stub_stat" => todo'[p] = {})
    BY <1>4 DEF ListNames
  <2>4. {b \in Listed(p) : b[2] \notin {s \in Services : routes[s] # {}}} = {}
    BY AllBlocks DEF Listed
  <2>5. pc'[p] = "stub_stat" => Listed(p) = {}
    BY <2>2, <2>3, <2>4 DEF Listed
  <2>6. Listed(p)' = Listed(p)
    <3>1. ~Load(p)
      BY <1>4 DEF ListNames, Load
    <3> QED
      BY <1>13, <3>1
  <2> QED
    BY <2>1, <2>2, <2>3, <2>4, <2>5, <2>6 DEF Busy
<1>5. CASE Load(p)
  <2>1. PICK t \in todo[p] :
          /\ todo'[p] = todo[p] \ {t}
          /\ \/ PassedOver(p) = {} /\ snap'[p] = snap[p] \union {b \in Blocks(routes) : b[2] = t}
             \/ PassedOver(p) = {t} /\ snap'[p] = snap[p]
          /\ pc[p] = "load"
          /\ pc'[p] = IF todo'[p] = {} THEN "stub_stat" ELSE "load"
    BY <1>5, LoadsOne
  <2>2. snap[p] = {b \in Listed(p) : b[2] \notin todo[p]} /\ t \notin passed[p]
    BY <1>3, <2>1 DEF Passing
  <2>3. Listed(p)' = {b \in Blocks(routes) : b[2] \notin passed[p] \union PassedOver(p)}
    BY <1>0 DEF Listed
  <2>4. snap'[p] = {b \in Listed(p)' : b[2] \notin todo'[p]}
    <3>1. CASE PassedOver(p) = {} /\ snap'[p] = snap[p] \union {b \in Blocks(routes) : b[2] = t}
      <4>1. Listed(p)' = Listed(p)
        BY <2>3, <3>1 DEF Listed
      <4>2. snap'[p] = {b \in Listed(p) : b[2] \notin todo[p] \ {t}}
        BY <2>2, <3>1 DEF Listed
      <4> QED
        BY <2>1, <4>1, <4>2
    <3>2. CASE PassedOver(p) = {t} /\ snap'[p] = snap[p]
      <4>1. {b \in Listed(p)' : b[2] \notin todo[p] \ {t}} = {b \in Listed(p) : b[2] \notin todo[p]}
        BY <2>1, <2>3, <3>2 DEF Listed
      <4> QED
        BY <2>1, <2>2, <3>2, <4>1
    <3> QED
      BY <2>1, <3>1, <3>2
  <2>5. pc'[p] = "stub_stat" => snap'[p] = Listed(p)'
    BY <2>1, <2>4
  <2> QED
    BY <2>1, <2>4, <2>5
<1> USE <1>14
<1>6. CASE StubStat(p)
  BY <1>6 DEF StubStat, caddyVars
<1>7. CASE StubWrite(p)
  BY <1>7 DEF StubWrite
<1>8. CASE Generate(p)
  BY <1>8 DEF Generate, Busy
<1>9. CASE Validate(p)
  BY <1>9 DEF Validate, caddyVars
<1>10. CASE Discard(p)
  BY <1>10 DEF Discard, Busy
<1>11. CASE Rename(p)
  BY <1>11 DEF Rename, Busy
<1>12. CASE Reload(p)
  BY <1>12 DEF Reload, Busy
<1> QED
  BY <1>4, <1>5, <1>6, <1>7, <1>8, <1>9, <1>10, <1>11, <1>12 DEF Publish

LEMMA StepSolo == TypeOK /\ ListingInv /\ PassingInv /\ SoloInv /\ [Next]_vars => SoloInv'
<1> SUFFICES ASSUME TypeOK, ListingInv, PassingInv, SoloInv, [Next]_vars PROVE SoloInv'
  OBVIOUS
<1>1. CASE UNCHANGED vars
  BY <1>1 DEF vars, caddyVars, publisherVars, histVars, SoloInv, Solo, Busy, Listed, Blocks, Accepts
<1>2. ASSUME Next, NEW p \in alone' PROVE Solo(p)'
  <2>1. /\ p \in Publishers /\ Busy(p)' /\ up' = "idle" /\ \A q \in Publishers \ {p} : ~Busy(q)'
        /\ Busy(p) => p \in alone /\ Solo(p)
    BY <1>2, NextCases DEF History, SoloInv
  <2>2. ASSUME NEW q \in Publishers, Publish(q) PROVE Solo(p)'
    <3>1. Busy(p)
      BY <2>1, <2>2, PublishSpares, PublishIsBusy DEF Busy
    <3>2. q = p
      BY <2>1, <2>2, <3>1, PublishIsBusy DEF Solo
    <3> QED
      BY <1>2, <2>1, <2>2, <3>1, <3>2, NextCases, SoloPublish
  <2>3. ASSUME NEW q \in Publishers, Crash(q) PROVE FALSE
    BY <2>1, <2>3, CrashSpares DEF Busy, Solo
  <2>4. ASSUME NEW q \in Publishers, NEW s \in Services, NEW hosts \in SUBSET Hosts, Commit(q, s, hosts)
        PROVE  Solo(p)'
    BY <2>1, <2>4, CommitSpares DEF Busy, Solo
  <2>5. CASE World
    <3>1. Busy(p) /\ Solo(p)
      BY <2>1, <2>5, WorldSpares DEF Busy
    <3>0. Listed(p)' = Listed(p)
      <4>1. passed'[p] = passed[p] \union PassedOver(p)
        BY <1>2, <2>1, NextCases DEF History
      <4>2. PassedOver(p) = {} /\ Blocks(routes)' = Blocks(routes)
        BY <2>5, WorldSpares DEF PassedOver, Blocks
      <4> QED
        BY <4>1, <4>2 DEF Listed
    <3>2. CASE Manage
      BY <3>1, <3>2 DEF Solo, Manage, UpStat, UpWrite, UpInspect, UpStart, UpRun, DownStop, DownRemove
    <3>3. CASE \E step \in {"up_stat", "down_stop"} : BeginUp(step)
      BY <2>1, <3>3 DEF BeginUp, UpGoto
    <3>4. CASE Retry \/ Bounce \/ UpCrash
      <4>1. disk' = disk
        BY <3>4 DEF Retry, Bounce, UpCrash
      <4> QED
        BY <2>1, <2>5, <3>1, <4>1, WorldSpares, <3>0 DEF Solo, Busy, Accepts
    <3> QED
      BY <2>5, <3>2, <3>3, <3>4 DEF World
  <2> QED
    BY <1>2, <2>2, <2>3, <2>4, <2>5, NextCases
<1> QED
  BY <1>1, <1>2 DEF SoloInv
-----------------------------------------------------------------------------
(* A service's row when the blocks of one service are added to a file. *)
LEMMA RowOf ==
  ASSUME routes \in Tables, NEW file \in Files, NEW t \in Services, NEW s \in Services
  PROVE  Row(file \union {b \in Blocks(routes) : b[2] = t}, s) =
           IF s = t THEN Row(file, s) \union routes[s] ELSE Row(file, s)
<1>1. routes[s] \in SUBSET Hosts
  BY DEF Tables
<1>2. \A h \in Hosts : <<h, s>> \in Blocks(routes) <=> h \in routes[s]
  BY DEF Blocks
<1> QED
  BY <1>1, <1>2 DEF Row

(* While commands are at work, what has been seen stays seen. *)
LEMMA SeenGrows ==
  ASSUME TypeOK, OverlapInv, History, ~Quiet, ~Quiet'
  PROVE  /\ \A s \in Services : ever[s] \subseteq ever'[s] /\ routes'[s] \in ever'[s]
         /\ bare' = bare
         /\ \A file : SeenBy(file, ever, bare) => SeenBy(file, ever', bare')
<1>1. \A s \in Services : ever[s] \subseteq ever'[s] /\ routes'[s] \in ever'[s]
  <2> DEFINE Over(s) == {{} : p \in {q \in Publishers : s \in passed'[q]}}
  <2>1. \A s \in Services : ever'[s] = {routes'[s]} \union ever[s] \union Over(s)
    BY DEF History
  <2> HIDE DEF Over
  <2> QED
    BY <2>1
<1>2. bare' = bare
  BY DEF History, TypeOK
<1> QED
  BY <1>1, <1>2 DEF SeenBy

(* A file a step writes comes from registries seen. *)
LEMMA FilesSeen ==
  ASSUME TypeOK, ListingInv, OverlapInv, Next
  PROVE  /\ tmp' = tmp \/ tmp' = NoConfig \/ SeenBy(tmp', ever, bare)
         /\ disk' = disk \/ SeenBy(disk', ever, bare)
         /\ disk' = NoConfig => disk = NoConfig \/ bare
<1>1. ASSUME NEW p \in Publishers, Publish(p)
      PROVE  /\ tmp' = tmp \/ tmp' = NoConfig \/ SeenBy(tmp', ever, bare)
             /\ disk' = disk \/ SeenBy(disk', ever, bare)
             /\ disk' = NoConfig => disk = NoConfig \/ bare
  <2> USE DEF At, OnlyFiles, caddyVars
  <2>1. CASE ListNames(p) \/ Load(p) \/ StubStat(p) \/ Validate(p) \/ Discard(p) \/ Reload(p)
    BY <2>1 DEF ListNames, Load, StubStat, Validate, Discard, Reload
  <2>2. CASE StubWrite(p)
    BY <2>2 DEF StubWrite, OverlapInv, SeenBy
  <2>3. CASE Generate(p)
    <3>1. todo[p] = {}
      BY <2>3 DEF Generate, ListingInv, Listing
    <3>2. \A s \in Services : Row(snap[p], s) \in ever[s]
      BY <2>3, <3>1 DEF Generate, OverlapInv, Holds
    <3> QED
      BY <2>3, <3>2 DEF Generate, SeenBy
  <2>4. CASE Rename(p)
    BY <2>4 DEF Rename, OverlapInv, Seen
  <2> QED
    BY <1>1, <2>1, <2>2, <2>3, <2>4 DEF Publish
<1>2. ASSUME NEW p \in Publishers, Crash(p) PROVE UNCHANGED <<disk, tmp>>
  BY <1>2, CrashSpares
<1>3. ASSUME NEW p \in Publishers, NEW s \in Services, NEW hosts \in SUBSET Hosts, Commit(p, s, hosts)
      PROVE  UNCHANGED <<disk, tmp>>
  BY <1>3, CommitSpares
<1>4. CASE World
  <2>1. disk' = disk \/ (disk' = Stub /\ up = "up_write")
    <3>1. CASE Manage
      BY <3>1 DEF Manage, UpStat, UpWrite, UpInspect, UpStart, UpRun, DownStop, DownRemove
    <3>2. CASE ~Manage
      BY <1>4, <3>2 DEF World, BeginUp, Retry, Bounce, UpCrash
    <3> QED
      BY <3>1, <3>2
  <2> QED
    BY <1>4, <2>1, WorldSpares DEF OverlapInv, SeenBy
<1> QED
  BY <1>1, <1>2, <1>3, <1>4, NextCases

(* What a publisher lists comes from registries seen. *)
LEMMA PublishHolds ==
  ASSUME TypeOK, ListingInv, OverlapInv, NEW p \in Publishers, Publish(p), History,
         \A s \in Services : ever[s] \subseteq ever'[s], ~Quiet, ~Quiet'
  PROVE  Holds(p)'
<1>1. Holds(p) /\ Listing(p) /\ \A s \in Services : routes[s] \in ever[s]
  BY DEF OverlapInv, ListingInv
<1>2. CASE ListNames(p)
  <2>1. snap'[p] = {} /\ \A s : Row(snap'[p], s) = {}
    BY <1>1, <1>2 DEF ListNames, Listing, At, Row
  <2>2. CASE todo' = [todo EXCEPT ![p] = {s \in Services : routes[s] # {}}]
    <3>1. \A s \in Services : s \in todo'[p] <=> routes[s] # {}
      BY <2>2 DEF TypeOK
    <3> QED
      BY <1>1, <2>1, <3>1 DEF Holds
  <2>3. CASE pc'[p] = "idle"
    BY <2>3 DEF Holds
  <2> QED
    BY <1>2, <2>2, <2>3 DEF ListNames, Return, TypeOK
<1>3. CASE Load(p)
  <2>1. PICK t \in todo[p] :
          /\ todo'[p] = todo[p] \ {t}
          /\ \/ PassedOver(p) = {} /\ snap'[p] = snap[p] \union {b \in Blocks(routes) : b[2] = t}
             \/ PassedOver(p) = {t} /\ snap'[p] = snap[p]
          /\ pc[p] = "load"
          /\ pc'[p] = IF todo'[p] = {} THEN "stub_stat" ELSE "load"
    BY <1>3, LoadsOne
  <2>0. t \in Services
    BY <2>1 DEF TypeOK
  <2>2. \A s \in Services :
          \/ Row(snap'[p], s) = IF s = t THEN Row(snap[p], s) \union routes[s] ELSE Row(snap[p], s)
          \/ snap'[p] = snap[p] /\ {} \in ever'[t]
    <3>1. snap[p] \in Files /\ routes \in Tables
      BY DEF TypeOK
    <3> DEFINE grown == snap[p] \union {b \in Blocks(routes) : b[2] = t}
    <3>2. \A s \in Services : Row(grown, s) = IF s = t THEN Row(snap[p], s) \union routes[s] ELSE Row(snap[p], s)
      BY <2>0, <3>1, RowOf
    <3>3. CASE snap'[p] = grown
      BY <3>2, <3>3
    <3>4. CASE PassedOver(p) = {t} /\ snap'[p] = snap[p]
      <4>1. Busy(p)'
        BY <2>1 DEF Busy
      <4>2. t \in passed'[p]
        BY <3>4, <4>1 DEF History
      <4> DEFINE Over(s) == {{} : q \in {r \in Publishers : s \in passed'[r]}}
      <4>3. ever'[t] = {routes'[t]} \union ever[t] \union Over(t)
        BY <2>0 DEF History
      <4>4. {} \in Over(t)
        BY <4>2
      <4> HIDE DEF Over
      <4> QED
        BY <3>4, <4>3, <4>4
    <3> QED
      BY <2>1, <3>3, <3>4
  <2>3. Row(snap[p], t) = {}
    BY <1>1, <2>0, <2>1 DEF Holds
  <2> QED
    <3>1. ASSUME NEW s \in Services
          PROVE  IF s \in todo'[p] THEN Row(snap'[p], s) = {} ELSE Row(snap'[p], s) \in ever'[s]
      <4>1. CASE s = t
        <5>1. Row(snap'[p], s) = routes[s] \/ (Row(snap'[p], s) = {} /\ {} \in ever'[s])
          BY <2>0, <2>2, <2>3, <4>1
        <5>2. s \notin todo'[p] /\ routes[s] \in ever'[s]
          BY <1>1, <2>1, <4>1
        <5> QED
          BY <5>1, <5>2
      <4>2. CASE s # t /\ s \in todo[p]
        BY <1>1, <2>1, <2>2, <4>2 DEF Holds
      <4>3. CASE s # t /\ s \notin todo[p]
        BY <1>1, <2>1, <2>2, <4>3 DEF Holds
      <4> QED
        BY <4>1, <4>2, <4>3
    <3> QED
      BY <3>1 DEF Holds
<1>4. CASE StubStat(p) \/ StubWrite(p)
  BY <1>1, <1>4 DEF StubStat, StubWrite, OnlyFiles, At, Holds
<1>5. CASE Generate(p) \/ Validate(p) \/ Discard(p) \/ Rename(p) \/ Reload(p)
  <2>1. pc'[p] \in {"idle", "validate", "discard", "rename", "reload"}
    BY <1>5 DEF Generate, Validate, Discard, Rename, Reload, Goto, Return, TypeOK
  <2> QED
    BY <2>1 DEF Holds
<1> QED
  BY <1>2, <1>3, <1>4, <1>5 DEF Publish

LEMMA StepOverlap == TypeOK /\ ListingInv /\ OverlapInv /\ [Next]_vars => OverlapInv'
<1> SUFFICES ASSUME TypeOK, ListingInv, OverlapInv, [Next]_vars PROVE OverlapInv'
  OBVIOUS
<1>1. CASE UNCHANGED vars
  BY <1>1 DEF vars, caddyVars, publisherVars, histVars, OverlapInv, Holds, Seen, SeenBy, Row, Quiet, Busy
<1>2. CASE Next /\ Quiet'
  BY <1>2 DEF OverlapInv, Quiet, Busy, Holds
<1>3. CASE Next /\ Quiet /\ ~Quiet'
  <2>1. \A s \in Services : routes'[s] \in ever'[s]
    BY <1>3, NextCases DEF History
  <2>2. bare' = (disk = NoConfig)
    BY <1>3, NextCases DEF History
  <2>3. ASSUME NEW p \in Publishers, NEW s \in Services, NEW hosts \in SUBSET Hosts, Commit(p, s, hosts)
        PROVE  OverlapInv'
    <3>1. /\ \A q \in Publishers : pc'[q] \in {"idle", "names"}
          /\ disk' = disk /\ up' = "idle"
      BY <1>3, <2>3, CommitSpares DEF Quiet, Busy
    <3> QED
      BY <2>1, <2>2, <3>1 DEF OverlapInv, Holds
  <2>4. CASE World
    <3>1. /\ \A q \in Publishers : pc'[q] = "idle"
          /\ up = "idle"
      BY <1>3, <2>4, WorldSpares DEF Quiet, Busy
    <3>2. disk' = disk /\ up' # "up_write"
      BY <2>4, <3>1 DEF World, Manage, UpStat, UpWrite, UpInspect, UpStart, UpRun, DownStop, DownRemove,
                        BeginUp, UpGoto, Retry, Bounce, UpCrash
    <3> QED
      BY <2>1, <2>2, <3>1, <3>2 DEF OverlapInv, Holds
  <2>5. ASSUME NEW p \in Publishers PROVE ~Publish(p) /\ ~Crash(p)
    BY <1>3, PublishIsBusy DEF Quiet, Crash
  <2> QED
    BY <1>3, <2>3, <2>4, <2>5, NextCases
<1>4. CASE Next /\ ~Quiet /\ ~Quiet'
  <2>1. /\ \A s \in Services : ever[s] \subseteq ever'[s] /\ routes'[s] \in ever'[s]
        /\ bare' = bare
        /\ \A file : SeenBy(file, ever, bare) => SeenBy(file, ever', bare')
    BY <1>4, NextCases, SeenGrows
  <2>2. /\ tmp' = tmp \/ tmp' = NoConfig \/ SeenBy(tmp', ever, bare)
        /\ disk' = disk \/ SeenBy(disk', ever, bare)
        /\ disk' = NoConfig => disk = NoConfig \/ bare
    BY <1>4, FilesSeen
  <2>3. disk' = NoConfig => bare'
    BY <1>4, <2>1, <2>2 DEF OverlapInv
  <2>4. up' = "up_write" => bare'
    <3>1. ASSUME NEW p \in Publishers,
                 \/ Publish(p) \/ Crash(p)
                 \/ \E s \in Services, hosts \in SUBSET Hosts : Commit(p, s, hosts)
          PROVE  up' = up
      BY <3>1, PublishSpares, CrashSpares, CommitSpares
    <3>2. CASE World
      <4>1. up' = "up_write" => up = "up_write" \/ disk = NoConfig
        BY <3>2 DEF World, Manage, UpStat, UpWrite, UpInspect, UpStart, UpRun, DownStop,
                    DownRemove, BeginUp, UpGoto, UpReturn, Retry, Bounce, UpCrash
      <4> QED
        BY <1>4, <2>1, <4>1 DEF OverlapInv
    <3> QED
      BY <1>4, <2>1, <3>1, <3>2, NextCases DEF OverlapInv
  <2>5. ASSUME NEW q \in Publishers
        PROVE  /\ Holds(q)'
               /\ pc'[q] = "stub_write" => bare'
               /\ pc'[q] \in {"validate", "discard", "rename"} /\ tmp' # NoConfig => SeenBy(tmp', ever', bare')
               /\ pc'[q] = "reload" => SeenBy(disk', ever', bare')
    <3>1. /\ Holds(q)
          /\ pc[q] = "stub_write" => bare
          /\ pc[q] \in {"validate", "discard", "rename"} /\ tmp # NoConfig => SeenBy(tmp, ever, bare)
          /\ pc[q] = "reload" => SeenBy(disk, ever, bare)
      BY DEF OverlapInv, Seen
    <3>2. CASE pc'[q] = pc[q] /\ todo'[q] = todo[q] /\ snap'[q] = snap[q]
      BY <2>1, <2>2, <3>1, <3>2 DEF Holds
    <3>3. CASE pc'[q] \in {"idle", "names"}
      BY <3>3 DEF Holds
    <3>4. CASE Publish(q)
      <4>1. Holds(q)'
        BY <1>4, <2>1, <3>4, NextCases, PublishHolds
      <4>2. pc'[q] = "stub_write" => bare'
        BY <1>4, <2>1, <3>4 DEF Publish, ListNames, Load, AfterLoading, StubStat, StubWrite, Generate, Validate,
             Discard, Rename, Reload, Goto, Return, TypeOK, OverlapInv
      <4>3. pc'[q] \in {"validate", "discard", "rename"} =>
              \/ pc[q] \in {"validate", "discard", "rename"}
              \/ pc[q] = "generate" /\ tmp' = snap[q]
        BY <3>4 DEF Publish, ListNames, Load, AfterLoading, StubStat, StubWrite, Generate, Validate,
             Discard, Rename, Reload, At, Goto, Return, TypeOK
      <4>4. pc[q] = "generate" => SeenBy(snap[q], ever, bare)
        BY <3>1 DEF Holds, ListingInv, Listing, SeenBy
      <4>5. pc'[q] = "reload" => pc[q] = "rename" /\ disk' = tmp /\ tmp # NoConfig
        BY <3>4 DEF Publish, ListNames, Load, AfterLoading, StubStat, StubWrite, Generate, Validate,
             Discard, Rename, Reload, At, Goto, Return, TypeOK
      <4> QED
        BY <2>1, <2>2, <3>1, <4>1, <4>2, <4>3, <4>4, <4>5
    <3>5. ASSUME NEW p \in Publishers \ {q}, Publish(p) \/ Crash(p)
          PROVE  pc'[q] = pc[q] /\ todo'[q] = todo[q] /\ snap'[q] = snap[q]
      BY <3>5, PublishSpares, CrashSpares
    <3>6. ASSUME NEW p \in Publishers, NEW s \in Services, NEW hosts \in SUBSET Hosts, Commit(p, s, hosts)
          PROVE  \/ pc'[q] = "names"
                 \/ pc'[q] = pc[q] /\ todo'[q] = todo[q] /\ snap'[q] = snap[q]
      BY <3>6, CommitSpares
    <3>7. Crash(q) => pc'[q] = "idle"
      BY CrashSpares
    <3>8. World => pc'[q] = pc[q] /\ todo'[q] = todo[q] /\ snap'[q] = snap[q]
      BY WorldSpares
    <3> QED
      BY <1>4, <3>2, <3>3, <3>4, <3>5, <3>6, <3>7, <3>8, NextCases
  <2> QED
    BY <2>1, <2>3, <2>4, <2>5 DEF OverlapInv, Seen
<1> QED
  BY <1>1, <1>2, <1>3, <1>4
-----------------------------------------------------------------------------
LEMMA Inductive == Spec => []IInv
<1>1. Init => IInv
  <2> SUFFICES ASSUME Init PROVE IInv
    OBVIOUS
  <2>1. TypeOK
    BY InitType
  <2>2. ManagerAt /\ ListingInv /\ PassingInv /\ SoloInv
    BY DEF Init, ManagerAt, ListingInv, Listing, PassingInv, Passing, SoloInv
  <2>3. OverlapInv
    BY DEF Init, OverlapInv, Quiet, Busy, Holds
  <2> QED
    BY <2>1, <2>2, <2>3 DEF IInv
<1>2. IInv /\ [Next]_vars => IInv'
  BY StepType, StepManager, StepListing, StepPassing, StepSolo, StepOverlap DEF IInv
<1> QED
  BY <1>1, <1>2, PTL DEF Spec

(* Every variable keeps its type; in particular Caddy serves a Caddyfile   *)
(* if and only if its container runs.                                      *)
THEOREM TypeCorrect == Spec => []TypeOK
BY Inductive, PTL DEF IInv

(* A command's exit code 0 is the answer of a caddy reload that worked.    *)
LEMMA EndOK ==
  ASSUME TypeOK, NEW p \in Publishers, Next, Ends(p, ExitOK)
  PROVE  pc[p] = "reload" /\ live' = disk /\ UNCHANGED <<disk, routes>>
<1>1. Publish(p)
  <2>1. ~World
    BY WorldSpares DEF Ends, Busy
  <2>2. ASSUME NEW q \in Publishers, Crash(q) PROVE FALSE
    BY <2>2, CrashSpares, EndCodes DEF Ends
  <2>3. ASSUME NEW q \in Publishers, NEW s \in Services, NEW hosts \in SUBSET Hosts, Commit(q, s, hosts)
        PROVE  FALSE
    BY <2>3, CommitSpares, EndCodes DEF Ends
  <2>4. ASSUME NEW q \in Publishers \ {p}, Publish(q) PROVE FALSE
    BY <2>4, PublishSpares DEF Ends, Busy
  <2> QED
    BY <2>1, <2>2, <2>3, <2>4, NextCases
<1> QED
  BY <1>1, EndCodes DEF Publish, ListNames, Load, AfterLoading, StubStat, StubWrite, Generate, Validate,
       Discard, Rename, Reload, At, Goto, Return, Ends

(* A command that nothing disturbs publishes exactly the registry, and its *)
(* exit code 0 says that Caddy serves it, whatever was left behind, less   *)
(* the services it could not read, of which it does not tell.              *)
THEOREM Solitary == Spec => SoloIsExact
<1>1. ASSUME IInv, [Next]_vars, NEW p \in alone
      PROVE  /\ pc'[p] # pc[p] /\ disk' # disk =>
                   \/ disk = NoConfig /\ disk' = Stub
                   \/ disk' = Listed(p) /\ Accepts(disk')
             /\ Ends(p, ExitOK) => live' = disk' /\ live' = Listed(p)
  <2>1. TypeOK /\ Solo(p) /\ p \in Publishers
    BY <1>1 DEF IInv, SoloInv, TypeOK
  <2>2. ASSUME pc'[p] # pc[p], disk' # disk
        PROVE  \/ disk = NoConfig /\ disk' = Stub
               \/ disk' = Listed(p) /\ Accepts(disk')
    <3>1. Next
      BY <1>1, <2>2 DEF vars, caddyVars
    <3>2. ~World
      BY <2>2, WorldSpares
    <3>3. PICK q \in Publishers : Publish(q)
      BY <2>1, <2>2, <3>1, <3>2, NextCases, CrashSpares, CommitSpares
    <3>4. q = p
      BY <2>1, <3>3, PublishIsBusy DEF Solo
    <3> QED
      BY <2>1, <2>2, <3>3, <3>4 DEF Publish, ListNames, Load, StubStat, StubWrite, Generate, Validate,
           Discard, Rename, Reload, OnlyFiles, caddyVars, At, Solo, Accepts
  <2>3. ASSUME Ends(p, ExitOK)
        PROVE  live' = disk' /\ live' = Listed(p)
    <3>1. Next
      BY <1>1, <2>3 DEF vars, publisherVars, Ends, Busy
    <3> QED
      BY <2>1, <2>3, <3>1, EndOK DEF Solo
  <2> QED
    BY <2>2, <2>3
<1>2. IInv /\ [Next]_vars =>
        [\A p \in alone :
           /\ pc'[p] # pc[p] /\ disk' # disk =>
                \/ disk = NoConfig /\ disk' = Stub
                \/ disk' = Listed(p) /\ Accepts(disk')
           /\ Ends(p, ExitOK) => live' = disk' /\ live' = Listed(p)]_vars
  BY <1>1
<1> QED
  BY <1>2, Inductive, PTL DEF Spec, SoloIsExact

(* However many commands overlap, what Caddy serves after one's exit code  *)
(* 0 is, service by service, a registration there was since they began, or *)
(* nothing where one of them could not read it.                            *)
THEOREM Overlapping == Spec => OverlapIsBounded
<1>1. ASSUME IInv, [Next]_vars, NEW p \in Publishers, Ends(p, ExitOK)
      PROVE  \/ bare /\ live' = Stub
             \/ \A s \in Services : {h \in Hosts : <<h, s>> \in live'} \in ever[s]
  <2>1. Next
    BY <1>1 DEF vars, publisherVars, Ends, Busy
  <2>2. pc[p] = "reload" /\ live' = disk
    BY <1>1, <2>1, EndOK DEF IInv
  <2> QED
    BY <1>1, <2>2 DEF IInv, OverlapInv, Seen, SeenBy, Row
<1>2. IInv /\ [Next]_vars =>
        [\A p \in Publishers : Ends(p, ExitOK) =>
           \/ bare /\ live' = Stub
           \/ \A s \in Services : {h \in Hosts : <<h, s>> \in live'} \in ever[s]]_vars
  BY <1>1
<1> QED
  BY <1>2, Inductive, PTL DEF Spec, OverlapIsBounded

(* caddy up and caddy down that exit 0 say the truth of the container.     *)
THEOREM ManagerTruth == Spec => ManagerTellsTruth
<1>1. ASSUME TypeOK, [Next]_vars, up # "idle", up' = "idle", exit' = ExitOK
      PROVE  CASE up = "down_remove" -> box' = "absent"
               [] OTHER -> box' = "running" \/ ~Accepts(disk')
  <2>1. Manage
    <3>1. Next
      BY <1>1 DEF vars
    <3>2. ASSUME NEW p \in Publishers,
                 \/ Publish(p) \/ Crash(p)
                 \/ \E s \in Services, hosts \in SUBSET Hosts : Commit(p, s, hosts)
          PROVE  FALSE
      BY <1>1, <3>2, PublishSpares, CrashSpares, CommitSpares
    <3> QED
      BY <1>1, <3>1, <3>2, NextCases, EndCodes DEF World, BeginUp, Retry, Bounce, UpCrash
  <2>2. CASE UpStat \/ UpWrite \/ DownStop
    BY <1>1, <2>2, EndCodes DEF UpStat, UpWrite, DownStop, UpGoto, UpReturn
  <2>3. CASE UpInspect
    BY <1>1, <2>3, EndCodes DEF UpInspect, UpGoto, UpReturn, NoBox
  <2>4. CASE UpStart \/ UpRun
    BY <1>1, <2>4, EndCodes DEF UpStart, UpRun, Boot, UpReturn, Accepts
  <2>5. CASE DownRemove
    BY <1>1, <2>5, EndCodes DEF DownRemove, UpReturn
  <2> QED
    BY <2>1, <2>2, <2>3, <2>4, <2>5 DEF Manage
<1>2. TypeOK /\ [Next]_vars =>
        [up # "idle" /\ up' = "idle" /\ exit' = ExitOK =>
           CASE up = "down_remove" -> box' = "absent"
             [] OTHER -> box' = "running" \/ ~Accepts(disk')]_vars
  BY <1>1
<1> QED
  BY <1>2, TypeCorrect, PTL DEF Spec, ManagerTellsTruth
-----------------------------------------------------------------------------
(* One command after another.  Each publisher is then alone from its first *)
(* step, so that Solo holds of it, and caddy up writes the stub where it   *)
(* has found nothing.                                                      *)
SerialInv ==
  /\ OneAtATime
  /\ \A p \in Publishers : Busy(p) => p \in alone
  /\ up = "up_write" => disk = NoConfig

LEMMA SerialStep ==
  ASSUME TypeOK, SerialInv, [Next /\ OneAtATime']_vars
  PROVE  SerialInv'
<1>1. CASE UNCHANGED vars
  BY <1>1 DEF vars, caddyVars, publisherVars, histVars, SerialInv, OneAtATime, Busy
<1>2. CASE Next /\ OneAtATime'
  <2>1. ASSUME NEW p \in Publishers, Busy(p)' PROVE p \in alone'
    <3>1. up' = "idle" /\ \A q \in Publishers \ {p} : ~Busy(q)'
      BY <1>2, <2>1 DEF OneAtATime, TypeOK
    <3>2. Busy(p) => p \in alone
      BY DEF SerialInv
    <3> QED
      BY <1>2, <2>1, <3>1, <3>2, NextCases DEF History
  <2>2. ASSUME up' = "up_write" PROVE disk' = NoConfig
    <3>1. ASSUME NEW p \in Publishers, Publish(p) PROVE FALSE
      BY <2>2, <3>1, PublishIsBusy, PublishSpares DEF SerialInv, OneAtATime
    <3>2. ASSUME NEW p \in Publishers,
                 Crash(p) \/ \E s \in Services, hosts \in SUBSET Hosts : Commit(p, s, hosts)
          PROVE  disk' = NoConfig
      BY <2>2, <3>2, CrashSpares, CommitSpares DEF SerialInv
    <3>3. CASE World
      BY <2>2, <3>3 DEF World, Manage, UpStat, UpWrite, UpInspect, UpStart, UpRun, DownStop, DownRemove,
           UpGoto, UpReturn, BeginUp, Retry, Bounce, UpCrash, SerialInv
    <3> QED
      BY <1>2, <3>1, <3>2, <3>3, NextCases
  <2> QED
    BY <1>2, <2>1, <2>2 DEF SerialInv
<1> QED
  BY <1>1, <1>2

LEMMA SerialInductive == SerialSpec => [](IInv /\ SerialInv)
<1>1. Init => SerialInv
  BY DEF Init, SerialInv, OneAtATime, Busy
<1>2. TypeOK /\ SerialInv /\ [Next /\ OneAtATime']_vars => SerialInv'
  BY SerialStep
<1>3. SerialSpec => Spec
  <2>1. [Next /\ OneAtATime']_vars => [Next]_vars
    OBVIOUS
  <2> QED
    BY <2>1, PTL DEF SerialSpec, Spec
<1>4. IInv => TypeOK
  BY DEF IInv
<1> QED
  BY <1>1, <1>2, <1>3, <1>4, Inductive, PTL DEF SerialSpec

(* What the registry asks for is what a command alone has listed of it. *)
Wanted == {b \in Blocks(routes) : \A p \in Publishers : b[2] \notin passed[p]}

LEMMA AsksFor ==
  ASSUME TypeOK, PassingInv, NEW p \in Publishers, Solo(p)
  PROVE  {b \in Blocks(routes) : \A q \in Publishers : b[2] \notin passed[q]} = Listed(p)
<1>1. \A q \in Publishers \ {p} : passed[q] = {}
  BY DEF Solo, PassingInv, Passing, Busy
<1> QED
  BY <1>1 DEF Listed

(* Caddy starting, or failing to, is a start, a load or a stop. *)
LEMMA BootPublishes ==
  ASSUME TypeOK, Boot, UNCHANGED disk
  PROVE  Promise!Next
<1>2. CASE Accepts(disk) /\ live = Down
  BY <1>2 DEF Boot, Accepts, Promise!Accepts, Promise!WithStub, Promise!Start, Promise!Next
<1>3. CASE Accepts(disk) /\ live # Down
  BY <1>3 DEF Boot, Accepts, Promise!Load, Promise!Next
<1>4. CASE ~Accepts(disk)
  BY <1>4 DEF Boot, Promise!Stop, Promise!Next
<1> QED
  BY <1>2, <1>3, <1>4

LEMMA PublisherPublishes ==
  ASSUME TypeOK, PassingInv, NEW p \in Publishers, Solo(p), Publish(p)
  PROVE  Promise!Next
<1>1. {b \in Blocks(routes) : \A q \in Publishers : b[2] \notin passed[q]} = Listed(p)
  BY AsksFor
<1>2. CASE UNCHANGED <<disk, live>>
  BY <1>2 DEF Promise!Change, Promise!Next
<1>3. CASE StubWrite(p)
  BY <1>2, <1>3 DEF StubWrite, At, OnlyFiles, Solo, Stub, Promise!Stub, Promise!LayStub, Promise!Next
<1>4. CASE Rename(p)
  <2>1. tmp = Listed(p) /\ Accepts(tmp)
    BY <1>4 DEF Rename, At, Solo
  <2> QED
    BY <1>1, <1>2, <1>4, <2>1 DEF Rename, OnlyFiles, Accepts, Promise!Accepts, Promise!Publish, Promise!Next
<1>5. CASE Reload(p)
  <2>1. live' = live \/ (live' = disk /\ box = "running" /\ Accepts(disk))
    BY <1>5 DEF Reload
  <2>2. box = "running" => live # Down
    BY DEF TypeOK
  <2> QED
    BY <1>2, <1>5, <2>1, <2>2 DEF Reload, Accepts, Promise!Load, Promise!Next
<1>6. ~(StubWrite(p) \/ Rename(p) \/ Reload(p)) => UNCHANGED <<disk, live>>
  BY DEF Publish, ListNames, Load, StubStat, Generate, Validate, Discard, OnlyFiles, caddyVars
<1> QED
  BY <1>2, <1>3, <1>4, <1>5, <1>6

LEMMA WorldPublishes ==
  ASSUME TypeOK, SerialInv, World
  PROVE  Promise!Next
<1>2. CASE UNCHANGED <<disk, live>>
  BY <1>2 DEF Promise!Change, Promise!Next
<1>3. CASE UpWrite
  BY <1>2, <1>3 DEF UpWrite, NoBox, SerialInv, Stub, Promise!Stub, Promise!LayStub, Promise!Next
<1>4. CASE UpStart \/ UpRun
  BY <1>2, <1>4, BootPublishes DEF UpStart, UpRun, NoBox
<1>5. CASE DownStop
  BY <1>2, <1>5 DEF DownStop, NoBox, Promise!Stop, Promise!Next
<1>6. CASE Retry \/ Bounce
  BY <1>6, BootPublishes DEF Retry, Bounce
<1>7. ~(UpWrite \/ UpStart \/ UpRun \/ DownStop \/ Retry \/ Bounce) => UNCHANGED <<disk, live>>
  BY DEF World, Manage, UpStat, UpInspect, DownRemove, BeginUp, UpCrash, NoBox
<1> QED
  BY <1>2, <1>3, <1>4, <1>5, <1>6, <1>7

(* Commands that come one after another implement Publication: whatever    *)
(* failed or died before, the Caddyfile goes from the registry into place  *)
(* in one step and Caddy serves a Caddyfile that was in place.             *)
THEOREM SerialRefinement == SerialSpec => Publishes
<1>1. Init => Promise!Init
  <2> SUFFICES ASSUME Init PROVE Promise!Init
    OBVIOUS
  <2>1. disk \in {NoConfig, Stub} \union {file \in {Wanted} : Accepts(file)}
    <3>1. Wanted = Blocks(routes)
      BY DEF Init, Wanted, Blocks
    <3> QED
      BY <3>1 DEF Init
  <2>2. live = Down \/ (disk # NoConfig /\ live = disk)
    BY DEF Init
  <2> QED
    BY <2>1, <2>2 DEF Promise!Init, Stub, Promise!Stub, Accepts, Promise!Accepts, Wanted
<1>2. ASSUME IInv, SerialInv, [Next /\ OneAtATime']_vars
      PROVE  [Promise!Next]_<<Wanted, disk, live>>
  <2>1. ASSUME NEW p \in Publishers, Publish(p) PROVE Promise!Next
    BY <1>2, <2>1, PublishIsBusy, PublisherPublishes DEF IInv, SoloInv, SerialInv
  <2>2. ASSUME NEW p \in Publishers,
               Crash(p) \/ \E s \in Services, hosts \in SUBSET Hosts : Commit(p, s, hosts)
        PROVE  Promise!Next
    BY <1>2, <2>2, CrashSpares, CommitSpares DEF IInv, Promise!Change, Promise!Next
  <2>3. CASE World
    BY <1>2, <2>3, WorldPublishes DEF IInv
  <2>4. CASE UNCHANGED vars
    BY <2>4 DEF vars, caddyVars, Promise!Change, Promise!Next
  <2> QED
    BY <1>2, <2>1, <2>2, <2>3, <2>4, NextCases
<1> QED
  BY <1>1, <1>2, SerialInductive, PTL DEF SerialSpec, Publishes, Promise!Spec, Wanted

(* What Publication promises: neither the Caddyfile nor what Caddy serves  *)
(* is ever one that Caddy would refuse.                                    *)
THEOREM PublicationKeepsAcceptable ==
  Publishes => []((disk # NoConfig => Accepts(disk)) /\ (live # Down => Accepts(live)))
<1> DEFINE Good == (disk # NoConfig => Accepts(disk)) /\ (live # Down => Accepts(live))
<1> USE DEF Accepts, Promise!Accepts, Stub, Promise!Stub, Promise!WithStub
<1>1. Promise!Init => Good
  BY DEF Promise!Init
<1>2. Good /\ [Promise!Next]_<<Wanted, disk, live>> => Good'
  BY DEF Promise!Next, Promise!Change, Promise!LayStub, Promise!Publish, Promise!Load, Promise!Start,
         Promise!Stop
<1> QED
  BY <1>1, <1>2, PTL DEF Publishes, Promise!Spec, Wanted

(* So what the documentation says is so as long as commands come one after *)
(* another: a Caddyfile that Caddy would refuse does not reach the disk.   *)
(* The run Ingress_broken shows that two at once suffice to put one there. *)
THEOREM BrokenNeedsTwo == SerialSpec => []BrokenNeverOnDisk
BY SerialRefinement, PublicationKeepsAcceptable, PTL DEF BrokenNeverOnDisk
=============================================================================
