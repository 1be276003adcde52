----------------------------- MODULE IntakeProofs -----------------------------
(***************************************************************************)
(* Proofs about Intake, for any command lines, scripts and hand edits: the *)
(* environment of an env script asked for by name is registered whole, or, *)
(* for two reasons, not at all; a container runs with the mounts that were *)
(* asked for; the two checks of a mount agree; the environment is the one  *)
(* a plain script asked for, however long it is; and every variable keeps  *)
(* its type.  The environment needs induction along a script, which here   *)
(* is over sets of naturals (Least, Along).                                *)
(***************************************************************************)
EXTENDS Intake, ExitCodesProofs, SequenceTheorems, FiniteSetTheorems, WellFoundedInduction

(* What makes an error one of the command line's, or one of a file's.      *)
LEMMA UsageCode == ExitCodeFor({"Usage"}) = ExitUsageError
<1>1. Cases[1][1] = {"Interrupted"} /\ Cases[2][1] = {"Usage"} /\ Cases[2][2] = ExitUsageError
  BY DEF Cases
<1>2. \A i \in 1..10 : i < 2 => i = 1
  OBVIOUS
<1>3. {"Usage"} # NoError /\ Cases[2][1] \intersect {"Usage"} # {} /\ Cases[1][1] \intersect {"Usage"} = {}
  BY <1>1 DEF NoError
<1>4. ExitCodeFor({"Usage"}) = Cases[2][2]
  BY <1>2, <1>3, FirstCase
<1> QED
  BY <1>1, <1>4

LEMMA ConfigCode ==
  ASSUME NEW err, NEW e \in err, e \in ConfigErrors, "Interrupted" \notin err, "Usage" \notin err
  PROVE  ExitCodeFor(err) = ExitConfigError
<1>1. Cases[1][1] = {"Interrupted"} /\ Cases[2][1] = {"Usage"} /\ Cases[3][1] = ConfigErrors /\ Cases[3][2] = ExitConfigError
  BY DEF Cases
<1>2. \A i \in 1..10 : i < 3 => i \in {1, 2}
  OBVIOUS
<1>3. err # NoError
  BY DEF NoError, ConfigErrors
<1>4. Cases[3][1] \intersect err # {} /\ \A i \in 1..10 : i < 3 => Cases[i][1] \intersect err = {}
  BY <1>1, <1>2
<1>5. ExitCodeFor(err) = Cases[3][2]
  BY <1>3, <1>4, FirstCase
<1> QED
  BY <1>1, <1>5
-----------------------------------------------------------------------------
(* What a deploy on its way knows of its script and of its command line.   *)
Before == {"cli", "stat"}
Past == {"source", "load_prev", "docker_run", "save"}

SeesFile ==
  /\ pc \in Before \union Past => file \in kinds
  /\ pc \in Past /\ args.env = "explicit" => kinds \intersect {"script", "locked"} # {}

FileIsOfAKind == file \in Kinds

Asks(ms) == ms = [i \in DOMAIN args.mounts |-> Written(args.mounts[i])]

HasMounts ==
  /\ pc \in Past \union {"stat"} => Asks(mounts)
  /\ pc = "save" => run = [mounts |-> Mounted(mounts), env |-> env]

IInv == SeesFile /\ FileIsOfAKind /\ HasMounts

LEMMA InvInit == Init => IInv
BY DEF Init, IInv, SeesFile, FileIsOfAKind, HasMounts, Before, Past

LEMMA InvNext == IInv /\ [Next]_vars => IInv'
<1> SUFFICES ASSUME IInv, [Next]_vars PROVE IInv'
  OBVIOUS
<1> USE DEF IInv, SeesFile, FileIsOfAKind, HasMounts, Asks, Before, Past, At, Goto, Return, World, Kept
<1>1. ASSUME NEW a \in CommandLines, Begin(a) PROVE IInv'
  BY <1>1 DEF Begin
<1>2. CASE RunDeployService
  <2>1. UNCHANGED <<file, run>>
    BY <1>2 DEF RunDeployService
  <2>2. CASE pc' = "idle"
    BY <2>1, <2>2
  <2>3. CASE pc' # "idle"
    <3>1. /\ pc' = IF args.env = "auto" /\ file \in {"missing", "denied"} THEN "load_prev" ELSE "stat"
          /\ UNCHANGED <<args, kinds>> /\ pc = "cli"
          /\ mounts' = [i \in DOMAIN args.mounts |-> Written(args.mounts[i])]
      BY <1>2, <2>3 DEF RunDeployService
    <3> QED
      BY <2>1, <3>1
  <2> QED
    BY <2>2, <2>3
<1>3. CASE Stat
  <2>1. /\ UNCHANGED <<file, run>> /\ pc = "stat"
        /\ \/ pc' = "idle"
           \/ file \in {"locked", "script"} /\ pc' = "source" /\ UNCHANGED <<args, mounts, env, kinds>>
    BY <1>3 DEF Stat, Kinds
  <2> QED
    BY <2>1
<1>4. CASE Source
  <2>1. /\ UNCHANGED <<file, run>> /\ pc = "source"
        /\ pc' = "idle" \/ (pc' = "load_prev" /\ UNCHANGED <<args, mounts, kinds>>)
    BY <1>4 DEF Source
  <2> QED
    BY <2>1
<1>5. CASE LoadPrev
  <2>1. /\ UNCHANGED <<file, run>> /\ pc = "load_prev"
        /\ pc' = "idle" \/ (pc' = "docker_run" /\ UNCHANGED <<args, mounts, kinds>>)
    BY <1>5 DEF LoadPrev
  <2> QED
    BY <2>1
<1>6. CASE DockerRun
  <2>1. /\ UNCHANGED file /\ pc = "docker_run"
        /\ \/ pc' = "idle"
           \/ /\ pc' = "save" /\ UNCHANGED <<args, mounts, env, kinds>>
              /\ run' = [mounts |-> Mounted(mounts), env |-> env]
    BY <1>6 DEF DockerRun, RunWith
  <2> QED
    BY <2>1
<1>7. CASE Save
  BY <1>7 DEF Save
<1>8. CASE BeginStart
  BY <1>8 DEF BeginStart
<1>9. CASE Load \/ RunAgain
  BY <1>9 DEF Load, RunAgain
<1>10. ASSUME NEW k \in Kinds, FileChanges(k) PROVE IInv'
  BY <1>10 DEF FileChanges, Changed
<1>11. ASSUME NEW ms \in Edits, NEW st, HandEdit(ms, st) PROVE IInv'
  BY <1>11 DEF HandEdit, Changed
<1>12. CASE UNCHANGED vars
  BY <1>12 DEF vars
<1> QED
  BY <1>1, <1>2, <1>3, <1>4, <1>5, <1>6, <1>7, <1>8, <1>9, <1>10, <1>11, <1>12 DEF Next

LEMMA Invariant == Spec => []IInv
BY InvInit, InvNext, PTL DEF Spec
-----------------------------------------------------------------------------
(* What docker makes of the argument for a mount of one-part paths is that *)
(* mount.                                                                   *)
Wellformed(m) ==
  /\ m = AMount(m.host, m.target, m.ro) /\ m.ro \in BOOLEAN
  /\ Len(m.host) = 1 => m.host = <<m.host[1]>>
  /\ Len(m.target) = 1 => m.target = <<m.target[1]>>

LEMMA Joined ==
  ASSUME NEW h, NEW t, NEW r
  PROVE  <<h>> \o <<t>> = <<h, t>> /\ <<h, t>> \o <<r>> = <<h, t, r>> /\ <<h, t>> \o <<>> = <<h, t>>
<1> DEFINE P == {h, t, r}
<1>1. <<h>> \in Seq(P) /\ <<t>> \in Seq(P) /\ <<r>> \in Seq(P) /\ <<h, t>> \in Seq(P) /\ <<h, t, r>> \in Seq(P)
  OBVIOUS
<1> HIDE DEF P
<1>2. <<h>> \o <<t>> = <<h, t>>
  <2>1. /\ <<h>> \o <<t>> \in Seq(P) /\ Len(<<h>> \o <<t>>) = 2
        /\ (<<h>> \o <<t>>)[1] = h /\ (<<h>> \o <<t>>)[2] = t
    BY <1>1, ConcatProperties
  <2>2. Len(<<h>> \o <<t>>) = Len(<<h, t>>) /\ \A i \in 1..Len(<<h>> \o <<t>>) : (<<h>> \o <<t>>)[i] = <<h, t>>[i]
    BY <2>1
  <2>3. \A u, v \in Seq(P) : Len(u) = Len(v) /\ (\A i \in 1..Len(u) : u[i] = v[i]) => u = v
    BY SeqEqual
  <2> QED
    BY <1>1, <2>1, <2>2, <2>3, Zenon
<1>3. <<h, t>> \o <<r>> = <<h, t, r>>
  <2>1. /\ <<h, t>> \o <<r>> \in Seq(P) /\ Len(<<h, t>> \o <<r>>) = 3
        /\ (<<h, t>> \o <<r>>)[1] = h /\ (<<h, t>> \o <<r>>)[2] = t /\ (<<h, t>> \o <<r>>)[3] = r
    BY <1>1, ConcatProperties
  <2>2. Len(<<h, t>> \o <<r>>) = Len(<<h, t, r>>) /\ \A i \in 1..Len(<<h, t>> \o <<r>>) : (<<h, t>> \o <<r>>)[i] = <<h, t, r>>[i]
    BY <2>1
  <2>3. \A u, v \in Seq(P) : Len(u) = Len(v) /\ (\A i \in 1..Len(u) : u[i] = v[i]) => u = v
    BY SeqEqual
  <2> QED
    BY <1>1, <2>1, <2>2, <2>3, Zenon
<1>4. <<h, t>> \o <<>> = <<h, t>>
  BY <1>1, ConcatEmptySeq
<1> QED
  BY <1>2, <1>3, <1>4

LEMMA RoundTrip ==
  ASSUME NEW m, Wellformed(m), OnePart(m)
  PROVE  DockerMount(FormatVolume(m)) = m
<1> DEFINE h == m.host[1]
           t == m.target[1]
<1>1. m.host = <<h>> /\ m.target = <<t>> /\ m = AMount(m.host, m.target, m.ro) /\ m.ro \in BOOLEAN
  BY DEF Wellformed, OnePart
<1> HIDE DEF h, t
<1>2. <<h>> \o <<t>> = <<h, t>> /\ <<h, t>> \o <<"ro">> = <<h, t, "ro">> /\ <<h, t>> \o <<>> = <<h, t>>
  BY Joined
<1>3. CASE m.ro = TRUE
  <2>1. FormatVolume(m) = <<h, t, "ro">>
    BY <1>1, <1>2, <1>3 DEF FormatVolume
  <2>2. Len(<<h, t, "ro">>) = 3 /\ <<h, t, "ro">>[3] = "ro" /\ <<h, t, "ro">>[1] = h /\ <<h, t, "ro">>[2] = t
    OBVIOUS
  <2>3. DockerMount(<<h, t, "ro">>) = AMount(<<h>>, <<t>>, TRUE)
    BY <2>2, Zenon DEF DockerMount
  <2> QED
    BY <1>1, <1>3, <2>1, <2>3
<1>4. CASE m.ro = FALSE
  <2>1. FormatVolume(m) = <<h, t>>
    BY <1>1, <1>2, <1>4 DEF FormatVolume
  <2>2. Len(<<h, t>>) # 3 /\ <<h, t>>[1] = h /\ <<h, t>>[2] = t
    OBVIOUS
  <2>3. DockerMount(<<h, t>>) = AMount(<<h>>, <<t>>, FALSE)
    BY <2>2, Zenon DEF DockerMount
  <2> QED
    BY <1>1, <1>4, <2>1, <2>3
<1> QED
  BY <1>1, <1>3, <1>4, Zenon

(* docker reads back the mount that formatVolume was given exactly if its  *)
(* two paths have one part each: a colon in a path makes another mount.    *)
THEOREM MountRoundTrip ==
  ASSUME NEW m, Wellformed(m)
  PROVE  DockerMount(FormatVolume(m)) = m <=> OnePart(m)
<1>1. OnePart(m) => DockerMount(FormatVolume(m)) = m
  BY RoundTrip
<1>2. \A arg : OnePart(DockerMount(arg))
  BY DEF DockerMount, AMount, OnePart
<1> QED
  BY <1>1, <1>2

(* What docker is given for a --mount the command line has accepted is the *)
(* argument as it was typed, part by part.                                 *)
THEOREM MountAsTyped ==
  ASSUME NEW S, NEW raw \in Seq(S), ParsesMountString(raw)
  PROVE  FormatVolume(Written(raw)) = raw
<1> DEFINE h == raw[1]
           t == raw[2]
<1>1. Len(raw) \in {2, 3} /\ (Len(raw) = 3 => raw[3] = "ro")
  BY DEF ParsesMountString
<1>2. /\ <<h>> \o <<t>> = <<h, t>> /\ <<h, t>> \o <<"ro">> = <<h, t, "ro">> /\ <<h, t>> \o <<>> = <<h, t>>
  BY Joined
<1>3. FormatVolume(Written(raw)) = <<h>> \o <<t>> \o (IF Len(raw) = 3 THEN <<"ro">> ELSE <<>>)
  BY DEF FormatVolume, Written, AMount
<1>4. CASE Len(raw) = 2
  <2>1. raw = <<h, t>>
    BY <1>4
  <2> QED
    BY <1>2, <1>3, <1>4, <2>1
<1>5. CASE Len(raw) = 3
  <2>1. raw = <<h, t, "ro">>
    BY <1>1, <1>5
  <2> QED
    BY <1>2, <1>3, <1>5, <2>1
<1> QED
  BY <1>1, <1>4, <1>5

LEMMA WrittenOne ==
  ASSUME NEW raw
  PROVE  Wellformed(Written(raw)) /\ OnePart(Written(raw))
BY DEF Written, AMount, Wellformed, OnePart

LEMMA EditsWellformed == \A ms \in Edits : \A i \in DOMAIN ms : Wellformed(ms[i])
<1> SUFFICES ASSUME NEW ms \in Edits, NEW i \in DOMAIN ms PROVE Wellformed(ms[i])
  OBVIOUS
<1>1. ms[i] \in [host : Seq(STRING), target : Seq(STRING), ro : BOOLEAN]
  <2>1. ms \in Seq([host : Seq(STRING), target : Seq(STRING), ro : BOOLEAN])
    BY EditsAreMounts
  <2> QED
    BY <2>1, LenProperties, ElementOfSeq
<1> QED
  BY <1>1 DEF Wellformed, AMount

LEMMA MountedExactly ==
  ASSUME NEW ms, \A i \in DOMAIN ms : Wellformed(ms[i]) /\ OnePart(ms[i])
  PROVE  Mounted(ms) = {ms[i] : i \in DOMAIN ms}
BY RoundTrip DEF Mounted

(* A registration is a record of wellformed mounts, hand-edited or not.    *)
IsReg(r) == /\ r = [mounts |-> r.mounts, strategy |-> r.strategy, env |-> r.env]
            /\ \A i \in DOMAIN r.mounts : Wellformed(r.mounts[i])

MInv == /\ IInv
        /\ reg # Nothing => IsReg(reg)
        /\ pc = "run_again" => IsReg(reg)

LEMMA MInvariant == Spec => []MInv
<1>1. Init => MInv
  BY InvInit DEF Init, MInv
<1>2. MInv /\ [Next]_vars => MInv'
  <2> SUFFICES ASSUME MInv, [Next]_vars PROVE MInv'
    OBVIOUS
  <2> USE DEF MInv, At, Goto, Return, World, Kept
  <2>1. IInv'
    BY InvNext
  <2>2. CASE UNCHANGED reg /\ ~Load
    <3>1. pc' = "run_again" => pc = "run_again"
      BY <2>2 DEF Next, Begin, RunDeployService, Stat, Source, LoadPrev, DockerRun, Save, BeginStart, RunAgain,
         FileChanges, HandEdit, Changed, vars
    <3> QED
      BY <2>1, <2>2, <3>1 DEF IsReg
  <2>3. CASE Load
    <3>1. UNCHANGED reg /\ (pc' = "run_again" => LoadError(reg) = NoError)
      BY <2>3 DEF Load
    <3>2. LoadError(reg) = NoError => reg # Nothing
      BY DEF LoadError, NoError
    <3> QED
      BY <2>1, <3>1, <3>2 DEF IsReg
  <2>4. CASE Save
    <3>1. Asks(mounts) /\ pc' = "idle" /\ reg' = [mounts |-> mounts, strategy |-> args.strategy, env |-> env]
      BY <2>4 DEF Save, IInv, HasMounts, Past
    <3>2. \A i \in DOMAIN mounts : Wellformed(mounts[i])
      BY <3>1, WrittenOne DEF Asks
    <3> QED
      BY <2>1, <3>1, <3>2 DEF IsReg
  <2>5. ASSUME NEW ms \in Edits, NEW st, HandEdit(ms, st) PROVE MInv'
    <3>1. reg' = [mounts |-> ms, strategy |-> st, env |-> reg.env]
      BY <2>5 DEF HandEdit, IsReg
    <3> QED
      BY <2>1, <3>1, EditsWellformed DEF IsReg
  <2>6. UNCHANGED reg \/ Save \/ \E ms \in Edits, st \in {c.strategy : c \in CommandLines} : HandEdit(ms, st)
    BY DEF Next, Begin, RunDeployService, Stat, Source, LoadPrev, DockerRun, BeginStart, Load, RunAgain,
       FileChanges, Changed, vars
  <2> QED
    BY <2>2, <2>3, <2>4, <2>5, <2>6
<1> QED
  BY <1>1, <1>2, PTL DEF Spec

(* A deploy that exits with 0 has run its container with exactly the       *)
(* mounts of its command line, and so has a start with the registered      *)
(* ones, if their paths have one part each.                                 *)
THEOREM MountsAreThose == Spec => MountsArrive
<1>1. ASSUME MInv, [Next]_vars, Ends(ExitOK)
      PROVE  Save \/ (RunAgain /\ RunWith(mounts, env))
  <2> USE DEF Ends, At, Goto, Return
  <2>1. \A err : Return(err) => err = NoError
    BY <1>1, OnlyNilIsZero
  <2>2. ~(RunDeployService \/ Source \/ LoadPrev \/ Load)
    BY <1>1, <2>1 DEF RunDeployService, Source, LoadPrev, Load, NoError
  <2>3. ~(Stat \/ DockerRun)
    BY <1>1, <2>1 DEF Stat, DockerRun, NoError
  <2>4. ~BeginStart /\ ~UNCHANGED vars /\ (\A a \in CommandLines : ~Begin(a)) /\ (\A k \in Kinds : ~FileChanges(k))
    BY <1>1 DEF BeginStart, vars, Begin, FileChanges, Changed
  <2>5. \A ms \in Edits, st \in {c.strategy : c \in CommandLines} : ~HandEdit(ms, st)
    BY <1>1 DEF HandEdit, Changed
  <2>6. RunAgain => RunWith(mounts, env)
    BY <1>1, <2>1 DEF RunAgain, NoError
  <2> QED
    BY <1>1, <2>2, <2>3, <2>4, <2>5, <2>6 DEF Next
<1>2. ASSUME MInv, Save
      PROVE  /\ run'.mounts = {reg'.mounts[i] : i \in DOMAIN reg'.mounts}
             /\ run'.mounts = {Written(args.mounts[i]) : i \in DOMAIN args.mounts}
  <2>1. Asks(mounts) /\ run' = [mounts |-> Mounted(mounts), env |-> env] /\ reg'.mounts = mounts
    BY <1>2 DEF Save, MInv, IInv, HasMounts, Past, At
  <2>2. Mounted(mounts) = {mounts[i] : i \in DOMAIN mounts}
    BY <2>1, WrittenOne, MountedExactly DEF Asks
  <2>3. {mounts[i] : i \in DOMAIN mounts} = {Written(args.mounts[i]) : i \in DOMAIN args.mounts}
    BY <2>1 DEF Asks
  <2> QED
    BY <2>1, <2>2, <2>3
<1>3. ASSUME MInv, RunAgain, RunWith(mounts, env), mounts = reg.mounts,
             \A i \in DOMAIN reg'.mounts : OnePart(reg'.mounts[i])
      PROVE  run'.mounts = {reg'.mounts[i] : i \in DOMAIN reg'.mounts}
  <2>1. reg' = reg /\ IsReg(reg) /\ run' = [mounts |-> Mounted(mounts), env |-> env]
    BY <1>3 DEF RunAgain, RunWith, MInv, At
  <2>2. Mounted(mounts) = {mounts[i] : i \in DOMAIN mounts}
    BY <1>3, <2>1, MountedExactly DEF IsReg
  <2> QED
    BY <1>3, <2>1, <2>2
<1>4. MInv /\ [Next]_vars =>
     /\ Ends(ExitOK) /\ (\A i \in DOMAIN reg'.mounts : OnePart(reg'.mounts[i]))
          /\ (Starting => mounts = reg.mounts)
        => run'.mounts = {reg'.mounts[i] : i \in DOMAIN reg'.mounts}
     /\ Deploying /\ Ends(ExitOK) => run'.mounts = {Written(args.mounts[i]) : i \in DOMAIN args.mounts}
  <2>1. Save => ~Starting
    BY DEF Save, Starting, At
  <2>2. RunAgain => Starting /\ ~Deploying
    BY DEF RunAgain, Starting, Deploying, At
  <2> QED
    BY <1>1, <1>2, <1>3, <2>1, <2>2
<1> QED
  BY <1>4, MInvariant, PTL DEF Spec, MountsArrive
-----------------------------------------------------------------------------
(* Induction along a list, with a set for the predicate: of the n for      *)
(* which it fails, the one with the smallest 1..n is the first.            *)
LEMMA Least ==
  ASSUME NEW T, T \subseteq Nat, T # {}
  PROVE  \E n \in T : \A m \in T : n <= m
<1> DEFINE below == {1..n : n \in T}
<1>1. IsWellFoundedOn(StrictSubsetOrdering(Nat), FiniteSubsetsOf(Nat))
  BY FS_StrictSubsetOrderingWellFounded
<1>2. below \subseteq FiniteSubsetsOf(Nat) /\ below # {}
  <2>1. ASSUME NEW n \in T PROVE 1..n \in FiniteSubsetsOf(Nat)
    <3>1. n \in Int /\ 1 \in Int /\ 1..n \subseteq Nat
      OBVIOUS
    <3>2. IsFiniteSet(1..n)
      BY <3>1, FS_Interval
    <3> QED
      BY <3>1, <3>2 DEF FiniteSubsetsOf
  <2> QED
    BY <2>1
<1>3. \E x \in below : \A y \in below : <<y, x>> \notin StrictSubsetOrdering(Nat)
  <2> HIDE DEF below
  <2> QED
    BY <1>1, <1>2, WFMin
<1>4. PICK n \in T : \A m \in T : <<1..m, 1..n>> \notin StrictSubsetOrdering(Nat)
  BY <1>3
<1>5. ASSUME NEW m \in T, m < n PROVE FALSE
  <2>1. 1..m \subseteq 1..n /\ n \in 1..n /\ n \notin 1..m /\ 1..n \in SUBSET Nat /\ 1..m \in SUBSET Nat
    BY <1>5
  <2>2. <<1..m, 1..n>> \in StrictSubsetOrdering(Nat)
    BY <2>1 DEF StrictSubsetOrdering
  <2> QED
    BY <2>2, <1>4
<1> QED
  BY <1>5

LEMMA Along ==
  ASSUME NEW L \in Nat, NEW T, 0 \in T, \A n \in 0..L : n # L /\ n \in T => n + 1 \in T
  PROVE  0..L \subseteq T
<1> SUFFICES ASSUME (0..L) \ T # {} PROVE FALSE
  OBVIOUS
<1>1. PICK n \in (0..L) \ T : \A m \in (0..L) \ T : n <= m
  <2>1. (0..L) \ T \subseteq Nat
    OBVIOUS
  <2> QED
    BY <2>1, Least
<1>2. n # 0 /\ n - 1 \in 0..L /\ n - 1 # L
  BY <1>1
<1>3. n - 1 \in T
  BY <1>1, <1>2
<1> QED
  BY <1>1, <1>2, <1>3
-----------------------------------------------------------------------------
(* The run of a script is well-defined, and its states are typed.          *)
Follows(f, scr, n) ==
  f = [i \in 0..n |-> IF i = 0 THEN Shell ELSE Runs(f[i - 1], scr[i])]

LEMMA RunExists ==
  ASSUME NEW scr, Len(scr) \in Nat
  PROVE  \E f : Follows(f, scr, Len(scr)) /\ Sourced(scr) = f[Len(scr)]
<1> DEFINE L == Len(scr)
           T == {n \in 0..L : \E f : Follows(f, scr, n)}
<1>1. 0 \in T
  <2>1. Follows([i \in 0..0 |-> Shell], scr, 0)
    BY DEF Follows
  <2> QED
    BY <2>1
<1>2. ASSUME NEW n \in 0..L, n # L, n \in T PROVE n + 1 \in T
  <2>1. PICK g : Follows(g, scr, n)
    BY <1>2
  <2> DEFINE f == [i \in 0..(n + 1) |-> IF i = n + 1 THEN Runs(g[n], scr[n + 1]) ELSE g[i]]
  <2>2. n \in Nat /\ n + 1 \in 0..L /\ (\A i \in 0..(n + 1) : i = n + 1 \/ i \in 0..n) /\ \A i \in 0..n : i # n + 1
    BY <1>2
  <2>3. \A i \in 0..n : f[i] = g[i] /\ g[i] = IF i = 0 THEN Shell ELSE Runs(g[i - 1], scr[i])
    BY <2>1, <2>2 DEF Follows
  <2>4. f[n + 1] = Runs(f[n], scr[n + 1]) /\ (n + 1) - 1 = n /\ n + 1 # 0
    BY <2>2, <2>3
  <2>5. \A i \in 0..n : i = 0 \/ i - 1 \in 0..n
    BY <2>2
  <2>6. \A i \in 0..(n + 1) : f[i] = IF i = 0 THEN Shell ELSE Runs(f[i - 1], scr[i])
    <3> HIDE DEF f
    <3> QED
      BY <2>2, <2>3, <2>4, <2>5
  <2>7. Follows(f, scr, n + 1)
    BY <2>6 DEF Follows
  <2> HIDE DEF f
  <2> QED
    BY <2>2, <2>7
<1>3. \E f : Follows(f, scr, L)
  <2> HIDE DEF T
  <2>1. 0..L \subseteq T
    BY <1>1, <1>2, Along
  <2>2. L \in T
    BY <2>1
  <2> QED
    BY <2>2 DEF T
<1>4. Sourced(scr) = (CHOOSE f : Follows(f, scr, L))[L]
  BY DEF Sourced, Follows
<1> QED
  BY <1>3, <1>4

Shells == [vars : [Names -> Nat], exported : SUBSET Names, fixed : SUBSET Names,
           auto : BOOLEAN, strict : BOOLEAN, printed : BOOLEAN,
           st : {"sourcing", "sourced", "gone"}, code : Nat]

LEMMA StumblesType == \A sh \in Shells : Stumbles(sh) \in Shells
BY DEF Stumbles, Shells

LEMMA ShellType == Shell \in Shells
BY DEF Shell, Shells

LEMMA RunsType ==
  ASSUME NEW sh \in Shells, NEW c \in Statements
  PROVE  Runs(sh, c) \in Shells
<1>1. \A k \in Names, v \in Nat, e \in BOOLEAN : Assigned(sh, k, v, e) \in Shells
  BY StumblesType DEF Assigned, Shells
<1>2. CASE c \in {"set", "export"} \X Names \X Nat
  <2>1. c[1] \in {"set", "export"} /\ c[2] \in Names /\ c[3] \in Nat /\ sh.auto \in BOOLEAN
    BY <1>2 DEF Shells
  <2> QED
    BY <1>1, <2>1 DEF Runs
<1>3. CASE c \in {"readonly"} \X Names
  BY <1>3 DEF Runs, Shells
<1>4. CASE c \in {"exit"} \X Nat
  BY <1>4 DEF Runs, Shells
<1>5. ASSUME NEW w \in {"set +a", "set -e", "fail", "syntax", "print"}, c = <<w>> PROVE Runs(sh, c) \in Shells
  <2>1. c[1] = w
    BY <1>5
  <2>2. [sh EXCEPT !.auto = FALSE] \in Shells /\ [sh EXCEPT !.strict = TRUE] \in Shells /\ [sh EXCEPT !.printed = TRUE] \in Shells
    BY DEF Shells
  <2>3. \A s \in {"sourcing", "sourced", "gone"} : [Stumbles(sh) EXCEPT !.st = s] \in Shells
    BY StumblesType DEF Shells
  <2> QED
    BY <1>5, <2>1, <2>2, <2>3, StumblesType DEF Runs
<1> QED
  BY <1>2, <1>3, <1>4, <1>5 DEF Statements

LEMMA SourcedType ==
  ASSUME NEW scr \in Seq(Statements)
  PROVE  Sourced(scr) \in Shells
<1>1. Len(scr) \in Nat /\ \A i \in 1..Len(scr) : scr[i] \in Statements
  BY ElementOfSeq, LenProperties
<1> DEFINE L == Len(scr)
<1>2. PICK f : Follows(f, scr, L) /\ Sourced(scr) = f[L]
  BY <1>1, RunExists
<1>3. \A i \in 0..L : f[i] = IF i = 0 THEN Shell ELSE Runs(f[i - 1], scr[i])
  BY <1>2 DEF Follows
<1> DEFINE T == {n \in 0..L : f[n] \in Shells}
<1>4. 0 \in T
  BY <1>1, <1>3, ShellType
<1>5. ASSUME NEW n \in 0..L, n # L, n \in T PROVE n + 1 \in T
  <2>1. n + 1 \in 0..L /\ n + 1 \in 1..L /\ n + 1 # 0 /\ (n + 1) - 1 = n
    BY <1>1, <1>5
  <2>2. f[n + 1] = Runs(f[n], scr[n + 1])
    BY <1>3, <2>1
  <2> QED
    BY <1>1, <1>5, <2>1, <2>2, RunsType
<1> HIDE DEF T
<1>6. 0..L \subseteq T
  BY <1>1, <1>4, <1>5, Along
<1> QED
  BY <1>1, <1>2, <1>6 DEF T

LEMMA RecordsType ==
  ASSUME NEW sh \in Shells
  PROVE  DiffEnv(Baseline, Records(sh)) \in Env
<1> DEFINE P == (Names \union {Garbled, "HOME"}) \X Nat
           env_ == (Baseline \ {b \in Baseline : b[1] \in sh.exported}) \union Exported(sh)
           first == CHOOSE b \in env_ : b[1] \in Early \/ \A c \in env_ : c[1] \notin Early
<1>1. Exported(sh) \subseteq P
  BY DEF Exported, Shells
<1>2. env_ \subseteq P
  BY <1>1 DEF Baseline, Home
<1>3. env_ # {}
  <2>1. CASE "HOME" \in sh.exported
    <3>1. <<"HOME", sh.vars["HOME"]>> \in Exported(sh)
      BY <2>1 DEF Exported
    <3> QED
      BY <3>1
  <2>2. CASE "HOME" \notin sh.exported
    <3>1. Home \in Baseline /\ Home[1] = "HOME"
      BY DEF Home, Baseline
    <3>2. Home \in env_
      BY <3>1, <2>2
    <3> QED
      BY <3>2
  <2> QED
    BY <2>1, <2>2
<1>4. \E b \in env_ : b[1] \in Early \/ \A c \in env_ : c[1] \notin Early
  <2> HIDE DEF env_
  <2> QED
    BY <1>3
<1>5. first \in env_
  <2> HIDE DEF env_
  <2> QED
    BY <1>4
<1>6. <<Garbled, first[2]>> \in P
  <2> HIDE DEF env_, first
  <2> QED
    BY <1>2, <1>5
<1>7. Records(sh) \in {{}, (env_ \ {first}) \union {<<Garbled, first[2]>>}, env_}
  BY DEF Records
<1>8. Records(sh) \subseteq P
  <2> HIDE DEF env_, first
  <2> QED
    BY <1>2, <1>6, <1>7
<1> QED
  BY <1>8 DEF DiffEnv, Env
-----------------------------------------------------------------------------
(* The codes the other errors end in.                                      *)
LEMMA CaptureCode == ExitCodeFor({"EnvCapture"}) = ExitEnvCaptureFail
<1> DEFINE err == {"EnvCapture"}
<1>1. /\ Cases[1][1] = {"Interrupted"} /\ Cases[2][1] = {"Usage"} /\ Cases[3][1] = ConfigErrors
      /\ Cases[4][1] = {"EnvCapture"} /\ Cases[4][2] = ExitEnvCaptureFail
  BY DEF Cases
<1>2. \A i \in 1..10 : i < 4 => i \in {1, 2, 3}
  OBVIOUS
<1>3. /\ err # NoError /\ Cases[4][1] \intersect err # {}
      /\ Cases[1][1] \intersect err = {} /\ Cases[2][1] \intersect err = {} /\ Cases[3][1] \intersect err = {}
  BY <1>1 DEF NoError, ConfigErrors
<1>4. ExitCodeFor(err) = Cases[4][2]
  <2> HIDE DEF err
  <2> QED
    BY <1>2, <1>3, FirstCase
<1> QED
  BY <1>1, <1>4

LEMMA RunCode == ExitCodeFor({"Run"}) = ExitRunFail
<1> DEFINE err == {"Run"}
<1>1. /\ Cases[1][1] = {"Interrupted"} /\ Cases[2][1] = {"Usage"} /\ Cases[3][1] = ConfigErrors
      /\ Cases[4][1] = {"EnvCapture"} /\ Cases[5][1] = {"Build"}
      /\ Cases[6][1] = {"Run"} /\ Cases[6][2] = ExitRunFail
  BY DEF Cases
<1>2. \A i \in 1..10 : i < 6 => i \in {1, 2, 3, 4, 5}
  OBVIOUS
<1>3. /\ err # NoError /\ Cases[6][1] \intersect err # {}
      /\ \A i \in {1, 2, 3, 4, 5} : Cases[i][1] \intersect err = {}
  BY <1>1 DEF NoError, ConfigErrors
<1>4. ExitCodeFor(err) = Cases[6][2]
  <2> HIDE DEF err
  <2> QED
    BY <1>2, <1>3, FirstCase
<1> QED
  BY <1>1, <1>4

(* The errors of a deploy and of a start, and their codes.                 *)
OfFiles == {{"InvalidStrategy"}, {"InvalidMount"}, {"NotFound"}, {"EnvScriptMissing"}, {"EnvScriptUnreadable"},
            {"EnvCapture", "EnvScriptMissing"}, {"EnvCapture", "EnvScriptUnreadable"}}

LEMMA FileCode == \A err \in OfFiles : ExitCodeFor(err) = ExitConfigError
<1> SUFFICES ASSUME NEW err \in OfFiles PROVE ExitCodeFor(err) = ExitConfigError
  OBVIOUS
<1>1. PICK e \in err : e \in ConfigErrors
  BY DEF OfFiles, ConfigErrors
<1>2. "Interrupted" \notin err /\ "Usage" \notin err
  BY DEF OfFiles
<1> QED
  BY <1>1, <1>2, ConfigCode

LEMMA NoErrorCode == ExitCodeFor(NoError) = ExitOK
BY DEF ExitCodeFor

LEMMA LoadErrors == \A r : LoadError(r) = NoError \/ LoadError(r) \in OfFiles
BY DEF LoadError, OfFiles

(* How a command ends: each of its steps, the errors it returns, and what  *)
(* the state was.                                                          *)
LEMMA Ending ==
  ASSUME [Next]_vars, pc # "idle", pc' = "idle"
  PROVE  \/ RunDeployService /\ (Return({"Usage"}) \/ \E err \in OfFiles : Return(err))
         \/ pc \in {"stat", "load_prev", "load"} /\ (\E err \in OfFiles : Return(err)) /\ (pc = "load" => Load)
         \/ pc = "source" /\ Return({"EnvCapture"})
         \/ pc \in {"docker_run", "run_again"} /\ Return({"Run"})
         \/ (Save \/ (RunAgain /\ RunWith(mounts, env))) /\ Return(NoError)
<1> USE DEF At, Goto, Return
<1>1. RunDeployService \/ Stat \/ Source \/ LoadPrev \/ DockerRun \/ Save \/ Load \/ RunAgain
  BY DEF Next, Begin, BeginStart, FileChanges, HandEdit, Changed, vars
<1>2. CASE RunDeployService
  BY <1>2 DEF RunDeployService, ResolveError, OfFiles
<1>3. CASE Stat
  BY <1>3 DEF Stat, OfFiles
<1>4. CASE Source
  BY <1>4 DEF Source
<1>5. CASE LoadPrev
  <2>1. pc = "load_prev" /\ LoadError(reg) # NoError /\ Return(LoadError(reg))
    BY <1>5 DEF LoadPrev
  <2> QED
    BY <2>1, LoadErrors
<1>6. CASE DockerRun
  BY <1>6 DEF DockerRun
<1>7. CASE Save
  BY <1>7 DEF Save
<1>8. CASE Load
  <2>1. pc = "load" /\ LoadError(reg) # NoError /\ Return(LoadError(reg))
    BY <1>8 DEF Load
  <2> QED
    BY <1>8, <2>1, LoadErrors
<1>9. CASE RunAgain
  BY <1>9 DEF RunAgain
<1> QED
  BY <1>1, <1>2, <1>3, <1>4, <1>5, <1>6, <1>7, <1>8, <1>9
-----------------------------------------------------------------------------
(* What a deploy past its command line has had checked, and what a         *)
(* registration is that nobody has edited: the same mounts, through the    *)
(* loader's check.                                                         *)
Checked ==
  /\ Deploying => args \in CommandLines
  /\ pc \in Past \union {"stat"} =>
       ParsesMountFlags(args.mounts) /\ args.strategy = "recreate" /\ args.port # 0

Loadable == reg # Nothing /\ ~edited => ValidateMounts(reg.mounts) /\ reg.strategy = "recreate"

CInv == MInv /\ Checked /\ Loadable

AsWritten(raws) == [i \in DOMAIN raws |-> Written(raws[i])]

LEMMA ParsedIsValid ==
  ASSUME NEW raws
  PROVE  /\ ParsesMountFlags(raws) => ValidateMounts(AsWritten(raws))
         /\ (\A i \in DOMAIN raws : HasParts(raws[i])) /\ ValidateMounts(AsWritten(raws)) => ParsesMountFlags(raws)
<1>1. \A i \in DOMAIN raws : AsWritten(raws)[i] = Written(raws[i])
  BY DEF AsWritten
<1>2. DOMAIN AsWritten(raws) = DOMAIN raws
  BY DEF AsWritten
<1>3. \A raw : HasParts(raw) => Len(raw) \in {2, 3} /\ (Len(raw) = 3 => raw[3] = "ro")
  BY DEF HasParts
<1>4. HasDuplicateTarget(AsWritten(raws)) = HasDuplicateTarget([i \in DOMAIN raws |-> Written(raws[i])])
  BY DEF AsWritten
<1>5. ParsesMountFlags(raws) <=> /\ \A i \in DOMAIN raws : ParsesMountString(raws[i])
                                 /\ ~HasDuplicateTarget(AsWritten(raws))
  BY <1>4 DEF ParsesMountFlags
<1>6. ValidateMounts(AsWritten(raws)) <=> /\ \A i \in DOMAIN raws : ValidateMount(Written(raws[i]))
                                          /\ ~HasDuplicateTarget(AsWritten(raws))
  BY <1>1, <1>2 DEF ValidateMounts
<1> QED
  BY <1>3, <1>5, <1>6 DEF ParsesMountString

LEMMA CInvariant == Spec => []CInv
<1>1. Init => CInv
  <2>1. Init => MInv
    BY InvInit DEF Init, MInv
  <2> QED
    BY <2>1 DEF Init, CInv, Checked, Loadable, Deploying, Past
<1>2. CInv /\ MInv' /\ [Next]_vars => CInv'
  <2> SUFFICES ASSUME CInv, MInv', [Next]_vars PROVE Checked' /\ Loadable'
    BY DEF CInv
  <2> USE DEF CInv, Checked, Loadable, Deploying, Past, At, Goto, Return, World, Kept
  <2>1. CASE UNCHANGED <<reg, edited>>
    <3>1. SUFFICES Checked'
      BY <2>1
    <3>2. ASSUME NEW a \in CommandLines, Begin(a) PROVE Checked'
      BY <3>2 DEF Begin
    <3>3. CASE RunDeployService
      <4>1. CASE pc' = "idle"
        BY <4>1
      <4>2. CASE pc' # "idle"
        <5>1. /\ pc' \in {"load_prev", "stat"} /\ UNCHANGED args /\ args \in CommandLines
              /\ ParsesMountFlags(args.mounts) /\ args.strategy = "recreate" /\ args.port # 0
          BY <3>3, <4>2 DEF RunDeployService, NoError
        <5> QED
          BY <5>1
      <4> QED
        BY <4>1, <4>2
    <3>4. CASE Stat \/ Source \/ LoadPrev \/ DockerRun \/ Save
      <4>1. pc \in Past \union {"stat"} /\ (pc' = "idle" \/ (pc' \in Past /\ UNCHANGED args))
        BY <3>4 DEF Stat, Source, LoadPrev, DockerRun, Save
      <4> QED
        BY <4>1
    <3>5. CASE BeginStart \/ Load \/ RunAgain
      BY <3>5 DEF BeginStart, Load, RunAgain
    <3>6. ASSUME NEW k \in Kinds, FileChanges(k) PROVE Checked'
      BY <3>6 DEF FileChanges, Changed
    <3>7. ASSUME NEW ms \in Edits, NEW st, HandEdit(ms, st) PROVE Checked'
      BY <3>7 DEF HandEdit, Changed
    <3>8. CASE UNCHANGED vars
      BY <3>8 DEF vars
    <3> QED
      BY <3>2, <3>3, <3>4, <3>5, <3>6, <3>7, <3>8 DEF Next
  <2>2. CASE Save
    <3>1. pc = "save" /\ pc' = "idle" /\ reg' = [mounts |-> mounts, strategy |-> args.strategy, env |-> env]
      BY <2>2 DEF Save
    <3>2. mounts = AsWritten(args.mounts) /\ ParsesMountFlags(args.mounts) /\ args.strategy = "recreate"
      BY <3>1 DEF MInv, IInv, HasMounts, Asks, AsWritten
    <3>3. ValidateMounts(mounts)
      BY <3>2, ParsedIsValid
    <3> QED
      BY <3>1, <3>2, <3>3
  <2>3. ASSUME NEW ms \in Edits, NEW st, HandEdit(ms, st) PROVE Checked' /\ Loadable'
    BY <2>3 DEF HandEdit, Changed
  <2>4. \/ UNCHANGED <<reg, edited>> \/ Save
        \/ \E ms \in Edits, st \in {c.strategy : c \in CommandLines} : HandEdit(ms, st)
    BY DEF Next, Begin, RunDeployService, Stat, Source, LoadPrev, DockerRun, BeginStart, Load, RunAgain,
       FileChanges, Changed, vars
  <2> QED
    BY <2>1, <2>2, <2>3, <2>4
<1> QED
  BY <1>1, <1>2, MInvariant, PTL DEF Spec

(* The command line's checks and the loader's refuse the same mounts: a    *)
(* deploy ends in 2 exactly if the loader would refuse its mounts (or it   *)
(* has no port), and what it has registered no later start refuses.        *)
THEOREM ChecksAreOne == Spec => ChecksAgree
<1> USE DEF Return
<1>1. ASSUME CInv, [Next]_vars, Deploying, pc' = "idle", \A i \in DOMAIN args.mounts : HasParts(args.mounts[i])
      PROVE  exit' = ExitUsageError <=>
               \/ ~ValidateMounts([i \in DOMAIN args.mounts |-> Written(args.mounts[i])])
               \/ args.strategy = "recreate" /\ args.port = 0
  <2>1. ParsesMountFlags(args.mounts) <=> ValidateMounts([i \in DOMAIN args.mounts |-> Written(args.mounts[i])])
    BY <1>1, ParsedIsValid DEF AsWritten
  <2>2. \A err \in OfFiles \union {{"EnvCapture"}, {"Run"}, NoError} : ExitCodeFor(err) # ExitUsageError
    BY FileCode, CaptureCode, RunCode, NoErrorCode
       DEF ExitUsageError, ExitConfigError, ExitEnvCaptureFail, ExitRunFail, ExitOK
  <2>3. CASE RunDeployService
    <3>1. PICK err : /\ err = IF ~ParsesMountFlags(args.mounts) THEN {"Usage"}
                              ELSE IF args.strategy # "recreate" THEN {"InvalidStrategy"}
                              ELSE IF args.port = 0 THEN {"Usage"}
                              ELSE ResolveError(args)
                     /\ exit' = ExitCodeFor(err) /\ err # NoError
      BY <1>1, <2>3 DEF RunDeployService, Goto
    <3>2. ResolveError(args) \in OfFiles \union {NoError} /\ {"InvalidStrategy"} \in OfFiles
      BY DEF ResolveError, OfFiles
    <3> QED
      BY <2>1, <2>2, <3>1, <3>2, UsageCode
  <2>4. CASE ~RunDeployService
    <3>1. pc \in Past \union {"stat"}
      BY <1>1, <2>4, Ending DEF Deploying, Past, Save, RunAgain, At
    <3>2. \E err \in OfFiles \union {{"EnvCapture"}, {"Run"}, NoError} : exit' = ExitCodeFor(err)
      BY <1>1, <2>4, Ending DEF Deploying
    <3> QED
      BY <1>1, <2>1, <2>2, <3>1, <3>2 DEF CInv, Checked
  <2> QED
    BY <2>3, <2>4
<1>2. ASSUME CInv, [Next]_vars, Starting, Ends(ExitConfigError)
      PROVE  edited \/ reg = Nothing
  <2>1. ~RunDeployService /\ ~Save /\ pc # "idle" /\ pc' = "idle" /\ pc \in {"load", "run_again"}
    BY <1>2 DEF RunDeployService, Save, Starting, Ends, At
  <2>2. Load \/ exit' \in {ExitCodeFor({"Run"}), ExitCodeFor(NoError)}
    BY <1>2, <2>1, Ending
  <2>3. Load
    BY <1>2, <2>2, RunCode, NoErrorCode DEF Ends, ExitConfigError, ExitRunFail, ExitOK
  <2>4. LoadError(reg) # NoError
    BY <1>2, <2>1, <2>3 DEF Load, Goto
  <2> QED
    BY <1>2, <2>4 DEF CInv, Loadable, LoadError
<1> QED
  BY <1>1, <1>2, CInvariant, PTL DEF Spec, ChecksAgree
-----------------------------------------------------------------------------
(* A script that only assigns and switches, after its first n statements.  *)
LastAt(scr, n, k, i) == Assigns(scr[i], k) /\ \A j \in 1..n : Assigns(scr[j], k) => j <= i

AutoUpTo(scr, n) == \A j \in 1..n : scr[j][1] # "set +a"

AskedUpTo(scr, n, k) ==
  \E i \in 1..n : Assigns(scr[i], k) /\ (scr[i][1] = "export" \/ AutoUpTo(scr, i))

Done(sh, scr, n) ==
  /\ sh \in Shells /\ sh.st = "sourcing" /\ sh.code = 0 /\ ~sh.printed /\ sh.fixed = {}
  /\ sh.auto <=> AutoUpTo(scr, n)
  /\ \A k \in Names : k \in sh.exported <=> AskedUpTo(scr, n, k)
  /\ \A k \in Names : (\E i \in 1..n : Assigns(scr[i], k)) =>
                         \E i \in 1..n : LastAt(scr, n, k, i) /\ sh.vars[k] = scr[i][3]

LEMMA DoneNext ==
  ASSUME NEW scr \in Seq(Statements), Simple(scr), NEW n \in 0..Len(scr), n # Len(scr),
         NEW sh, Done(sh, scr, n)
  PROVE  Done(Runs(sh, scr[n + 1]), scr, n + 1)
<1> DEFINE m == n + 1
           c == scr[m]
           th == Runs(sh, c)
<1>1. /\ n \in Nat /\ m \in Nat /\ m \in 1..Len(scr) /\ m \in DOMAIN scr /\ m \in 1..m
      /\ \A i \in 1..m : i = m \/ i \in 1..n
      /\ \A i \in 1..n : i \in 1..m /\ i # m /\ i <= m /\ i \in Nat /\ ~(m <= i)
  BY LenProperties
<1>2. c \in Statements /\ c[1] \in {"set", "export", "set +a", "set -e"}
  BY <1>1, ElementOfSeq DEF Simple
<1>3. c[1] \in {"set", "export"} => c[2] \in Names /\ c[3] \in Nat
  <2>1. \A w : <<w>>[1] = w
    OBVIOUS
  <2> QED
    BY <1>2, <2>1 DEF Statements
<1>4. th \in Shells
  BY <1>2, RunsType DEF Done
<1> HIDE DEF m, c
<1>5. AutoUpTo(scr, m) <=> AutoUpTo(scr, n) /\ c[1] # "set +a"
  BY <1>1 DEF AutoUpTo, c
<1>6. \A k : AskedUpTo(scr, m, k) <=> \/ AskedUpTo(scr, n, k)
                                      \/ Assigns(c, k) /\ (c[1] = "export" \/ AutoUpTo(scr, m))
  BY <1>1 DEF AskedUpTo, c
<1>7. CASE c[1] \in {"set", "export"}
  <2>1. /\ th = [sh EXCEPT !.vars[c[2]] = c[3],
                           !.exported = IF c[1] = "export" \/ sh.auto THEN @ \union {c[2]} ELSE @]
        /\ \A k : Assigns(c, k) <=> c[2] = k
    BY <1>3, <1>7 DEF Runs, Assigned, Done, Assigns
  <2>2. /\ th.st = "sourcing" /\ th.code = 0 /\ ~th.printed /\ th.fixed = {} /\ th.auto = sh.auto
        /\ th.exported = IF c[1] = "export" \/ sh.auto THEN sh.exported \union {c[2]} ELSE sh.exported
        /\ \A k \in Names : th.vars[k] = IF k = c[2] THEN c[3] ELSE sh.vars[k]
    BY <1>3, <2>1 DEF Done, Shells
  <2>3. th.auto <=> AutoUpTo(scr, m)
    BY <1>5, <1>7, <2>2 DEF Done
  <2>4. \A k \in Names : k \in th.exported <=> AskedUpTo(scr, m, k)
    BY <1>6, <2>1, <2>2, <2>3 DEF Done
  <2>5. ASSUME NEW k \in Names, \E i \in 1..m : Assigns(scr[i], k)
        PROVE  \E i \in 1..m : LastAt(scr, m, k, i) /\ th.vars[k] = scr[i][3]
    <3>1. CASE k = c[2]
      <4>1. LastAt(scr, m, k, m)
        BY <1>1, <2>1, <3>1 DEF LastAt, c
      <4> QED
        BY <1>1, <2>2, <3>1, <4>1 DEF c
    <3>2. CASE k # c[2]
      <4>1. ~Assigns(scr[m], k) /\ \E i \in 1..n : Assigns(scr[i], k)
        BY <1>1, <2>1, <2>5, <3>2 DEF c
      <4>2. PICK i \in 1..n : LastAt(scr, n, k, i) /\ sh.vars[k] = scr[i][3]
        BY <4>1 DEF Done
      <4>3. LastAt(scr, m, k, i)
        BY <1>1, <4>1, <4>2 DEF LastAt
      <4> QED
        BY <1>1, <2>2, <3>2, <4>2, <4>3
    <3> QED
      BY <3>1, <3>2
  <2> QED
    BY <1>4, <2>2, <2>3, <2>4, <2>5 DEF Done, m, c
<1>8. CASE c[1] \in {"set +a", "set -e"}
  <2>1. \A k : ~Assigns(c, k)
    BY <1>8 DEF Assigns
  <2>2. /\ th.st = "sourcing" /\ th.code = 0 /\ ~th.printed /\ th.fixed = {}
        /\ th.auto = (sh.auto /\ c[1] # "set +a") /\ th.exported = sh.exported /\ th.vars = sh.vars
    BY <1>8 DEF Runs, Done, Shells
  <2>3. ASSUME NEW k \in Names, \E i \in 1..m : Assigns(scr[i], k)
        PROVE  \E i \in 1..m : LastAt(scr, m, k, i) /\ th.vars[k] = scr[i][3]
    <3>1. ~Assigns(scr[m], k) /\ \E i \in 1..n : Assigns(scr[i], k)
      BY <1>1, <2>1, <2>3 DEF c
    <3>2. PICK i \in 1..n : LastAt(scr, n, k, i) /\ sh.vars[k] = scr[i][3]
      BY <3>1 DEF Done
    <3>3. LastAt(scr, m, k, i)
      BY <1>1, <3>1, <3>2 DEF LastAt
    <3> QED
      BY <1>1, <2>2, <3>2, <3>3
  <2>4. \A k \in Names : k \in th.exported <=> AskedUpTo(scr, m, k)
    BY <1>6, <2>1, <2>2 DEF Done
  <2>5. th.auto <=> AutoUpTo(scr, m)
    BY <1>5, <2>2 DEF Done
  <2> QED
    BY <1>4, <2>2, <2>3, <2>4, <2>5 DEF Done, m, c
<1> QED
  BY <1>2, <1>7, <1>8

LEMMA SourcedDone ==
  ASSUME NEW scr \in Seq(Statements), Simple(scr)
  PROVE  Done(Sourced(scr), scr, Len(scr))
<1> DEFINE L == Len(scr)
<1>1. L \in Nat
  BY LenProperties
<1>2. PICK f : Follows(f, scr, L) /\ Sourced(scr) = f[L]
  BY <1>1, RunExists
<1>3. \A i \in 0..L : f[i] = IF i = 0 THEN Shell ELSE Runs(f[i - 1], scr[i])
  BY <1>2 DEF Follows
<1> DEFINE T == {n \in 0..L : Done(f[n], scr, n)}
<1>4. 0 \in T
  <2>1. f[0] = Shell /\ 1..0 = {}
    BY <1>1, <1>3
  <2>2. Done(Shell, scr, 0)
    BY <2>1, ShellType DEF Done, Shell, AutoUpTo, AskedUpTo
  <2> QED
    BY <1>1, <2>1, <2>2
<1>5. ASSUME NEW n \in 0..L, n # L, n \in T PROVE n + 1 \in T
  <2>1. n + 1 \in 0..L /\ n + 1 # 0 /\ (n + 1) - 1 = n
    BY <1>1, <1>5
  <2>2. f[n + 1] = Runs(f[n], scr[n + 1])
    BY <1>3, <2>1
  <2> QED
    BY <1>5, <2>1, <2>2, DoneNext
<1> HIDE DEF T
<1>6. 0..L \subseteq T
  BY <1>1, <1>4, <1>5, Along
<1> QED
  BY <1>1, <1>2, <1>6 DEF T

(* The environment a script leaves behind that only assigns, exports and   *)
(* switches: every name assigned before set +a or exported by name, with   *)
(* its last value, less bash's own; and bash does not fail on it.  However *)
(* long the script is.                                                     *)
THEOREM ScriptLeavesWanted ==
  ASSUME NEW scr \in Seq(Statements), Simple(scr)
  PROVE  Sourced(scr).code = 0 /\ DiffEnv(Baseline, Records(Sourced(scr))) = Wanted(scr)
<1> DEFINE sh == Sourced(scr)
           L == Len(scr)
           kept == {k \in sh.exported : k \notin Own}
<1> HIDE DEF sh
<1>1. Done(sh, scr, L) /\ L \in Nat /\ DOMAIN scr = 1..L
  BY SourcedDone, LenProperties DEF sh
<1>2. Records(sh) = (Baseline \ {b \in Baseline : b[1] \in sh.exported}) \union Exported(sh)
  BY <1>1 DEF Records, Done
<1>3. DiffEnv(Baseline, Records(sh)) = {<<k, sh.vars[k]>> : k \in kept}
  <2>1. \A b \in Baseline : b[1] \in Own
    BY HomeIsOwn DEF Baseline, Home
  <2>2. \A k \in sh.exported : <<k, sh.vars[k]>>[1] = k
    OBVIOUS
  <2>3. Exported(sh) = {<<k, sh.vars[k]>> : k \in sh.exported}
    BY DEF Exported
  <2>4. \A b : b \in DiffEnv(Baseline, Records(sh)) <=> b \in Exported(sh) /\ b[1] \notin Own
    BY <1>2, <2>1 DEF DiffEnv
  <2>5. \A b : b \in DiffEnv(Baseline, Records(sh)) <=> \E k \in kept : b = <<k, sh.vars[k]>>
    BY <2>2, <2>3, <2>4
  <2> QED
    BY <2>5
<1>4. kept = {k \in Names \ Own : Asked(scr, k)}
  <2>1. \A k \in Names : AskedUpTo(scr, L, k) <=> Asked(scr, k)
    BY <1>1 DEF AskedUpTo, Asked, AutoUpTo
  <2>2. sh.exported \subseteq Names
    BY <1>1 DEF Done, Shells
  <2>3. \A k \in Names : k \in sh.exported <=> Asked(scr, k)
    BY <1>1, <2>1 DEF Done
  <2> QED
    BY <2>2, <2>3
<1>5. ASSUME NEW k \in kept PROVE sh.vars[k] = LastOf(scr, k)
  <2>1. k \in Names /\ \E i \in 1..L : Assigns(scr[i], k)
    BY <1>1, <1>4 DEF Asked
  <2>2. PICK i \in 1..L : LastAt(scr, L, k, i) /\ sh.vars[k] = scr[i][3]
    BY <1>1, <2>1 DEF Done
  <2>3. \A j \in 1..L : LastAt(scr, L, k, j) => j = i
    BY <1>1, <2>2 DEF LastAt
  <2>4. LastOf(scr, k) = scr[CHOOSE j \in 1..L : LastAt(scr, L, k, j)][3]
    BY <1>1 DEF LastOf, LastAt
  <2> QED
    BY <2>2, <2>3, <2>4
<1>6. Wanted(scr) = {<<k, LastOf(scr, k)>> : k \in kept}
  BY <1>4 DEF Wanted
<1> QED
  BY <1>1, <1>3, <1>5, <1>6 DEF Done, sh
-----------------------------------------------------------------------------
(* The environment on its way: what the script gave, once it has been      *)
(* sourced and nothing else has been at its path, and what is registered.  *)
ScriptIsOne == script \in Scripts

Given ==
  pc \in {"load_prev", "docker_run", "save"} /\ kinds = {"script"} /\ Simple(script) => env = Wanted(script)

SameEnv == pc = "run_again" => env = reg.env

EInv == CInv /\ ScriptIsOne /\ Given /\ SameEnv

LEMMA EInvariant == Spec => []EInv
<1>1. Init => ScriptIsOne /\ Given /\ SameEnv
  BY DEF Init, ScriptIsOne, Given, SameEnv
<1>2. EInv /\ CInv' /\ [Next]_vars => EInv'
  <2> SUFFICES ASSUME EInv, CInv', [Next]_vars PROVE ScriptIsOne' /\ Given' /\ SameEnv'
    BY DEF EInv
  <2> USE DEF EInv, ScriptIsOne, Given, SameEnv, At, Goto, Return, World, Kept
  <2>1. UNCHANGED script
    BY DEF Next, Begin, RunDeployService, Stat, Source, LoadPrev, DockerRun, Save, BeginStart, Load, RunAgain,
       FileChanges, HandEdit, Changed, vars
  <2>2. ASSUME NEW a \in CommandLines, Begin(a) PROVE Given' /\ SameEnv'
    BY <2>2 DEF Begin
  <2>3. CASE RunDeployService
    <3>1. pc' \in {"idle", "stat"} \/ (pc' = "load_prev" /\ file \in {"missing", "denied"} /\ UNCHANGED kinds)
      BY <2>3 DEF RunDeployService
    <3>2. pc = "cli" /\ file \in kinds
      BY <2>3 DEF RunDeployService, CInv, MInv, IInv, SeesFile, Before
    <3> QED
      BY <2>1, <3>1, <3>2
  <2>4. CASE Stat
    BY <2>1, <2>4 DEF Stat
  <2>5. CASE Source
    <3>1. pc = "source" /\ file \in kinds
      BY <2>5 DEF Source, CInv, MInv, IInv, SeesFile, Past
    <3>2. \/ pc' = "idle"
          \/ /\ pc' = "load_prev" /\ UNCHANGED kinds
             /\ env' = DiffEnv(Baseline, Records(IF file = "script" THEN Sourced(script) ELSE NotSourced))
      BY <2>5 DEF Source
    <3>3. script \in Seq(Statements)
      BY ScriptsAreStatements
    <3>4. Simple(script) => DiffEnv(Baseline, Records(Sourced(script))) = Wanted(script)
      BY <3>3, ScriptLeavesWanted
    <3> QED
      BY <2>1, <3>1, <3>2, <3>4
  <2>6. CASE LoadPrev
    BY <2>1, <2>6 DEF LoadPrev
  <2>7. CASE DockerRun
    <3>1. pc = "docker_run" /\ (pc' = "idle" \/ (pc' = "save" /\ UNCHANGED <<env, kinds>>))
      BY <2>7 DEF DockerRun
    <3> QED
      BY <2>1, <3>1
  <2>8. CASE Save \/ BeginStart \/ RunAgain
    BY <2>8 DEF Save, BeginStart, RunAgain
  <2>9. CASE Load
    BY <2>9 DEF Load
  <2>10. ASSUME NEW k \in Kinds, FileChanges(k) PROVE Given' /\ SameEnv'
    <3>1. /\ UNCHANGED <<pc, env, reg>>
          /\ pc # "idle" => kinds' = kinds \union {k} /\ (pc \in Past => kinds # {})
      BY <2>10 DEF FileChanges, Changed, CInv, MInv, IInv, SeesFile
    <3>2. pc \in {"load_prev", "docker_run", "save"} /\ kinds' = {"script"} => kinds = {"script"}
      BY <3>1 DEF Past
    <3> QED
      BY <2>1, <3>1, <3>2
  <2>11. ASSUME NEW ms \in Edits, NEW st, HandEdit(ms, st) PROVE Given' /\ SameEnv'
    <3>1. UNCHANGED <<pc, env, kinds>> /\ reg # Nothing /\ reg' = [reg EXCEPT !.mounts = ms, !.strategy = st]
      BY <2>11 DEF HandEdit, Changed
    <3>2. reg'.env = reg.env
      BY <3>1 DEF CInv, MInv, IsReg
    <3> QED
      BY <2>1, <3>1, <3>2
  <2>12. CASE UNCHANGED vars
    BY <2>12 DEF vars
  <2> QED
    BY <2>1, <2>2, <2>3, <2>4, <2>5, <2>6, <2>7, <2>8, <2>9, <2>10, <2>11, <2>12 DEF Next
<1>3. Init /\ CInv => EInv
  BY <1>1 DEF EInv
<1> QED
  BY <1>2, <1>3, CInvariant, PTL DEF Spec

(* A container runs with the registered environment, after a deploy and    *)
(* after a start; and where a script that only assigns, exports and        *)
(* switches was there all the time, a deploy that exits with 0 registers   *)
(* exactly what it has asked for, however long it is.                      *)
THEOREM EnvExact == Spec => EnvIsExact
<1>1. ASSUME EInv, [Next]_vars, Ends(ExitOK)
      PROVE  /\ run'.env = reg'.env
             /\ Deploying /\ kinds = {"script"} /\ Simple(script) => reg'.env = Wanted(script)
  <2>1. pc # "idle" /\ pc' = "idle" /\ exit' = 0
    BY <1>1 DEF Ends, At, ExitOK
  <2>2. \A err \in OfFiles \union {{"Usage"}, {"EnvCapture"}, {"Run"}} : ExitCodeFor(err) # 0
    BY FileCode, UsageCode, CaptureCode, RunCode DEF ExitUsageError, ExitConfigError, ExitEnvCaptureFail, ExitRunFail
  <2>3. Save \/ (RunAgain /\ RunWith(mounts, env))
    <3>1. \A err : Return(err) => exit' = ExitCodeFor(err)
      BY DEF Return
    <3> QED
      BY <1>1, <2>1, <2>2, <3>1, Ending
  <2>4. CASE Save
    <3>1. pc = "save" /\ UNCHANGED run /\ reg'.env = env
      BY <2>4 DEF Save, At
    <3>2. run.env = env
      BY <1>1, <3>1 DEF EInv, CInv, MInv, IInv, HasMounts
    <3> QED
      BY <1>1, <3>1, <3>2 DEF EInv, Given
  <2>5. CASE RunAgain /\ RunWith(mounts, env)
    <3>1. pc = "run_again" /\ UNCHANGED reg /\ run'.env = env
      BY <2>5 DEF RunAgain, RunWith, At
    <3> QED
      BY <1>1, <3>1 DEF EInv, SameEnv, Deploying
  <2> QED
    BY <2>3, <2>4, <2>5
<1> QED
  BY <1>1, EInvariant, PTL DEF Spec, EnvIsExact
-----------------------------------------------------------------------------
(* What a deploy asked for a script by name has, once it has sourced it.   *)
WholeOrNothing(e) ==
  \/ "script" \in kinds /\ Sourced(script).code = 0 /\ e = DiffEnv(Baseline, Records(Sourced(script)))
  \/ kinds # {"script"} /\ kinds \intersect {"script", "locked"} # {} /\ e = {}

Took == pc \in {"load_prev", "docker_run", "save"} /\ args.env = "explicit" => WholeOrNothing(env)

SInv == EInv /\ Took

LEMMA NothingSourced == DiffEnv(Baseline, Records(NotSourced)) = {}
<1>1. NotSourced.st = "sourcing" /\ ~NotSourced.printed /\ NotSourced.exported = {}
  BY DEF NotSourced, Stumbles, Shell
<1>2. Exported(NotSourced) = {}
  BY <1>1 DEF Exported
<1>3. Records(NotSourced) = Baseline
  BY <1>1, <1>2 DEF Records
<1> QED
  BY <1>3 DEF DiffEnv

LEMMA SInvariant == Spec => []SInv
<1>1. Init => Took
  BY DEF Init, Took
<1>2. SInv /\ EInv' /\ [Next]_vars => SInv'
  <2> SUFFICES ASSUME SInv, [Next]_vars PROVE Took'
    BY DEF SInv
  <2>0. EInv /\ Took /\ IInv
    BY DEF SInv, EInv, CInv, MInv
  <2> USE <2>0 DEF Took, At, Goto, Return, World, Kept
  <2>1. UNCHANGED script
    BY DEF Next, Begin, RunDeployService, Stat, Source, LoadPrev, DockerRun, Save, BeginStart, Load, RunAgain,
       FileChanges, HandEdit, Changed, vars
  <2>2. CASE pc' \notin {"load_prev", "docker_run", "save"}
    BY <2>2
  <2>3. CASE UNCHANGED <<pc, args, env, kinds>>
    BY <2>1, <2>3 DEF WholeOrNothing
  <2>4. CASE RunDeployService /\ pc' = "load_prev"
    <3>1. args.env = "auto" /\ UNCHANGED args
      BY <2>4 DEF RunDeployService
    <3> QED
      BY <3>1
  <2>5. CASE Source /\ pc' = "load_prev"
    <3> DEFINE sh == IF file = "script" THEN Sourced(script) ELSE NotSourced
    <3>1. sh.code = 0 /\ env' = DiffEnv(Baseline, Records(sh)) /\ UNCHANGED <<args, kinds>>
      BY <2>5 DEF Source
    <3>2. file \in kinds /\ (args.env = "explicit" => kinds \intersect {"script", "locked"} # {})
      BY <2>5 DEF Source, IInv, SeesFile, Past
    <3>3. CASE file = "script"
      BY <2>1, <3>1, <3>2, <3>3 DEF WholeOrNothing
    <3>4. CASE file # "script"
      BY <3>1, <3>2, <3>4, NothingSourced DEF WholeOrNothing
    <3> QED
      BY <3>3, <3>4
  <2>6. CASE LoadPrev /\ pc' = "docker_run"
    <3>1. pc = "load_prev" /\ UNCHANGED <<args, env, kinds>>
      BY <2>6 DEF LoadPrev
    <3> QED
      BY <2>1, <3>1 DEF WholeOrNothing
  <2>7. CASE DockerRun /\ pc' = "save"
    <3>1. pc = "docker_run" /\ UNCHANGED <<args, env, kinds>>
      BY <2>7 DEF DockerRun
    <3> QED
      BY <2>1, <3>1 DEF WholeOrNothing
  <2>8. ASSUME NEW k \in Kinds, FileChanges(k) PROVE Took'
    <3>1. UNCHANGED <<pc, args, env>> /\ (pc # "idle" => kinds' = kinds \union {k})
      BY <2>8 DEF FileChanges, Changed
    <3>2. pc \in {"load_prev", "docker_run", "save"} => kinds # {}
      BY DEF IInv, SeesFile, Past
    <3>3. kinds # {} /\ kinds # {"script"} => kinds \union {k} # {"script"}
      OBVIOUS
    <3> QED
      BY <2>1, <3>1, <3>2, <3>3 DEF WholeOrNothing
  <2>9. ASSUME NEW ms \in Edits, NEW st, HandEdit(ms, st) PROVE Took'
    BY <2>3, <2>9 DEF HandEdit, Changed
  <2>10. ASSUME NEW a \in CommandLines, Begin(a) PROVE Took'
    BY <2>10 DEF Begin
  <2>11. CASE UNCHANGED vars
    BY <2>3, <2>11 DEF vars
  <2>12. CASE Stat \/ Save \/ BeginStart \/ Load \/ RunAgain
    BY <2>12 DEF Stat, Save, BeginStart, Load, RunAgain
  <2>13. /\ RunDeployService => pc' \in {"idle", "load_prev", "stat"}
         /\ Source => pc' \in {"idle", "load_prev"}
         /\ LoadPrev => pc' \in {"idle", "docker_run"}
         /\ DockerRun => pc' \in {"idle", "save"}
    BY DEF RunDeployService, Source, LoadPrev, DockerRun
  <2> QED
    BY <2>2, <2>4, <2>5, <2>6, <2>7, <2>8, <2>9, <2>10, <2>11, <2>12, <2>13 DEF Next
<1>3. Init /\ EInv => SInv
  BY <1>1 DEF SInv
<1> QED
  BY <1>2, <1>3, EInvariant, PTL DEF Spec

(* A deploy asked for a script by name ends in 10 (or, for another reason, *)
(* in 2) if there was none all the time, and exit code 0 registers the     *)
(* whole of what the script has given, or nothing of a script that bash    *)
(* may not open or that was not there all the time.                        *)
THEOREM ScriptOrNothing == Spec => ExplicitScriptOrNothing
<1>1. ASSUME SInv, [Next]_vars, Deploying, pc' = "idle", args.env = "explicit"
      PROVE  /\ kinds \subseteq {"missing", "denied", "directory"} => exit' \in {ExitConfigError, ExitUsageError}
             /\ exit' = ExitOK => WholeOrNothing(reg'.env)
  <2> USE DEF Deploying, At, Goto, Return
  <2>0. IInv
    BY <1>1 DEF SInv, EInv, CInv, MInv
  <2>1. RunDeployService \/ Stat \/ Source \/ LoadPrev \/ DockerRun \/ Save
    BY <1>1 DEF Next, Begin, BeginStart, Load, RunAgain, FileChanges, HandEdit, Changed, vars
  <2>2. CASE RunDeployService
    <3>1. PICK err \in {{"Usage"}, {"InvalidStrategy"}, {"EnvScriptMissing"}, {"EnvScriptUnreadable"}} : Return(err)
      BY <1>1, <2>2 DEF RunDeployService, ResolveError
    <3>2. err = {"Usage"} \/ \E e \in err : e \in ConfigErrors /\ "Interrupted" \notin err /\ "Usage" \notin err
      BY <3>1 DEF ConfigErrors
    <3>3. exit' \in {ExitConfigError, ExitUsageError}
      BY <3>1, <3>2, UsageCode, ConfigCode
    <3> QED
      BY <3>3 DEF ExitOK, ExitConfigError, ExitUsageError
  <2>3. CASE Stat
    <3>1. PICK e \in {"EnvScriptMissing", "EnvScriptUnreadable"} : Return({"EnvCapture", e})
      BY <1>1, <2>3 DEF Stat
    <3>2. e \in ConfigErrors
      BY <3>1 DEF ConfigErrors
    <3>3. exit' = ExitConfigError
      BY <3>1, <3>2, ConfigCode
    <3> QED
      BY <3>3 DEF ExitOK, ExitConfigError
  <2>4. CASE Source \/ LoadPrev \/ DockerRun \/ Save
    <3>1. pc \in Past
      BY <2>4 DEF Source, LoadPrev, DockerRun, Save, Past
    <3>2. ~(kinds \subseteq {"missing", "denied", "directory"})
      BY <1>1, <2>0, <3>1 DEF IInv, SeesFile
    <3>3. ASSUME exit' = ExitOK PROVE Save
      <4>1. \A err \in OfFiles \union {{"EnvCapture"}, {"Run"}} : ExitCodeFor(err) # ExitOK
        BY FileCode, CaptureCode, RunCode DEF ExitOK, ExitConfigError, ExitEnvCaptureFail, ExitRunFail
      <4>2. CASE Source
        BY <1>1, <3>3, <4>1, <4>2 DEF Source
      <4>3. CASE LoadPrev
        BY <1>1, <3>3, <4>1, <4>3, LoadErrors DEF LoadPrev
      <4>4. CASE DockerRun
        BY <1>1, <3>3, <4>1, <4>4 DEF DockerRun
      <4> QED
        BY <2>4, <4>2, <4>3, <4>4
    <3>4. Save => reg'.env = env /\ pc = "save"
      BY DEF Save
    <3> QED
      BY <1>1, <3>2, <3>3, <3>4 DEF SInv, Took
  <2> QED
    BY <2>1, <2>2, <2>3, <2>4
<1> QED
  BY <1>1, SInvariant, PTL DEF Spec, ExplicitScriptOrNothing, WholeOrNothing
-----------------------------------------------------------------------------
(* The types, which rest on what has been checked: a deploy past its       *)
(* command line has the mounts of one, and what it registers is typed.     *)
LEMMA ReturnType ==
  ASSUME NEW err \in OfFiles \union {{"Usage"}, {"EnvCapture"}, {"Run"}, NoError}, Return(err)
  PROVE  /\ pc' = "idle" /\ args' = NoArgs /\ mounts' = <<>> /\ env' = {}
         /\ kinds' = {}
         /\ exit' \in {ExitOK, ExitUsageError, ExitConfigError, ExitEnvCaptureFail, ExitRunFail}
BY FileCode, UsageCode, CaptureCode, RunCode, NoErrorCode DEF Return

LEMMA WrittenListed ==
  ASSUME NEW a \in CommandLines, ParsesMountFlags(a.mounts)
  PROVE  [i \in DOMAIN a.mounts |-> Written(a.mounts[i])] \in MountLists
<1>1. a.mounts \in RawLists
  BY DEF RawLists
<1>2. \A i \in DOMAIN a.mounts : Len(a.mounts[i]) > 1
  BY DEF ParsesMountFlags, ParsesMountString
<1> QED
  BY <1>1, <1>2 DEF MountLists

LEMMA CapturedEnv ==
  ASSUME ScriptIsOne
  PROVE  DiffEnv(Baseline, Records(IF file = "script" THEN Sourced(script) ELSE NotSourced)) \in Env
<1>1. Sourced(script) \in Shells
  <2>1. script \in Seq(Statements)
    BY ScriptsAreStatements DEF ScriptIsOne
  <2> QED
    BY <2>1, SourcedType
<1>2. NotSourced \in Shells
  BY ShellType, StumblesType DEF NotSourced
<1> QED
  BY <1>1, <1>2, RecordsType

LEMMA TypeNext == TypeOK /\ EInv /\ [Next]_vars => TypeOK'
<1> SUFFICES ASSUME TypeOK, EInv, [Next]_vars PROVE TypeOK'
  OBVIOUS
<1> DEFINE Codes == {ExitOK, ExitUsageError, ExitConfigError, ExitEnvCaptureFail, ExitRunFail, Pending}
           Strategies == {c.strategy : c \in CommandLines} \union {""}
           RegOK(r) == r # Nothing => /\ r.mounts \in MountLists /\ r.env \in Env
                                      /\ r.strategy \in Strategies
           RunOK(r) == r # Nothing => r.env \in Env
           Local(p, a, ms, e, x) ==
             /\ p \in {"idle", "cli", "stat", "source", "load_prev", "docker_run", "save", "load", "run_again"}
             /\ a \in CommandLines \union {NoArgs} /\ ms \in MountLists \union {<<>>} /\ e \in Env /\ x \in Codes
           Rest == /\ script \in Scripts /\ file \in Kinds /\ changes \in 0..MaxChanges
                   /\ edited \in BOOLEAN
<1>1. /\ TypeOK <=> /\ Local(pc, args, mounts, env, exit) /\ RegOK(reg) /\ RunOK(run) /\ Rest
                    /\ kinds \subseteq Kinds /\ (reg # Nothing => edited \/ reg.strategy = "recreate")
      /\ TypeOK' <=> /\ Local(pc', args', mounts', env', exit') /\ RegOK(reg') /\ RunOK(run') /\ Rest'
                     /\ kinds' \subseteq Kinds /\ (reg' # Nothing => edited' \/ reg'.strategy = "recreate")
  BY DEF TypeOK
<1> HIDE DEF Local, RegOK, RunOK, Rest
<1>2. \A err \in OfFiles \union {{"Usage"}, {"EnvCapture"}, {"Run"}, NoError} :
        Return(err) => Local(pc', args', mounts', env', exit') /\ kinds' \subseteq Kinds
  BY ReturnType DEF Local, Env
<1>3. {} \in Env /\ <<>> \in MountLists \union {<<>>}
  BY DEF Env
<1>4. Local(pc, args, mounts, env, exit) /\ RegOK(reg) /\ RunOK(run) /\ Rest /\ kinds \subseteq Kinds
  BY <1>1
<1>5. UNCHANGED <<reg, edited>> => (reg' # Nothing => edited' \/ reg'.strategy = "recreate")
  BY <1>1
<1>6. Local(pc, args, mounts, env, Pending)
  BY <1>4 DEF Local
<1>7. ASSUME NEW a \in CommandLines, Begin(a) PROVE TypeOK'
  <2>1. /\ UNCHANGED <<reg, run, mounts, env, script, file, changes, edited>>
        /\ pc' = "cli" /\ args' = a /\ exit' = Pending /\ kinds' = {file}
    BY <1>7 DEF Begin, Kept, World
  <2>2. Local(pc', args', mounts', env', exit')
    BY <1>4, <2>1 DEF Local
  <2>3. Rest' /\ kinds' \subseteq Kinds
    BY <1>4, <2>1 DEF Rest
  <2> QED
    BY <1>1, <1>4, <1>5, <2>1, <2>2, <2>3
<1>8. CASE RunDeployService
  <2>1. UNCHANGED <<reg, run, script, file, changes, edited>> /\ pc = "cli"
    BY <1>8 DEF RunDeployService, Kept, World, At
  <2>2. Local(pc', args', mounts', env', exit') /\ kinds' \subseteq Kinds
    <3>1. CASE pc' = "idle"
      BY <1>2, <2>1, <3>1, Ending
    <3>2. CASE pc' # "idle"
      <4>1. /\ pc' \in {"load_prev", "stat"} /\ UNCHANGED <<args, env, kinds>> /\ exit' = Pending
            /\ mounts' = [i \in DOMAIN args.mounts |-> Written(args.mounts[i])]
            /\ ParsesMountFlags(args.mounts)
        BY <1>8, <3>2 DEF RunDeployService, NoError, Goto, Return
      <4>2. args \in CommandLines
        BY <2>1 DEF EInv, CInv, Checked, Deploying
      <4>3. mounts' \in MountLists
        BY <4>1, <4>2, WrittenListed
      <4> QED
        BY <1>4, <4>1, <4>2, <4>3 DEF Local
    <3> QED
      BY <3>1, <3>2
  <2> QED
    BY <1>1, <1>4, <1>5, <2>1, <2>2 DEF Rest
<1>9. CASE Stat \/ LoadPrev
  <2>1. UNCHANGED <<reg, run, script, file, changes, edited>> /\ pc \in {"stat", "load_prev"}
    BY <1>9 DEF Stat, LoadPrev, Kept, World, At
  <2>2. Local(pc', args', mounts', env', exit') /\ kinds' \subseteq Kinds
    <3>1. CASE pc' = "idle"
      BY <1>2, <2>1, <3>1, Ending
    <3>2. CASE pc' # "idle"
      <4>1. pc' \in {"source", "docker_run"} /\ UNCHANGED <<args, mounts, env, kinds>> /\ exit' = Pending
        BY <1>9, <3>2 DEF Stat, LoadPrev, Goto, Return
      <4> QED
        BY <1>4, <4>1 DEF Local
    <3> QED
      BY <3>1, <3>2
  <2> QED
    BY <1>1, <1>4, <1>5, <2>1, <2>2 DEF Rest
<1>10. CASE Source
  <2>1. UNCHANGED <<reg, run, script, file, changes, edited>> /\ pc = "source"
    BY <1>10 DEF Source, Kept, World, At
  <2>2. Local(pc', args', mounts', env', exit') /\ kinds' \subseteq Kinds
    <3>1. CASE pc' = "idle"
      BY <1>2, <2>1, <3>1, Ending
    <3>2. CASE pc' # "idle"
      <4>1. /\ pc' = "load_prev" /\ UNCHANGED <<args, mounts, kinds>> /\ exit' = Pending
            /\ env' = DiffEnv(Baseline, Records(IF file = "script" THEN Sourced(script) ELSE NotSourced))
        BY <1>10, <3>2 DEF Source, Goto, Return
      <4>2. env' \in Env
        BY <4>1, CapturedEnv DEF EInv
      <4> QED
        BY <1>4, <4>1, <4>2 DEF Local
    <3> QED
      BY <3>1, <3>2
  <2> QED
    BY <1>1, <1>4, <1>5, <2>1, <2>2 DEF Rest
<1>11. CASE DockerRun \/ RunAgain
  <2>1. /\ UNCHANGED <<reg, script, file, changes, edited>> /\ pc \in {"docker_run", "run_again"}
        /\ UNCHANGED run \/ run' = [mounts |-> Mounted(mounts), env |-> env]
    BY <1>11 DEF DockerRun, RunAgain, RunWith, World, At
  <2>2. Local(pc', args', mounts', env', exit') /\ kinds' \subseteq Kinds
    <3>1. CASE pc' = "idle"
      BY <1>2, <2>1, <3>1, Ending
    <3>2. CASE pc' # "idle"
      <4>1. pc' = "save" /\ UNCHANGED <<args, mounts, env, kinds>> /\ exit' = Pending
        BY <1>11, <3>2 DEF DockerRun, RunAgain, Goto, Return
      <4> QED
        BY <1>4, <4>1 DEF Local
    <3> QED
      BY <3>1, <3>2
  <2>3. RunOK(run')
    BY <1>4, <2>1 DEF RunOK, Local
  <2> QED
    BY <1>1, <1>4, <1>5, <2>1, <2>2, <2>3 DEF Rest
<1>12. CASE Save
  <2>1. /\ UNCHANGED <<run, script, file, changes>> /\ edited' = FALSE /\ pc = "save" /\ Return(NoError)
        /\ reg' = [mounts |-> mounts, strategy |-> args.strategy, env |-> env]
    BY <1>12 DEF Save, At
  <2>2. args \in CommandLines /\ ParsesMountFlags(args.mounts) /\ args.strategy = "recreate" /\ Asks(mounts)
    BY <2>1 DEF EInv, CInv, Checked, Deploying, Past, MInv, IInv, HasMounts
  <2>3. mounts \in MountLists
    BY <2>2, WrittenListed DEF Asks
  <2>4. RegOK(reg') /\ reg'.strategy = "recreate"
    BY <1>4, <2>1, <2>2, <2>3 DEF RegOK, Local
  <2> QED
    BY <1>1, <1>2, <1>4, <2>1, <2>4 DEF Rest
<1>13. CASE BeginStart \/ Load
  <2>1. UNCHANGED <<reg, run, script, file, changes, edited>> /\ pc \in {"idle", "load"}
    BY <1>13 DEF BeginStart, Load, Kept, World, At
  <2>2. Local(pc', args', mounts', env', exit') /\ kinds' \subseteq Kinds
    <3>1. CASE pc' = "idle"
      <4>1. pc # "idle"
        BY <1>13, <3>1 DEF BeginStart, Load, Goto, At
      <4> QED
        BY <1>2, <2>1, <3>1, <4>1, Ending
    <3>2. CASE pc' # "idle"
      <4>1. /\ pc' \in {"load", "run_again"} /\ UNCHANGED <<args, kinds>> /\ exit' = Pending
            /\ \/ UNCHANGED <<mounts, env>>
               \/ LoadError(reg) = NoError /\ mounts' = reg.mounts /\ env' = reg.env
        BY <1>13, <3>2 DEF BeginStart, Load, Goto, Return
      <4>2. LoadError(reg) = NoError => reg.mounts \in MountLists /\ reg.env \in Env
        BY <1>4 DEF RegOK, LoadError, NoError
      <4> QED
        BY <1>4, <4>1, <4>2 DEF Local
    <3> QED
      BY <3>1, <3>2
  <2> QED
    BY <1>1, <1>4, <1>5, <2>1, <2>2 DEF Rest
<1>14. ASSUME NEW k \in Kinds, FileChanges(k) PROVE TypeOK'
  <2>1. /\ UNCHANGED <<pc, args, mounts, env, reg, run, script, edited>> /\ exit' = Pending
        /\ file' = k /\ changes < MaxChanges /\ changes' = changes + 1 /\ kinds' \in {{}, kinds \union {k}}
    BY <1>14 DEF FileChanges, Changed
  <2>2. Rest'
    BY <1>4, <2>1, IntakeBounds DEF Rest
  <2>3. Local(pc', args', mounts', env', exit') /\ kinds' \subseteq Kinds
    BY <1>4, <1>6, <2>1
  <2> QED
    BY <1>1, <1>4, <1>5, <2>1, <2>2, <2>3
<1>15. ASSUME NEW ms \in Edits, NEW st \in {c.strategy : c \in CommandLines}, HandEdit(ms, st) PROVE TypeOK'
  <2>1. /\ UNCHANGED <<pc, args, mounts, env, run, script, file, kinds>> /\ exit' = Pending /\ edited' = TRUE
        /\ changes < MaxChanges /\ changes' = changes + 1
        /\ reg # Nothing /\ reg' = [reg EXCEPT !.mounts = ms, !.strategy = st]
    BY <1>15 DEF HandEdit, Changed
  <2>2. reg' = [mounts |-> ms, strategy |-> st, env |-> reg.env] /\ reg.env \in Env
    BY <1>4, <2>1 DEF EInv, CInv, MInv, IsReg, RegOK
  <2>3. ms \in MountLists
    BY DEF MountLists
  <2>4. RegOK(reg')
    BY <2>2, <2>3 DEF RegOK
  <2>5. Rest'
    BY <1>4, <2>1, IntakeBounds DEF Rest
  <2>6. Local(pc', args', mounts', env', exit')
    BY <1>6, <2>1
  <2> QED
    BY <1>1, <1>4, <2>1, <2>4, <2>5, <2>6
<1>16. CASE UNCHANGED vars
  BY <1>16 DEF vars, TypeOK
<1> QED
  BY <1>7, <1>8, <1>9, <1>10, <1>11, <1>12, <1>13, <1>14, <1>15, <1>16 DEF Next

(* Type correctness: what a deploy captures, runs and registers is typed,  *)
(* whatever the scripts, the command lines and the hand edits are; and an  *)
(* unedited registration is one of strategy recreate.                      *)
THEOREM TypeCorrect == Spec => []TypeOK
<1>1. Init => TypeOK
  <2>1. {} \in Env /\ 0 \in 0..MaxChanges
    BY IntakeBounds DEF Env
  <2>2. NoArgs \in CommandLines \union {NoArgs} /\ <<>> \in MountLists \union {<<>>}
    OBVIOUS
  <2> QED
    BY <2>1, <2>2 DEF Init, TypeOK
<1> QED
  BY <1>1, TypeNext, EInvariant, PTL DEF Spec
=============================================================================
