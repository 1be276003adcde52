---------------------------- MODULE RegistryProofs ----------------------------
(***************************************************************************)
(* Proofs about Registry, for any sets of services, versions and processes *)
(* and any number of failures and crashes.                                  *)
(***************************************************************************)
EXTENDS Registry, TLAPS

(* The writes that have changed a file of their service. *)
Changing(s) == \E c \in Clients :
                 Writer(c, s) /\ pc[c] \notin {"save_config", "del_secrets"}

Exact(s) == /\ config[s] = saved[s] /\ secrets[s] = saved[s]
            /\ secDir[s] <=> saved[s] # NoFile

(* A process that carries a version carries one that can be written. *)
CarriesVersion == \A c \in Clients :
  pc[c] \in SaveSteps \union {"load_stat", "load_read", "list_stat", "list_read"} => ver[c] \in Versions

TypeInv == TypeOK /\ CarriesVersion

(* How far each writer has got, and what the disk then looks like. *)
OneWriter == \A c, d \in Clients :
  pc[c] \in WriteSteps /\ pc[d] \in WriteSteps /\ svc[c] = svc[d] => c = d

SaveAt(c) ==
  /\ pc[c] \in SaveSteps \ {"save_config"} => config[svc[c]] = ver[c]
  /\ pc[c] \in {"save_tmp", "save_rename"} => secDir[svc[c]]

DeleteAt(c) ==
  /\ pc[c] \in DeleteSteps => config[svc[c]] # NoFile
  /\ pc[c] \in {"del_dir", "del_config"} => secrets[svc[c]] = NoFile
  /\ pc[c] = "del_config" => ~secDir[svc[c]]

(* NoOrphanSecrets and SettledIsExact at one service; while a write is     *)
(* changing files nothing is claimed about how the last one ended.         *)
NoOrphanAt(s) == (secrets[s] # NoFile \/ secDir[s]) /\ config[s] = NoFile => left[s] = "rolled_back"

SettledAt(s) == left[s] = "settled" /\ ~Changing(s) => Exact(s)

IInv == /\ TypeInv
        /\ OneWriter
        /\ \A c \in Clients : SaveAt(c) /\ DeleteAt(c)
        /\ \A s \in Services : NoOrphanAt(s) /\ SettledAt(s)
-----------------------------------------------------------------------------
LEMMA TypeInit == Init => TypeInv
<1> SUFFICES ASSUME Init PROVE TypeInv
  OBVIOUS
<1> USE RegistryBounds, FileMarks DEF RegistryBounds, FileMarks, Init
<1>1. CarriesVersion
  BY DEF CarriesVersion, SaveSteps
<1>2. FilesTypeOK
  BY DEF FilesTypeOK
<1>3. left \in [Services -> {"settled", "save_cut", "rolled_back", "delete_cut", "tampered"}]
  OBVIOUS
<1>4. svc \in [Clients -> Services] /\ pc \in [Clients -> {"idle"}]
  OBVIOUS
<1>5. out \in [Clients -> SUBSET (Services \X Versions \X Versions)]
  OBVIOUS
<1>6. /\ ver \in [Clients -> Versions \union {NoFile, Broken}]
      /\ todo \in [Clients -> SUBSET Services]
      /\ steady \in [Clients -> SUBSET Services]
      /\ unread \in [Clients -> SUBSET Services]
  OBVIOUS
<1>7. faults \in 0..MaxFaults /\ crashes \in 0..MaxCrashes
  OBVIOUS
<1>8. saved \in [Services -> Versions \union {NoFile}]
  OBVIOUS
<1> QED
  BY <1>1, <1>2, <1>3, <1>4, <1>5, <1>6, <1>7, <1>8 DEF TypeInv, TypeOK

(* Every step keeps the variables in their types; a Load only ever returns *)
(* contents that can be read.                                              *)
LEMMA TypeNext == TypeInv /\ [Next]_vars => TypeInv'
<1> SUFFICES ASSUME TypeInv, [Next]_vars PROVE TypeInv'
  OBVIOUS
<1> USE RegistryBounds, FileMarks DEF RegistryBounds, FileMarks
<1> USE DEF TypeInv, CarriesVersion, TypeOK, FilesTypeOK, fileVars, callVars, histVars, readHist, Goto, WriteSteps, ReadSteps,
            SaveSteps, DeleteSteps, LoadSteps, ListSteps
<1>1. ASSUME NEW c \in Clients, NEW s \in Services, NEW v \in Versions, BeginSave(c, s, v)
      PROVE  TypeInv'
  BY <1>1 DEF BeginSave
<1>2. ASSUME NEW c \in Clients, NEW s \in Services, BeginDelete(c, s) PROVE TypeInv'
  BY <1>2 DEF BeginDelete
<1>3. ASSUME NEW c \in Clients, NEW s \in Services, BeginLoad(c, s) PROVE TypeInv'
  BY <1>3 DEF BeginLoad, Quiet
<1>4. ASSUME NEW c \in Clients, BeginList(c) PROVE TypeInv'
  BY <1>4 DEF BeginList, Quiet
<1>5. ASSUME NEW c \in Clients, SaveConfig(c) PROVE TypeInv'
  BY <1>5 DEF SaveConfig, WriteConfig
<1>6. ASSUME NEW c \in Clients, SaveDir(c) PROVE TypeInv'
  BY <1>6 DEF SaveDir, MakeSecretsDir
<1>7. ASSUME NEW c \in Clients, SaveTemp(c) PROVE TypeInv'
  BY <1>7 DEF SaveTemp
<1>8. ASSUME NEW c \in Clients, SaveRename(c) PROVE TypeInv'
  BY <1>8 DEF SaveRename, WriteSecrets, Ends, Exit
<1>9. ASSUME NEW c \in Clients, SaveFails(c) PROVE TypeInv'
  <2>1. faults' \in 0..MaxFaults /\ UNCHANGED <<fileVars, crashes, histVars, svc>>
    BY <1>9 DEF SaveFails, Fault, Exit
  <2>2. CASE pc[c] = "save_config"
    BY <1>9, <2>1, <2>2 DEF SaveFails, Exit
  <2>3. CASE pc[c] # "save_config"
    BY <1>9, <2>1, <2>3 DEF SaveFails
  <2> QED
    BY <2>2, <2>3
<1>10. ASSUME NEW c \in Clients, DeleteOrphanConfig(c) PROVE TypeInv'
  BY <1>10 DEF DeleteOrphanConfig, RemoveConfig, Ends, Exit
<1>11. ASSUME NEW c \in Clients, DeleteOrphanConfigFails(c) PROVE TypeInv'
  BY <1>11 DEF DeleteOrphanConfigFails, Fault, Ends, Exit
<1>12. ASSUME NEW c \in Clients, DeleteSecrets(c) PROVE TypeInv'
  BY <1>12 DEF DeleteSecrets, RemoveSecrets
<1>13. ASSUME NEW c \in Clients, DeleteDir(c) PROVE TypeInv'
  BY <1>13 DEF DeleteDir, RemoveSecretsDir
<1>14. ASSUME NEW c \in Clients, DeleteConfig(c) PROVE TypeInv'
  BY <1>14 DEF DeleteConfig, RemoveConfig, Ends, Exit
<1>15. ASSUME NEW c \in Clients, DeleteFails(c) PROVE TypeInv'
  BY <1>15 DEF DeleteFails, Fault, Ends, Exit
<1>16. ASSUME NEW c \in Clients, DeleteRefused(c) PROVE TypeInv'
  BY <1>16 DEF DeleteRefused, Ends, Exit
<1>17. ASSUME NEW c \in Clients, ListNames(c) PROVE TypeInv'
  BY <1>17 DEF ListNames, ListedNames
<1>18. ASSUME NEW c \in Clients, ListNext(c) PROVE TypeInv'
  BY <1>18 DEF ListNext
<1>19. ASSUME NEW c \in Clients, LoadConfig(c) PROVE TypeInv'
  BY <1>19 DEF LoadConfig, ConfigVerdict, LoadDone, AfterRefusal, AfterLoad
<1>20. ASSUME NEW c \in Clients, LoadStat(c) PROVE TypeInv'
  BY <1>20 DEF LoadStat, LoadDone, AfterRefusal, AfterLoad
<1>21. ASSUME NEW c \in Clients, LoadRead(c) PROVE TypeInv'
  <2>1. UNCHANGED <<fileVars, svc, faults, crashes, histVars, readHist>>
    BY <1>21 DEF LoadRead
  <2>2. CASE SecretsVerdict(svc[c]) = "ok"
    <3>1. secrets[svc[c]] \in Versions
      BY <2>2 DEF SecretsVerdict
    <3>2. ver[c] \in Versions
      BY <1>21 DEF LoadRead
    <3>3. {<<svc[c], ver[c], secrets[svc[c]]>>} \in SUBSET (Services \X Versions \X Versions)
      BY <3>1, <3>2
    <3>4. LoadDone(c, AfterLoad(c), {<<svc[c], ver[c], secrets[svc[c]]>>})
      BY <1>21, <2>2 DEF LoadRead
    <3>5. out' \in [Clients -> SUBSET (Services \X Versions \X Versions)]
      BY <3>3, <3>4 DEF LoadDone
    <3> QED
      BY <1>21, <2>1, <3>4, <3>5 DEF LoadRead, LoadDone, AfterLoad
  <2>3. CASE SecretsVerdict(svc[c]) # "ok"
    <3>1. LoadDone(c, AfterRefusal(c), {})
      BY <1>21, <2>3 DEF LoadRead
    <3>2. out' \in [Clients -> SUBSET (Services \X Versions \X Versions)]
      BY <3>1 DEF LoadDone
    <3> QED
      BY <1>21, <2>1, <3>1, <3>2 DEF LoadRead, LoadDone, AfterRefusal, AfterLoad
  <2> QED
    BY <2>2, <2>3
<1>22. ASSUME NEW c \in Clients, Return(c) PROVE TypeInv'
  BY <1>22 DEF Return, Exit, ReadOver
<1>23. ASSUME NEW c \in Clients, Crash(c) PROVE TypeInv'
  <2>1. HowCut(c) \in {"settled", "save_cut", "rolled_back", "delete_cut", "tampered"}
    BY DEF HowCut
  <2>2. FilesTypeOK'
    BY <1>23 DEF Crash, AbandonTemp
  <2>3. left' \in [Services -> {"settled", "save_cut", "rolled_back", "delete_cut", "tampered"}]
    BY <1>23, <2>1 DEF Crash
  <2>4. CarriesVersion'
    BY <1>23 DEF Crash, Exit, ReadOver
  <2> QED
    BY <1>23, <2>2, <2>3, <2>4 DEF Crash, Exit, ReadOver
<1>24. ASSUME NEW c \in Clients, ReadFails(c) PROVE TypeInv'
  <2>1. faults' \in 0..MaxFaults /\ UNCHANGED <<fileVars, crashes, left, saved, svc>>
    BY <1>24 DEF ReadFails, Fault, Exit
  <2>2. CASE Exit(c) /\ ReadOver(c)
    BY <2>1, <2>2 DEF Exit, ReadOver
  <2>3. CASE pc[c] \in {"list_config", "list_stat", "list_read"} /\ LoadDone(c, AfterRefusal(c), {})
    BY <1>24, <2>1, <2>3 DEF ReadFails, LoadDone, AfterRefusal, AfterLoad
  <2> QED
    BY <1>24, <2>2, <2>3 DEF ReadFails
<1>25. CASE UNCHANGED vars
  BY <1>25 DEF vars
<1> QED
  BY <1>1, <1>2, <1>3, <1>4, <1>5, <1>6, <1>7, <1>8, <1>9, <1>10, <1>11, <1>12, <1>13, <1>14, <1>15, <1>16, <1>17, <1>18, <1>19, <1>20, <1>21, <1>22, <1>23, <1>24, <1>25 DEF Next, Begin, Step
-----------------------------------------------------------------------------
LEMMA InvInit == Init => IInv
<1> SUFFICES ASSUME Init PROVE IInv
  OBVIOUS
<1>1. TypeInv
  BY TypeInit
<1>2. OneWriter /\ (\A c \in Clients : SaveAt(c) /\ DeleteAt(c))
  BY DEF Init, OneWriter, SaveAt, DeleteAt, WriteSteps, SaveSteps, DeleteSteps
<1>3. ASSUME NEW s \in Services PROVE NoOrphanAt(s) /\ SettledAt(s)
  BY <1>3, FileMarks DEF FileMarks, Init, NoOrphanAt, SettledAt, Exact
<1> QED
  BY <1>1, <1>2, <1>3 DEF IInv

(* A process that writes nothing, before the step or after it, disturbs no *)
(* writer.                                                                 *)
LEMMA ReaderFrame ==
  ASSUME IInv, TypeInv',
         NEW c \in Clients,
         pc[c] \notin WriteSteps, pc'[c] \notin WriteSteps,
         \A d \in Clients \ {c} : pc'[d] = pc[d] /\ svc'[d] = svc[d] /\ ver'[d] = ver[d],
         UNCHANGED <<fileVars, left, saved>>
  PROVE  IInv'
<1> USE DEF IInv, WriteSteps, fileVars
<1>1. OneWriter'
  BY DEF OneWriter
<1>2. \A d \in Clients : SaveAt(d)' /\ DeleteAt(d)'
  BY DEF SaveAt, DeleteAt, SaveSteps, DeleteSteps
<1>3. ASSUME NEW s \in Services PROVE NoOrphanAt(s)' /\ SettledAt(s)'
  <2>1. Changing(s)' <=> Changing(s)
    BY DEF Changing, Writer
  <2> QED
    BY <2>1 DEF NoOrphanAt, SettledAt, Exact
<1> QED
  BY <1>1, <1>2, <1>3

(* A writer that has its service to itself touches no other service; what  *)
(* is left to show is what the step makes of its own.                      *)
LEMMA WriterFrame ==
  ASSUME IInv, TypeInv',
         NEW c \in Clients, NEW s \in Services, svc'[c] = s,
         pc[c] \in WriteSteps => svc[c] = s,
         \A d \in Clients \ {c} : pc'[d] = pc[d] /\ svc'[d] = svc[d] /\ ver'[d] = ver[d],
         \A d \in Clients \ {c} : ~Writer(d, s),
         \A r \in Services \ {s} :
           /\ config'[r] = config[r] /\ secrets'[r] = secrets[r] /\ secDir'[r] = secDir[r]
           /\ left'[r] = left[r] /\ saved'[r] = saved[r],
         SaveAt(c)', DeleteAt(c)', NoOrphanAt(s)', SettledAt(s)'
  PROVE  IInv'
<1> USE DEF IInv, Writer
<1>1. OneWriter'
  BY DEF OneWriter
<1>2. ASSUME NEW d \in Clients PROVE SaveAt(d)' /\ DeleteAt(d)'
  <2>1. CASE d = c
    BY <2>1
  <2>2. CASE d # c /\ pc[d] \in WriteSteps
    <3>1. svc[d] \in Services \ {s}
      BY <2>2 DEF TypeInv, TypeOK
    <3> QED
      BY <2>2, <3>1 DEF SaveAt, DeleteAt
  <2>3. CASE d # c /\ pc[d] \notin WriteSteps
    BY <2>3 DEF SaveAt, DeleteAt, WriteSteps, SaveSteps, DeleteSteps
  <2> QED
    BY <2>1, <2>2, <2>3
<1>3. ASSUME NEW r \in Services PROVE NoOrphanAt(r)' /\ SettledAt(r)'
  <2>1. CASE r = s
    BY <2>1
  <2>2. CASE r # s
    <3>1. Changing(r)' <=> Changing(r)
      BY <2>2 DEF Changing
    <3> QED
      BY <2>2, <3>1 DEF NoOrphanAt, SettledAt, Exact
  <2> QED
    BY <2>1, <2>2
<1> QED
  BY <1>1, <1>2, <1>3

(* One step per action. *)
LEMMA InvNext == IInv /\ [Next]_vars => IInv'
<1> SUFFICES ASSUME IInv, [Next]_vars PROVE IInv'
  OBVIOUS
<1>0. TypeInv'
  BY TypeNext DEF IInv
<1> USE FileMarks DEF FileMarks, Goto, WriteSteps, SaveSteps, DeleteSteps, IInv, TypeInv, TypeOK, FilesTypeOK
<1>1. ASSUME NEW c \in Clients, NEW s \in Services, NEW v \in Versions, BeginSave(c, s, v) PROVE IInv'
  <2>1. ~Changing(s) /\ (\A d \in Clients \ {c} : ~Writer(d, s))
    BY <1>1 DEF BeginSave, Written, Changing, Writer
  <2>2. SaveAt(c)' /\ DeleteAt(c)'
    BY <1>1 DEF BeginSave, SaveAt, DeleteAt, fileVars, LoadVerdict, ConfigVerdict
  <2>3. ~Changing(s)'
    BY <1>1, <2>1 DEF BeginSave, Changing, Writer
  <2>4. NoOrphanAt(s)' /\ SettledAt(s)'
    BY <1>1, <2>1, <2>3 DEF BeginSave, NoOrphanAt, SettledAt, Exact, fileVars
  <2> QED
    BY <1>0, <1>1, <2>1, <2>2, <2>4, WriterFrame DEF BeginSave, fileVars
<1>2. ASSUME NEW c \in Clients, NEW s \in Services, BeginDelete(c, s) PROVE IInv'
  <2>1. ~Changing(s) /\ (\A d \in Clients \ {c} : ~Writer(d, s))
    BY <1>2 DEF BeginDelete, Written, Changing, Writer
  <2>2. SaveAt(c)' /\ DeleteAt(c)'
    BY <1>2 DEF BeginDelete, SaveAt, DeleteAt, fileVars, LoadVerdict, ConfigVerdict
  <2>3. ~Changing(s)'
    BY <1>2, <2>1 DEF BeginDelete, Changing, Writer
  <2>4. NoOrphanAt(s)' /\ SettledAt(s)'
    BY <1>2, <2>1, <2>3 DEF BeginDelete, NoOrphanAt, SettledAt, Exact, fileVars
  <2> QED
    BY <1>0, <1>2, <2>1, <2>2, <2>4, WriterFrame DEF BeginDelete, fileVars
<1>3. ASSUME NEW c \in Clients, NEW s \in Services, BeginLoad(c, s) PROVE IInv'
  BY <1>0, <1>3, ReaderFrame DEF BeginLoad
<1>4. ASSUME NEW c \in Clients, BeginList(c) PROVE IInv'
  BY <1>0, <1>4, ReaderFrame DEF BeginList
<1>5. ASSUME NEW c \in Clients, SaveConfig(c) PROVE IInv'
  <2> DEFINE s == svc[c]
  <2>1. \A d \in Clients \ {c} : ~Writer(d, s)
    BY <1>5 DEF SaveConfig, OneWriter, Writer
  <2>2. SaveAt(c)' /\ DeleteAt(c)'
    BY <1>5 DEF SaveConfig, WriteConfig, SaveAt, DeleteAt, CarriesVersion, fileVars, callVars
  <2>3. NoOrphanAt(s)' /\ SettledAt(s)'
    BY <1>5, <2>1 DEF SaveConfig, WriteConfig, NoOrphanAt, SettledAt, Exact, Changing, Writer, SaveAt, DeleteAt,
       CarriesVersion, fileVars, histVars, readHist
  <2>4. s \in Services /\ svc'[c] = s
    BY <1>5 DEF SaveConfig, WriteConfig
  <2> QED
    BY <1>0, <1>5, <2>1, <2>2, <2>3, <2>4, WriterFrame DEF SaveConfig, WriteConfig, fileVars, histVars, readHist
<1>6. ASSUME NEW c \in Clients, SaveDir(c) PROVE IInv'
  <2> DEFINE s == svc[c]
  <2>1. \A d \in Clients \ {c} : ~Writer(d, s)
    BY <1>6 DEF SaveDir, OneWriter, Writer
  <2>2. SaveAt(c)' /\ DeleteAt(c)'
    BY <1>6 DEF SaveDir, MakeSecretsDir, SaveAt, DeleteAt, CarriesVersion, fileVars, callVars
  <2>3. NoOrphanAt(s)' /\ SettledAt(s)'
    BY <1>6, <2>1 DEF SaveDir, MakeSecretsDir, NoOrphanAt, SettledAt, Exact, Changing, Writer, SaveAt, DeleteAt,
       CarriesVersion, fileVars, histVars, readHist
  <2>4. s \in Services /\ svc'[c] = s
    BY <1>6 DEF SaveDir, MakeSecretsDir
  <2> QED
    BY <1>0, <1>6, <2>1, <2>2, <2>3, <2>4, WriterFrame DEF SaveDir, MakeSecretsDir, fileVars, histVars, readHist
<1>7. ASSUME NEW c \in Clients, SaveTemp(c) PROVE IInv'
  <2> DEFINE s == svc[c]
  <2>1. \A d \in Clients \ {c} : ~Writer(d, s)
    BY <1>7 DEF SaveTemp, OneWriter, Writer
  <2>2. SaveAt(c)' /\ DeleteAt(c)'
    BY <1>7 DEF SaveTemp, SaveAt, DeleteAt, CarriesVersion, fileVars, callVars
  <2>3. NoOrphanAt(s)' /\ SettledAt(s)'
    BY <1>7, <2>1 DEF SaveTemp, NoOrphanAt, SettledAt, Exact, Changing, Writer, SaveAt, DeleteAt,
       CarriesVersion, fileVars, histVars, readHist
  <2>4. s \in Services /\ svc'[c] = s
    BY <1>7 DEF SaveTemp
  <2> QED
    BY <1>0, <1>7, <2>1, <2>2, <2>3, <2>4, WriterFrame DEF SaveTemp, fileVars, histVars, readHist
<1>8. ASSUME NEW c \in Clients, SaveRename(c) PROVE IInv'
  <2> DEFINE s == svc[c]
  <2>1. \A d \in Clients \ {c} : ~Writer(d, s)
    BY <1>8 DEF SaveRename, OneWriter, Writer
  <2>2. SaveAt(c)' /\ DeleteAt(c)'
    BY <1>8 DEF SaveRename, WriteSecrets, Ends, Exit, SaveAt, DeleteAt, CarriesVersion, fileVars, callVars
  <2>3. NoOrphanAt(s)' /\ SettledAt(s)'
    BY <1>8, <2>1 DEF SaveRename, WriteSecrets, Ends, Exit, NoOrphanAt, SettledAt, Exact, Changing, Writer, SaveAt, DeleteAt,
       CarriesVersion, fileVars, histVars, readHist
  <2>4. s \in Services /\ svc'[c] = s
    BY <1>8 DEF SaveRename, WriteSecrets, Ends, Exit
  <2> QED
    BY <1>0, <1>8, <2>1, <2>2, <2>3, <2>4, WriterFrame DEF SaveRename, WriteSecrets, Ends, Exit, fileVars, histVars, readHist
<1>9. ASSUME NEW c \in Clients, SaveFails(c) PROVE IInv'
  <2> DEFINE s == svc[c]
  <2>1. \A d \in Clients \ {c} : ~Writer(d, s)
    BY <1>9 DEF SaveFails, OneWriter, Writer
  <2>2. SaveAt(c)' /\ DeleteAt(c)'
    BY <1>9 DEF SaveFails, Exit, SaveAt, DeleteAt, CarriesVersion, fileVars, callVars
  <2>3. NoOrphanAt(s)' /\ SettledAt(s)'
    BY <1>9, <2>1 DEF SaveFails, Exit, NoOrphanAt, SettledAt, Exact, Changing, Writer, SaveAt, DeleteAt,
       CarriesVersion, fileVars, histVars, readHist
  <2>4. s \in Services /\ svc'[c] = s
    BY <1>9 DEF SaveFails, Exit
  <2> QED
    BY <1>0, <1>9, <2>1, <2>2, <2>3, <2>4, WriterFrame DEF SaveFails, Exit, fileVars, histVars, readHist
<1>10. ASSUME NEW c \in Clients, DeleteOrphanConfig(c) PROVE IInv'
  <2> DEFINE s == svc[c]
  <2>1. \A d \in Clients \ {c} : ~Writer(d, s)
    BY <1>10 DEF DeleteOrphanConfig, OneWriter, Writer
  <2>2. SaveAt(c)' /\ DeleteAt(c)'
    BY <1>10 DEF DeleteOrphanConfig, RemoveConfig, Ends, Exit, SaveAt, DeleteAt, CarriesVersion, fileVars, callVars
  <2>3. NoOrphanAt(s)' /\ SettledAt(s)'
    BY <1>10, <2>1 DEF DeleteOrphanConfig, RemoveConfig, Ends, Exit, NoOrphanAt, SettledAt, Exact, Changing, Writer, SaveAt, DeleteAt,
       CarriesVersion, fileVars, histVars, readHist
  <2>4. s \in Services /\ svc'[c] = s
    BY <1>10 DEF DeleteOrphanConfig, RemoveConfig, Ends, Exit
  <2> QED
    BY <1>0, <1>10, <2>1, <2>2, <2>3, <2>4, WriterFrame DEF DeleteOrphanConfig, RemoveConfig, Ends, Exit, fileVars, histVars, readHist
<1>11. ASSUME NEW c \in Clients, DeleteOrphanConfigFails(c) PROVE IInv'
  <2> DEFINE s == svc[c]
  <2>1. \A d \in Clients \ {c} : ~Writer(d, s)
    BY <1>11 DEF DeleteOrphanConfigFails, OneWriter, Writer
  <2>2. SaveAt(c)' /\ DeleteAt(c)'
    BY <1>11 DEF DeleteOrphanConfigFails, Ends, Exit, SaveAt, DeleteAt, CarriesVersion, fileVars, callVars
  <2>3. NoOrphanAt(s)' /\ SettledAt(s)'
    BY <1>11, <2>1 DEF DeleteOrphanConfigFails, Ends, Exit, NoOrphanAt, SettledAt, Exact, Changing, Writer, SaveAt, DeleteAt,
       CarriesVersion, fileVars, histVars, readHist
  <2>4. s \in Services /\ svc'[c] = s
    BY <1>11 DEF DeleteOrphanConfigFails, Ends, Exit
  <2> QED
    BY <1>0, <1>11, <2>1, <2>2, <2>3, <2>4, WriterFrame DEF DeleteOrphanConfigFails, Ends, Exit, fileVars, histVars, readHist
<1>12. ASSUME NEW c \in Clients, DeleteSecrets(c) PROVE IInv'
  <2> DEFINE s == svc[c]
  <2>1. \A d \in Clients \ {c} : ~Writer(d, s)
    BY <1>12 DEF DeleteSecrets, OneWriter, Writer
  <2>2. SaveAt(c)' /\ DeleteAt(c)'
    BY <1>12 DEF DeleteSecrets, RemoveSecrets, SaveAt, DeleteAt, CarriesVersion, fileVars, callVars
  <2>3. NoOrphanAt(s)' /\ SettledAt(s)'
    BY <1>12, <2>1 DEF DeleteSecrets, RemoveSecrets, NoOrphanAt, SettledAt, Exact, Changing, Writer, SaveAt, DeleteAt,
       CarriesVersion, fileVars, histVars, readHist
  <2>4. s \in Services /\ svc'[c] = s
    BY <1>12 DEF DeleteSecrets, RemoveSecrets
  <2> QED
    BY <1>0, <1>12, <2>1, <2>2, <2>3, <2>4, WriterFrame DEF DeleteSecrets, RemoveSecrets, fileVars, histVars, readHist
<1>13. ASSUME NEW c \in Clients, DeleteDir(c) PROVE IInv'
  <2> DEFINE s == svc[c]
  <2>1. \A d \in Clients \ {c} : ~Writer(d, s)
    BY <1>13 DEF DeleteDir, OneWriter, Writer
  <2>2. SaveAt(c)' /\ DeleteAt(c)'
    BY <1>13 DEF DeleteDir, RemoveSecretsDir, SaveAt, DeleteAt, CarriesVersion, fileVars, callVars
  <2>3. NoOrphanAt(s)' /\ SettledAt(s)'
    BY <1>13, <2>1 DEF DeleteDir, RemoveSecretsDir, NoOrphanAt, SettledAt, Exact, Changing, Writer, SaveAt, DeleteAt,
       CarriesVersion, fileVars, histVars, readHist
  <2>4. s \in Services /\ svc'[c] = s
    BY <1>13 DEF DeleteDir, RemoveSecretsDir
  <2> QED
    BY <1>0, <1>13, <2>1, <2>2, <2>3, <2>4, WriterFrame DEF DeleteDir, RemoveSecretsDir, fileVars, histVars, readHist
<1>14. ASSUME NEW c \in Clients, DeleteConfig(c) PROVE IInv'
  <2> DEFINE s == svc[c]
  <2>1. \A d \in Clients \ {c} : ~Writer(d, s)
    BY <1>14 DEF DeleteConfig, OneWriter, Writer
  <2>2. SaveAt(c)' /\ DeleteAt(c)'
    BY <1>14 DEF DeleteConfig, RemoveConfig, Ends, Exit, SaveAt, DeleteAt, CarriesVersion, fileVars, callVars
  <2>3. NoOrphanAt(s)' /\ SettledAt(s)'
    BY <1>14, <2>1 DEF DeleteConfig, RemoveConfig, Ends, Exit, NoOrphanAt, SettledAt, Exact, Changing, Writer, SaveAt, DeleteAt,
       CarriesVersion, fileVars, histVars, readHist
  <2>4. s \in Services /\ svc'[c] = s
    BY <1>14 DEF DeleteConfig, RemoveConfig, Ends, Exit
  <2> QED
    BY <1>0, <1>14, <2>1, <2>2, <2>3, <2>4, WriterFrame DEF DeleteConfig, RemoveConfig, Ends, Exit, fileVars, histVars, readHist
<1>15. ASSUME NEW c \in Clients, DeleteFails(c) PROVE IInv'
  <2> DEFINE s == svc[c]
  <2>1. \A d \in Clients \ {c} : ~Writer(d, s)
    BY <1>15 DEF DeleteFails, OneWriter, Writer
  <2>2. SaveAt(c)' /\ DeleteAt(c)'
    BY <1>15 DEF DeleteFails, Ends, Exit, SaveAt, DeleteAt, CarriesVersion, fileVars, callVars
  <2>3. NoOrphanAt(s)' /\ SettledAt(s)'
    BY <1>15, <2>1 DEF DeleteFails, Ends, Exit, NoOrphanAt, SettledAt, Exact, Changing, Writer, SaveAt, DeleteAt,
       CarriesVersion, fileVars, histVars, readHist
  <2>4. s \in Services /\ svc'[c] = s
    BY <1>15 DEF DeleteFails, Ends, Exit
  <2> QED
    BY <1>0, <1>15, <2>1, <2>2, <2>3, <2>4, WriterFrame DEF DeleteFails, Ends, Exit, fileVars, histVars, readHist
<1>16. ASSUME NEW c \in Clients, DeleteRefused(c) PROVE IInv'
  <2> DEFINE s == svc[c]
  <2>1. \A d \in Clients \ {c} : ~Writer(d, s)
    BY <1>16 DEF DeleteRefused, OneWriter, Writer
  <2>2. SaveAt(c)' /\ DeleteAt(c)'
    BY <1>16 DEF DeleteRefused, Ends, Exit, SaveAt, DeleteAt, CarriesVersion, fileVars, callVars
  <2>3. NoOrphanAt(s)' /\ SettledAt(s)'
    BY <1>16, <2>1 DEF DeleteRefused, Ends, Exit, NoOrphanAt, SettledAt, Exact, Changing, Writer, SaveAt, DeleteAt,
       CarriesVersion, fileVars, histVars, readHist
  <2>4. s \in Services /\ svc'[c] = s
    BY <1>16 DEF DeleteRefused, Ends, Exit
  <2> QED
    BY <1>0, <1>16, <2>1, <2>2, <2>3, <2>4, WriterFrame DEF DeleteRefused, Ends, Exit, fileVars, histVars, readHist
<1>17. ASSUME NEW c \in Clients, ListNames(c) PROVE IInv'
  BY <1>0, <1>17, ReaderFrame DEF ListNames, histVars, readHist
<1>18. ASSUME NEW c \in Clients, ListNext(c) PROVE IInv'
  BY <1>0, <1>18, ReaderFrame DEF ListNext, histVars, readHist
<1>19. ASSUME NEW c \in Clients, LoadConfig(c) PROVE IInv'
  <2>1. UNCHANGED <<fileVars, svc, left, saved>>
    BY <1>19 DEF LoadConfig, histVars, readHist
  <2>2. pc[c] \notin WriteSteps /\ pc'[c] \notin WriteSteps
    BY <1>19 DEF LoadConfig, LoadDone, AfterRefusal, AfterLoad
  <2>3. \A d \in Clients \ {c} : pc'[d] = pc[d] /\ ver'[d] = ver[d]
    BY <1>19 DEF LoadConfig, LoadDone
  <2> QED
    BY <1>0, <2>1, <2>2, <2>3, ReaderFrame
<1>20. ASSUME NEW c \in Clients, LoadStat(c) PROVE IInv'
  <2>1. UNCHANGED <<fileVars, svc, left, saved>>
    BY <1>20 DEF LoadStat, histVars, readHist
  <2>2. pc[c] \notin WriteSteps /\ pc'[c] \notin WriteSteps
    BY <1>20 DEF LoadStat, LoadDone, AfterRefusal, AfterLoad
  <2>3. \A d \in Clients \ {c} : pc'[d] = pc[d] /\ ver'[d] = ver[d]
    BY <1>20 DEF LoadStat, LoadDone
  <2> QED
    BY <1>0, <2>1, <2>2, <2>3, ReaderFrame
<1>21. ASSUME NEW c \in Clients, LoadRead(c) PROVE IInv'
  <2>1. UNCHANGED <<fileVars, svc, left, saved>>
    BY <1>21 DEF LoadRead, histVars, readHist
  <2>2. pc[c] \notin WriteSteps /\ pc'[c] \notin WriteSteps
    BY <1>21 DEF LoadRead, LoadDone, AfterRefusal, AfterLoad
  <2>3. \A d \in Clients \ {c} : pc'[d] = pc[d] /\ ver'[d] = ver[d]
    BY <1>21 DEF LoadRead, LoadDone
  <2> QED
    BY <1>0, <2>1, <2>2, <2>3, ReaderFrame
<1>22. ASSUME NEW c \in Clients, Return(c) PROVE IInv'
  BY <1>0, <1>22, ReaderFrame DEF Return, Exit, histVars, readHist
<1>23. ASSUME NEW c \in Clients, Crash(c) PROVE IInv'
  <2>1. CASE pc[c] \notin WriteSteps
    <3>1. HowCut(c) = left[svc[c]] /\ UNCHANGED fileVars
      BY <1>23, <2>1 DEF Crash, HowCut
    <3>2. left' = left
      BY <1>23, <3>1 DEF Crash
    <3> QED
      BY <1>0, <1>23, <2>1, <3>1, <3>2, ReaderFrame DEF Crash, Exit, ReadOver
  <2>2. CASE pc[c] \in WriteSteps
    <3> DEFINE s == svc[c]
    <3>1. \A d \in Clients \ {c} : ~Writer(d, s)
      BY <2>2 DEF OneWriter, Writer
    <3>2. SaveAt(c)' /\ DeleteAt(c)'
      BY <1>23 DEF Crash, Exit, ReadOver, SaveAt, DeleteAt
    <3>3. UNCHANGED <<config, secrets, secDir>>
      BY <1>23 DEF Crash, AbandonTemp, fileVars
    <3>4. NoOrphanAt(s)' /\ SettledAt(s)'
      BY <1>23, <2>2, <3>1, <3>3 DEF Crash, Exit, ReadOver, HowCut, NoOrphanAt, SettledAt, Exact, Changing, Writer,
         SaveAt, DeleteAt, CarriesVersion
    <3>5. s \in Services /\ svc'[c] = s
      BY <1>23 DEF Crash, Exit, ReadOver
    <3> QED
      BY <1>0, <1>23, <2>2, <3>1, <3>2, <3>3, <3>4, <3>5, WriterFrame DEF Crash, Exit, ReadOver
  <2> QED
    BY <2>1, <2>2
<1>24. ASSUME NEW c \in Clients, ReadFails(c) PROVE IInv'
  <2>1. UNCHANGED <<fileVars, svc, left, saved>>
    BY <1>24 DEF ReadFails, Exit
  <2>2. pc[c] \notin WriteSteps /\ pc'[c] \notin WriteSteps
    BY <1>24 DEF ReadFails, Exit, LoadDone, AfterRefusal, AfterLoad, LoadSteps
  <2>3. \A d \in Clients \ {c} : pc'[d] = pc[d] /\ ver'[d] = ver[d]
    BY <1>24 DEF ReadFails, Exit, LoadDone
  <2> QED
    BY <1>0, <2>1, <2>2, <2>3, ReaderFrame
<1>25. CASE UNCHANGED vars
  BY <1>0, <1>25 DEF vars, fileVars, callVars, histVars, readHist, OneWriter, SaveAt, DeleteAt, NoOrphanAt, SettledAt,
     Exact, Changing, Writer
<1> QED
  BY <1>1, <1>2, <1>3, <1>4, <1>5, <1>6, <1>7, <1>8, <1>9, <1>10, <1>11, <1>12, <1>13, <1>14, <1>15, <1>16, <1>17, <1>18, <1>19, <1>20, <1>21, <1>22, <1>23, <1>24, <1>25 DEF Next, Begin, Step
-----------------------------------------------------------------------------
LEMMA Invariant == Spec => []IInv
BY InvInit, InvNext, PTL DEF Spec

(* Every variable keeps its type; in particular Load and List never hand   *)
(* out a content they could not read.                                      *)
THEOREM TypeCorrect == Spec => []TypeOK
<1>1. IInv => TypeOK
  BY DEF IInv, TypeInv
<1> QED
  BY Invariant, <1>1, PTL

(* Whatever fails or dies, and at whichever file-system call, secrets are  *)
(* never left without a registration, except by DeleteOrphanConfig.        *)
THEOREM NoOrphans == Spec => []NoOrphanSecrets
<1>1. IInv => NoOrphanSecrets
  BY DEF IInv, NoOrphanAt, NoOrphanSecrets
<1> QED
  BY Invariant, <1>1, PTL

(* A save or a delete that ended well left exactly what it said.           *)
THEOREM SettledExact == Spec => []SettledIsExact
<1>1. IInv => SettledIsExact
  BY DEF IInv, SettledAt, SettledIsExact, Exact, Quiet, Written, Changing
<1> QED
  BY Invariant, <1>1, PTL

(* Only an unregister or the rollback of a failed save makes a loadable    *)
(* service unloadable: no redeploy does, whatever step it dies at.         *)
THEOREM StaysLoadable == Spec => LoadableUntilRemoved
<1> DEFINE Kept == \A s \in Services : Loadable(s) /\ ~Loadable(s)' =>
                     \E c \in Clients : svc[c] = s /\ pc[c] \in {"del_secrets", "rollback"}
<1>1. IInv /\ [Next]_vars => Kept
  <2> SUFFICES ASSUME IInv, [Next]_vars, NEW s \in Services, Loadable(s), ~Loadable(s)'
               PROVE  \E c \in Clients : svc[c] = s /\ pc[c] \in {"del_secrets", "rollback"}
    OBVIOUS
  <2>1. UNCHANGED <<config, secrets, secDir>> => Loadable(s)'
    BY DEF Loadable, LoadVerdict, ConfigVerdict, SecretsVerdict
  <2>2. PICK c \in Clients : SaveConfig(c) \/ SaveDir(c) \/ SaveRename(c) \/ DeleteOrphanConfig(c)
                             \/ DeleteSecrets(c) \/ DeleteDir(c) \/ DeleteConfig(c)
    BY <2>1 DEF Next, Begin, Step, vars, fileVars, BeginSave, BeginDelete, BeginLoad, BeginList, SaveTemp,
       SaveFails, DeleteOrphanConfigFails, DeleteFails, DeleteRefused, ListNames, ListNext, LoadConfig,
       LoadStat, LoadRead, ReadFails, ReadOver, Return, Crash, AbandonTemp
  <2> USE FileMarks DEF FileMarks, Loadable, LoadVerdict, ConfigVerdict, SecretsVerdict, IInv, TypeInv, TypeOK,
          FilesTypeOK
  <2>3. CASE SaveConfig(c)
    BY <2>3 DEF SaveConfig, WriteConfig, CarriesVersion, SaveSteps
  <2>4. CASE SaveDir(c)
    BY <2>4 DEF SaveDir, MakeSecretsDir
  <2>5. CASE SaveRename(c)
    BY <2>5 DEF SaveRename, WriteSecrets, CarriesVersion, SaveSteps
  <2>6. CASE DeleteOrphanConfig(c)
    BY <2>6 DEF DeleteOrphanConfig, RemoveConfig
  <2>7. CASE DeleteSecrets(c)
    BY <2>7 DEF DeleteSecrets, RemoveSecrets
  <2>8. CASE DeleteDir(c)
    BY <2>8 DEF DeleteDir, RemoveSecretsDir, DeleteAt
  <2>9. CASE DeleteConfig(c)
    BY <2>9 DEF DeleteConfig, RemoveConfig, DeleteAt
  <2> QED
    BY <2>2, <2>3, <2>4, <2>5, <2>6, <2>7, <2>8, <2>9
<1> QED
  BY Invariant, <1>1, PTL DEF Spec, LoadableUntilRemoved
-----------------------------------------------------------------------------
(* Readers.  What a reader has of a service that nobody has written since  *)
(* it began: nothing yet, or what it should have.                          *)
Nothing(c, s) == \A e \in out[c] : e[1] # s

Right(c, s) ==
  /\ saved[s] = NoFile \/ s \in unread[c] => Nothing(c, s)
  /\ saved[s] # NoFile /\ s \notin unread[c] =>
                          /\ <<s, saved[s], saved[s]>> \in out[c]
                          /\ \A e \in out[c] : e[1] = s => e = <<s, saved[s], saved[s]>>

ReaderLocals(c) ==
  /\ pc[c] \in LoadSteps \union WriteSteps \union {"idle", "list_names"} => out[c] = {} /\ unread[c] = {}
  /\ pc[c] \in LoadSteps => steady[c] \subseteq {svc[c]}
  /\ pc[c] \in {"list_config", "list_stat", "list_read"} => svc[c] \in todo[c]

Reads(c, s) ==
  /\ pc[c] \in ListSteps => IF s \in todo[c] THEN saved[s] # NoFile /\ s \notin unread[c] /\ Nothing(c, s)
                               ELSE Right(c, s)
  /\ pc[c] = "returned" => Right(c, s)
  /\ pc[c] \in {"load_stat", "load_read", "list_stat", "list_read"} /\ svc[c] = s =>
       saved[s] # NoFile /\ ver[c] = saved[s]

SteadyQuiet == \A c \in Clients : \A s \in steady[c] : left[s] = "settled" /\ ~Written(s)

RInv == /\ IInv
        /\ SteadyQuiet
        /\ \A c \in Clients : ReaderLocals(c) /\ \A s \in steady[c] : Reads(c, s)

(* A service counts as written from the first step of a write to the last. *)
LEMMA WriterHistory ==
  ASSUME IInv, [Next]_vars, NEW s \in Services
  PROVE  /\ saved'[s] # saved[s] => Written(s)
         /\ left[s] = "settled" /\ left'[s] # "settled" => Written(s)
<1> USE DEF IInv, TypeInv, TypeOK, Written, Writer
<1>1. ASSUME NEW c \in Clients, Begin(c) PROVE UNCHANGED <<saved, left>>
  BY <1>1 DEF Begin, BeginSave, BeginDelete, BeginLoad, BeginList
<1>2. ASSUME NEW c \in Clients, Step(c), ~UNCHANGED <<saved, left>>
      PROVE  pc[c] \in WriteSteps /\ \E h \in {"settled", "save_cut", "rolled_back", "delete_cut"},
                                        v \in Versions \union {NoFile, Broken} : Ends(c, h, v)
  <2> USE DEF WriteSteps, SaveSteps, DeleteSteps, histVars, readHist
  <2>1. ~(SaveConfig(c) \/ SaveDir(c) \/ SaveTemp(c) \/ SaveFails(c) \/ DeleteSecrets(c) \/ DeleteDir(c))
    BY <1>2 DEF SaveConfig, SaveDir, SaveTemp, SaveFails, DeleteSecrets, DeleteDir
  <2>2. ~(ListNames(c) \/ ListNext(c) \/ LoadConfig(c) \/ LoadStat(c) \/ LoadRead(c)
         \/ ReadFails(c) \/ Return(c))
    BY <1>2 DEF ListNames, ListNext, LoadConfig, LoadStat, LoadRead, ReadFails, ReadOver, Return
  <2> QED
    BY <1>2, <2>1, <2>2 DEF Step, SaveRename, DeleteOrphanConfig, DeleteOrphanConfigFails, DeleteConfig,
       DeleteFails, DeleteRefused
<1>3. ASSUME NEW c \in Clients, Crash(c) PROVE saved' = saved /\ left' = [left EXCEPT ![svc[c]] = HowCut(c)]
  BY <1>3 DEF Crash
<1>4. ASSUME NEW c \in Clients PROVE HowCut(c) = left[svc[c]] \/ pc[c] \in WriteSteps
  BY DEF HowCut, WriteSteps, SaveSteps
<1>5. CASE UNCHANGED vars
  BY <1>5 DEF vars, histVars, readHist
<1> QED
  BY <1>1, <1>2, <1>3, <1>4, <1>5 DEF Next, Ends

(* Nobody writes a service a reader is steady about. *)
LEMMA SteadyKept ==
  ASSUME IInv, SteadyQuiet, [Next]_vars
  PROVE  SteadyQuiet'
<1> USE DEF IInv, TypeInv, TypeOK, Written, Writer, Goto
<1>1. \A c \in Clients : \A s \in steady[c] : left'[s] = "settled"
  BY WriterHistory DEF SteadyQuiet
<1>2. ASSUME NEW d \in Clients, NEW s \in Services, NEW v \in Versions, BeginSave(d, s, v) PROVE SteadyQuiet'
  BY <1>1, <1>2 DEF BeginSave, SteadyQuiet
<1>3. ASSUME NEW d \in Clients, NEW s \in Services, BeginDelete(d, s) PROVE SteadyQuiet'
  BY <1>1, <1>3 DEF BeginDelete, SteadyQuiet
<1>4. ASSUME NEW d \in Clients, NEW s \in Services, BeginLoad(d, s) PROVE SteadyQuiet'
  BY <1>1, <1>4 DEF BeginLoad, SteadyQuiet, Quiet, WriteSteps, SaveSteps, DeleteSteps
<1>5. ASSUME NEW d \in Clients, BeginList(d) PROVE SteadyQuiet'
  BY <1>1, <1>5 DEF BeginList, SteadyQuiet, Quiet, WriteSteps, SaveSteps, DeleteSteps
<1>6. ASSUME NEW d \in Clients, Step(d) \/ Crash(d) PROVE SteadyQuiet'
  <2>1. \A c \in Clients : steady'[c] \subseteq steady[c]
    BY <1>6 DEF Step, Crash, histVars, readHist, SaveConfig, SaveDir, SaveTemp, SaveRename, SaveFails, DeleteOrphanConfig,
       DeleteOrphanConfigFails, DeleteSecrets, DeleteDir, DeleteConfig, DeleteFails, DeleteRefused,
       ListNames, ListNext, LoadConfig, LoadStat, LoadRead, ReadFails, ReadOver, Return
  <2>2. \A c \in Clients : pc'[c] \in WriteSteps => pc[c] \in WriteSteps /\ svc'[c] = svc[c]
    BY <1>6 DEF Step, Crash, SaveConfig, SaveDir, SaveTemp, SaveRename, SaveFails, DeleteOrphanConfig,
       DeleteOrphanConfigFails, DeleteSecrets, DeleteDir, DeleteConfig, DeleteFails, DeleteRefused,
       ListNames, ListNext, LoadConfig, LoadStat, LoadRead, ReadFails, ReadOver, Return, Ends, Exit, LoadDone, AfterRefusal, AfterLoad,
       WriteSteps, SaveSteps, DeleteSteps
  <2> QED
    BY <1>1, <2>1, <2>2 DEF SteadyQuiet
<1>7. CASE UNCHANGED vars
  BY <1>7 DEF vars, callVars, histVars, readHist, SteadyQuiet
<1> QED
  BY <1>2, <1>3, <1>4, <1>5, <1>6, <1>7 DEF Next, Begin

(* What other processes do leaves a reader as it is. *)
LEMMA ReaderAside ==
  ASSUME RInv, [Next]_vars, NEW c \in Clients,
         pc'[c] = pc[c], svc'[c] = svc[c], ver'[c] = ver[c], todo'[c] = todo[c], out'[c] = out[c],
         unread'[c] = unread[c], steady'[c] \subseteq steady[c]
  PROVE  ReaderLocals(c)' /\ \A s \in steady'[c] : Reads(c, s)'
<1>1. ReaderLocals(c)'
  BY DEF RInv, ReaderLocals
<1>2. \A s \in steady'[c] : saved'[s] = saved[s]
  BY WriterHistory DEF RInv, SteadyQuiet, IInv, TypeInv, TypeOK
<1>3. \A s \in steady'[c] : Reads(c, s)
  BY DEF RInv
<1> QED
  BY <1>1, <1>2, <1>3 DEF Reads, Right, Nothing

(* What a reader finds of a service it is steady about.  *)
LEMMA Found ==
  ASSUME RInv, NEW c \in Clients, NEW s \in steady[c]
  PROVE  /\ saved[s] \in Versions \union {NoFile}
         /\ saved[s] = NoFile => ConfigVerdict(s) = "NotFound"
         /\ saved[s] # NoFile => /\ ConfigVerdict(s) = "ok" /\ config[s] = saved[s]
                                /\ secDir[s] /\ secrets[s] = saved[s] /\ secrets[s] # NoFile
                                /\ SecretsVerdict(s) = "ok"
<1>1. s \in Services /\ left[s] = "settled" /\ ~Written(s) /\ saved[s] \in Versions \union {NoFile}
  BY DEF RInv, SteadyQuiet, IInv, TypeInv, TypeOK
<1>2. Exact(s)
  BY <1>1 DEF RInv, IInv, SettledAt, Changing, Written
<1> QED
  BY <1>1, <1>2, FileMarks DEF Exact, ConfigVerdict, SecretsVerdict

LEMMA ReaderKept ==
  ASSUME RInv, [Next]_vars, NEW c \in Clients
  PROVE  ReaderLocals(c)' /\ \A s \in steady'[c] : Reads(c, s)'
<1> DEFINE Kept == ReaderLocals(c)' /\ \A s \in steady'[c] : Reads(c, s)'
<1> USE DEF Goto
<1>0. /\ IInv /\ ReaderLocals(c) /\ \A s \in steady[c] : Reads(c, s)
      /\ pc \in [Clients -> WriteSteps \union ReadSteps \union {"idle", "list_names"}]
      /\ svc \in [Clients -> Services]
      /\ ver \in [Clients -> Versions \union {NoFile, Broken}]
      /\ todo \in [Clients -> SUBSET Services]
      /\ out \in [Clients -> SUBSET (Services \X Versions \X Versions)]
      /\ steady \in [Clients -> SUBSET Services]
      /\ unread \in [Clients -> SUBSET Services]
      /\ pc[c] \in WriteSteps => unread[c] = {}
  BY DEF RInv, IInv, TypeInv, TypeOK, ReaderLocals
<1>1. CASE UNCHANGED vars
  BY <1>1, ReaderAside DEF vars, callVars, histVars, readHist
<1>2. ASSUME NEW d \in Clients \ {c}, Begin(d) \/ Step(d) \/ Crash(d) PROVE Kept
  <2>1. /\ pc'[c] = pc[c] /\ svc'[c] = svc[c] /\ ver'[c] = ver[c] /\ todo'[c] = todo[c]
        /\ out'[c] = out[c] /\ unread'[c] = unread[c]
    BY <1>0, <1>2 DEF Begin, BeginSave, BeginDelete, BeginLoad, BeginList, Step, Crash, SaveConfig, SaveDir,
       SaveTemp, SaveRename, SaveFails, DeleteOrphanConfig, DeleteOrphanConfigFails, DeleteSecrets, DeleteDir,
       DeleteConfig, DeleteFails, DeleteRefused, ListNames, ListNext, LoadConfig, LoadStat, LoadRead, ReadFails, ReadOver, Return,
       Ends, Exit, LoadDone, histVars, readHist
  <2>2. steady'[c] \subseteq steady[c]
    BY <1>0, <1>2 DEF Begin, BeginSave, BeginDelete, BeginLoad, BeginList, Step, Crash, SaveConfig, SaveDir,
       SaveTemp, SaveRename, SaveFails, DeleteOrphanConfig, DeleteOrphanConfigFails, DeleteSecrets, DeleteDir,
       DeleteConfig, DeleteFails, DeleteRefused, ListNames, ListNext, LoadConfig, LoadStat, LoadRead, ReadFails, ReadOver, Return,
       histVars, readHist
  <2> QED
    BY <2>1, <2>2, ReaderAside
<1>3. CASE Begin(c)
  BY <1>0, <1>3 DEF Begin, BeginSave, BeginDelete, BeginLoad, BeginList, ReaderLocals, Reads, LoadSteps, ListSteps,
     WriteSteps, SaveSteps, DeleteSteps
<1>4. CASE pc[c] \in WriteSteps /\ Step(c)
  <2>1. out'[c] = {} /\ unread'[c] = {} /\ pc'[c] \in WriteSteps \union {"idle"}
    BY <1>0, <1>4 DEF histVars, readHist, LoadSteps, Step, SaveConfig, SaveDir, SaveTemp, SaveRename, SaveFails, DeleteOrphanConfig,
       DeleteOrphanConfigFails, DeleteSecrets, DeleteDir, DeleteConfig, DeleteFails, DeleteRefused,
       ListNames, ListNext, LoadConfig, LoadStat, LoadRead, ReadFails, ReadOver, Return, Ends, Exit, ReaderLocals,
       WriteSteps, SaveSteps, DeleteSteps
  <2> QED
    BY <2>1 DEF ReaderLocals, Reads, LoadSteps, ListSteps, WriteSteps, SaveSteps, DeleteSteps
<1>5. CASE Return(c) \/ Crash(c)
  BY <1>0, <1>5 DEF Return, Crash, Exit, ReadOver, ReaderLocals, Reads, LoadSteps, ListSteps
<1>6. CASE ListNames(c)
  <2>1. \A s \in steady[c] : s \in ListedNames <=> saved[s] # NoFile
    BY <1>0, Found, FileMarks DEF ListedNames, ConfigVerdict
  <2> QED
    BY <1>0, <1>6, <2>1 DEF ListNames, ReaderLocals, Reads, Right, Nothing, histVars, readHist, LoadSteps, ListSteps,
       WriteSteps, SaveSteps, DeleteSteps
<1>7. CASE ListNext(c)
  BY <1>0, <1>7 DEF ListNext, ReaderLocals, Reads, Right, Nothing, histVars, readHist, LoadSteps, ListSteps,
     WriteSteps, SaveSteps, DeleteSteps
<1>8. CASE LoadConfig(c)
  BY <1>0, <1>8, Found DEF LoadConfig, LoadDone, AfterRefusal, AfterLoad, ReaderLocals, Reads, Right, Nothing,
     histVars, readHist, LoadSteps, ListSteps, WriteSteps, SaveSteps, DeleteSteps
<1>9. CASE LoadStat(c)
  BY <1>0, <1>9, Found DEF LoadStat, LoadDone, AfterRefusal, AfterLoad, ReaderLocals, Reads, Right, Nothing,
     histVars, readHist, LoadSteps, ListSteps, WriteSteps, SaveSteps, DeleteSteps
<1>12. CASE ReadFails(c)
  BY <1>0, <1>12 DEF ReadFails, Exit, ReadOver, LoadDone, AfterRefusal, AfterLoad, ReaderLocals, Reads, Right,
     Nothing, LoadSteps, ListSteps, WriteSteps, SaveSteps, DeleteSteps
<1>10. CASE LoadRead(c)
  BY <1>0, <1>10, Found DEF LoadRead, LoadDone, AfterRefusal, AfterLoad, ReaderLocals, Reads, Right, Nothing,
     histVars, readHist, LoadSteps, ListSteps, WriteSteps, SaveSteps, DeleteSteps
<1>11. Step(c) => pc[c] \in WriteSteps \/ ListNames(c) \/ ListNext(c) \/ LoadConfig(c) \/ LoadStat(c)
                  \/ LoadRead(c) \/ ReadFails(c) \/ Return(c)
  BY DEF Step, SaveConfig, SaveDir, SaveTemp, SaveRename, SaveFails, DeleteOrphanConfig,
     DeleteOrphanConfigFails, DeleteSecrets, DeleteDir, DeleteConfig, DeleteFails, DeleteRefused,
     WriteSteps, SaveSteps, DeleteSteps
<1> QED
  BY <1>1, <1>2, <1>3, <1>4, <1>5, <1>6, <1>7, <1>8, <1>9, <1>10, <1>11, <1>12 DEF Next

LEMMA ReaderInvariant == Spec => []RInv
<1>1. Init => RInv
  <2>1. Init => IInv
    BY InvInit
  <2> QED
    BY <2>1 DEF Init, RInv, SteadyQuiet, ReaderLocals, LoadSteps
<1>2. RInv /\ [Next]_vars => RInv'
  <2>1. RInv /\ [Next]_vars => IInv' /\ SteadyQuiet'
    BY InvNext, SteadyKept DEF RInv
  <2>2. RInv /\ [Next]_vars => \A c \in Clients : ReaderLocals(c)' /\ \A s \in steady'[c] : Reads(c, s)'
    BY ReaderKept
  <2> QED
    BY <2>1, <2>2 DEF RInv
<1> QED
  BY <1>1, <1>2, PTL DEF Spec

(* A List or a Load returns a service that nobody's write overlapped as it *)
(* was last saved, whatever other processes did to other services, or, if  *)
(* a read of it failed in List, nothing for it.                            *)
THEOREM ReadersExact == Spec => []ReadersSeeSettled
<1>1. ASSUME RInv, NEW c \in Clients, NEW s \in steady[c], pc[c] = "returned"
      PROVE  {e \in out[c] : e[1] = s} =
               IF saved[s] = NoFile \/ s \in unread[c] THEN {} ELSE {<<s, saved[s], saved[s]>>}
  <2>1. Right(c, s)
    BY <1>1 DEF RInv, Reads
  <2> QED
    BY <2>1 DEF Right, Nothing
<1>2. RInv => ReadersSeeSettled
  BY <1>1 DEF ReadersSeeSettled
<1> QED
  BY <1>2, ReaderInvariant, PTL
-----------------------------------------------------------------------------
(* The store as registers.  What a step makes of the abstract values, in   *)
(* which services are quiet, and of a process that is not reading.         *)
AtRest == \A c \in Clients : pc[c] \in WriteSteps \union {"idle"} => steady[c] = {} /\ unread[c] = {}

LEMMA AtRestInit == Init => AtRest
BY DEF Init, AtRest

LEMMA AtRestNext ==
  ASSUME IInv, AtRest, [Next]_vars
  PROVE  AtRest'
<1> USE DEF AtRest, Goto, WriteSteps, SaveSteps, DeleteSteps
<1>0. /\ pc \in [Clients -> WriteSteps \union ReadSteps \union {"idle", "list_names"}]
      /\ steady \in [Clients -> SUBSET Services]
      /\ unread \in [Clients -> SUBSET Services]
  BY DEF IInv, TypeInv, TypeOK
<1>1. ASSUME NEW c \in Clients, Begin(c) PROVE AtRest'
  BY <1>0, <1>1 DEF Begin, BeginSave, BeginDelete, BeginLoad, BeginList
<1>2. ASSUME NEW c \in Clients, Crash(c) PROVE AtRest'
  BY <1>0, <1>2 DEF Crash, Exit, ReadOver
<1>3. ASSUME NEW c \in Clients, Step(c) PROVE AtRest'
  <2>1. CASE pc[c] \in WriteSteps
    BY <1>0, <1>3, <2>1 DEF Step, histVars, readHist, SaveConfig, SaveDir, SaveTemp, SaveRename, SaveFails, DeleteOrphanConfig,
       DeleteOrphanConfigFails, DeleteSecrets, DeleteDir, DeleteConfig, DeleteFails, DeleteRefused,
       ListNames, ListNext, LoadConfig, LoadStat, LoadRead, ReadFails, ReadOver, Return, Ends, Exit, LoadSteps
  <2>2. CASE pc[c] \notin WriteSteps
    BY <1>0, <1>3, <2>2 DEF Step, histVars, readHist, SaveConfig, SaveDir, SaveTemp, SaveRename, SaveFails, DeleteOrphanConfig,
       DeleteOrphanConfigFails, DeleteSecrets, DeleteDir, DeleteConfig, DeleteFails, DeleteRefused,
       ListNames, ListNext, LoadConfig, LoadStat, LoadRead, ReadFails, ReadOver, Return, Exit, LoadDone, AfterRefusal, AfterLoad,
       LoadSteps
  <2> QED
    BY <2>1, <2>2
<1>4. CASE UNCHANGED vars
  BY <1>4 DEF vars, callVars, histVars, readHist
<1> QED
  BY <1>1, <1>2, <1>3, <1>4 DEF Next

(* A step that neither begins nor ends a write leaves every value alone,   *)
(* and one that hands nothing out leaves every result alone.               *)
LEMMA HoldsFrame ==
  ASSUME UNCHANGED <<left, saved>>,
         \A s \in Services : Written(s)' <=> Written(s)
  PROVE  Holds' = Holds
BY DEF Holds, Quiet

LEMMA ReturnedFrame ==
  ASSUME TypeOK, NEW c \in Clients, \A d \in Clients \ {c} : pc'[d] = pc[d] /\ out'[d] = out[d],
         pc[c] # "returned", pc'[c] # "returned"
  PROVE  Returned' = Returned
BY DEF Returned

LEMMA BeginWriteUnsettles ==
  ASSUME RInv, NEW c \in Clients, NEW s \in Services,
         BeginDelete(c, s) \/ \E v \in Versions : BeginSave(c, s, v)
  PROVE  Promise!Next
<1>0. TypeOK
  BY DEF RInv, IInv, TypeInv
<1>1. /\ pc[c] = "idle" /\ pc'[c] \in {"save_config", "del_secrets"} /\ svc'[c] = s
      /\ \A d \in Clients \ {c} : pc'[d] = pc[d] /\ svc'[d] = svc[d]
      /\ steady' = [d \in Clients |-> steady[d] \ {s}]
      /\ UNCHANGED <<out, left, saved, unread>>
  BY <1>0 DEF BeginDelete, BeginSave, Goto, TypeOK
<1>2. s \notin Quiet' /\ \A r \in Services \ {s} : r \in Quiet' <=> r \in Quiet
  BY <1>1 DEF Quiet, Written, Writer, WriteSteps, SaveSteps, DeleteSteps
<1>3. Holds' = [Holds EXCEPT ![s] = Broken]
  BY <1>1, <1>2 DEF Holds
<1>4. Returned' = Returned
  BY <1>0, <1>1, ReturnedFrame
<1> QED
  BY <1>1, <1>3, <1>4 DEF Promise!Next, Promise!Unsettle

(* The end of a write, good or bad, or the death of a writer. *)
LEMMA EndWriteSettles ==
  ASSUME RInv, AtRest, NEW c \in Clients, pc[c] \in WriteSteps, pc'[c] = "idle",
         \A d \in Clients \ {c} : pc'[d] = pc[d] /\ svc'[d] = svc[d] /\ out'[d] = out[d],
         \A r \in Services \ {svc[c]} : left'[r] = left[r] /\ saved'[r] = saved[r],
         saved'[svc[c]] \in Versions \union {NoFile},
         steady' = steady, unread' = unread
  PROVE  [Promise!Next]_<<Holds, steady, unread, Returned>>
<1> DEFINE s == svc[c]
           v == IF s \in Quiet' THEN saved'[s] ELSE Broken
<1>0. TypeOK /\ s \in Services /\ OneWriter
  BY DEF RInv, IInv, TypeInv, TypeOK
<1>1. s \notin Quiet
  BY DEF Quiet, Written, Writer
<1>2. \A r \in Services \ {s} : r \in Quiet' <=> r \in Quiet
  BY <1>0 DEF Quiet, Written, Writer, WriteSteps, SaveSteps, DeleteSteps
<1>3. Holds[s] = Broken /\ Holds' = [Holds EXCEPT ![s] = v]
  BY <1>0, <1>1, <1>2 DEF Holds
<1>4. Returned' = Returned
  BY <1>0, ReturnedFrame DEF WriteSteps, SaveSteps, DeleteSteps
<1>5. CASE s \in Quiet'
  BY <1>0, <1>3, <1>4, <1>5 DEF Promise!Next, Promise!Settle
<1>6. CASE s \notin Quiet'
  <2>1. Holds' = Holds
    BY <1>3, <1>6 DEF Holds
  <2> QED
    BY <1>4, <2>1
<1> QED
  BY <1>5, <1>6

LEMMA WriterSettles ==
  ASSUME RInv, AtRest, [Next]_vars, NEW c \in Clients, pc[c] \in WriteSteps, Step(c) \/ Crash(c)
  PROVE  [Promise!Next]_<<Holds, steady, unread, Returned>>
<1>0. TypeOK /\ TypeOK' /\ steady[c] = {} /\ unread[c] = {}
  BY TypeNext DEF RInv, IInv, TypeInv, AtRest
<1>1. /\ \A d \in Clients \ {c} : pc'[d] = pc[d] /\ svc'[d] = svc[d] /\ out'[d] = out[d]
      /\ \A r \in Services \ {svc[c]} : left'[r] = left[r] /\ saved'[r] = saved[r]
      /\ steady' = steady /\ unread' = unread /\ svc'[c] = svc[c]
      /\ pc'[c] = "idle" \/ (pc'[c] \in WriteSteps /\ UNCHANGED <<left, saved>>)
  <2> USE <1>0 DEF TypeOK, Goto, histVars, readHist, WriteSteps, SaveSteps, DeleteSteps, LoadSteps
  <2>1. CASE Crash(c)
    BY <2>1 DEF Crash, Exit, ReadOver
  <2>2. CASE Step(c)
    BY <2>2 DEF Step, SaveConfig, SaveDir, SaveTemp, SaveRename, SaveFails, DeleteOrphanConfig,
       DeleteOrphanConfigFails, DeleteSecrets, DeleteDir, DeleteConfig, DeleteFails, DeleteRefused,
       ListNames, ListNext, LoadConfig, LoadStat, LoadRead, ReadFails, ReadOver, Return, Ends, Exit
  <2> QED
    BY <2>1, <2>2
<1>2. CASE pc'[c] = "idle"
  <2>1. saved'[svc[c]] \in Versions \union {NoFile}
    BY <1>0 DEF TypeOK
  <2> QED
    BY <1>1, <1>2, <2>1, EndWriteSettles
<1>3. CASE pc'[c] \in WriteSteps /\ UNCHANGED <<left, saved>>
  <2>1. \A s \in Services : Written(s)' <=> Written(s)
    BY <1>1, <1>3 DEF Written, Writer
  <2>2. Holds' = Holds
    BY <1>3, <2>1, HoldsFrame
  <2>3. Returned' = Returned
    BY <1>0, <1>1, <1>3, ReturnedFrame DEF WriteSteps, SaveSteps, DeleteSteps
  <2> QED
    BY <1>1, <2>2, <2>3
<1> QED
  BY <1>1, <1>2, <1>3

(* A process that reads, or begins to, writes nothing. *)
LEMMA ReaderHolds ==
  ASSUME NEW c \in Clients, pc[c] \notin WriteSteps, pc'[c] \notin WriteSteps,
         \A d \in Clients \ {c} : pc'[d] = pc[d] /\ svc'[d] = svc[d],
         UNCHANGED <<left, saved>>
  PROVE  Holds' = Holds
<1>1. \A s \in Services : Written(s)' <=> Written(s)
  BY DEF Written, Writer
<1> QED
  BY <1>1, HoldsFrame

LEMMA BeginReads ==
  ASSUME RInv, AtRest, NEW c \in Clients,
         BeginList(c) \/ \E s \in Services : BeginLoad(c, s)
  PROVE  Promise!Next
<1>0. TypeOK
  BY DEF RInv, IInv, TypeInv
<1>1. PICK names \in SUBSET Quiet :
        /\ pc[c] = "idle" /\ pc'[c] \in {"load_config", "list_names"}
        /\ \A d \in Clients \ {c} : pc'[d] = pc[d] /\ svc'[d] = svc[d] /\ out'[d] = out[d]
        /\ steady' = [steady EXCEPT ![c] = names]
        /\ UNCHANGED <<left, saved, unread>>
  BY <1>0 DEF BeginList, BeginLoad, Goto, TypeOK
<1>2. Holds' = Holds
  BY <1>1, ReaderHolds DEF WriteSteps, SaveSteps, DeleteSteps
<1>3. Returned' = Returned
  BY <1>0, <1>1, ReturnedFrame
<1>4. steady[c] = {} /\ unread[c] = {} /\ names \subseteq Promise!Settled /\ names \in SUBSET Services
  BY <1>0, <1>1, FileMarks DEF AtRest, Promise!Settled, Holds, Quiet, TypeOK, FileMarks
<1> QED
  BY <1>1, <1>2, <1>3, <1>4 DEF Promise!Next, Promise!BeginRead

(* What is handed out is what the register tells. *)
LEMMA ReaderFinishes ==
  ASSUME RInv, RInv', NEW c \in Clients, pc[c] # "returned", pc'[c] = "returned",
         \A d \in Clients \ {c} : pc'[d] = pc[d] /\ out'[d] = out[d],
         UNCHANGED <<left, saved, steady, unread>>, Holds' = Holds
  PROVE  Promise!Next
<1>0. TypeOK /\ TypeOK'
  BY DEF RInv, IInv, TypeInv
<1>1. Returned' = [Returned EXCEPT ![c] = out'[c]]
  BY DEF Returned
<1>2. ASSUME NEW s \in steady[c]
      PROVE  {e \in out'[c] : e[1] = s} = Promise!Told(c, s)
  <2>1. s \in Services /\ Holds[s] = saved[s]
    BY <1>0, <1>2 DEF RInv, SteadyQuiet, Holds, Quiet, TypeOK
  <2>2. Right(c, s)'
    BY <1>2 DEF RInv, Reads
  <2> QED
    BY <2>1, <2>2 DEF Promise!Told, Promise!Entry, Right, Nothing
<1>3. out'[c] \in SUBSET (Services \X Versions \X Versions)
  BY <1>0 DEF TypeOK
<1> QED
  BY <1>1, <1>2, <1>3 DEF Promise!Next, Promise!FinishRead

LEMMA ReaderReads ==
  ASSUME RInv, RInv', NEW c \in Clients, pc[c] \notin WriteSteps, Step(c), ~ReadFails(c), pc[c] # "returned"
  PROVE  [Promise!Next]_<<Holds, steady, unread, Returned>>
<1>0. TypeOK /\ TypeOK'
  BY DEF RInv, IInv, TypeInv
<1>1. /\ \A d \in Clients \ {c} : pc'[d] = pc[d] /\ svc'[d] = svc[d] /\ out'[d] = out[d]
      /\ UNCHANGED <<left, saved, steady, unread>> /\ pc'[c] \notin WriteSteps
  <2> USE <1>0 DEF TypeOK, Goto, histVars, readHist, WriteSteps, SaveSteps, DeleteSteps
  <2> QED
    BY DEF Step, SaveConfig, SaveDir, SaveTemp, SaveRename, SaveFails, DeleteOrphanConfig,
       DeleteOrphanConfigFails, DeleteSecrets, DeleteDir, DeleteConfig, DeleteFails, DeleteRefused,
       ListNames, ListNext, LoadConfig, LoadStat, LoadRead, Return, LoadDone, AfterRefusal, AfterLoad
<1>2. Holds' = Holds
  BY <1>1, ReaderHolds
<1>3. CASE pc'[c] # "returned"
  BY <1>0, <1>1, <1>2, <1>3, ReturnedFrame
<1>4. CASE pc'[c] = "returned"
  BY <1>0, <1>1, <1>2, <1>4, ReaderFinishes
<1> QED
  BY <1>3, <1>4

(* A failed read ends a Load, and a List's ReadDir; any other one of a     *)
(* List's it only passes over.                                             *)
LEMMA ReadFailsMisses ==
  ASSUME RInv, RInv', NEW c \in Clients, pc[c] \notin WriteSteps, ReadFails(c)
  PROVE  Promise!Next
<1>0. TypeOK /\ TypeOK'
  BY DEF RInv, IInv, TypeInv
<1>1. /\ \A d \in Clients \ {c} : pc'[d] = pc[d] /\ svc'[d] = svc[d] /\ out'[d] = out[d]
      /\ UNCHANGED <<left, saved>> /\ pc'[c] \notin WriteSteps /\ svc[c] \in Services
      /\ pc[c] # "returned" /\ pc'[c] # "returned"
  BY <1>0 DEF ReadFails, Exit, LoadDone, AfterRefusal, AfterLoad, Goto, TypeOK, LoadSteps, WriteSteps,
     SaveSteps, DeleteSteps
<1>2. Holds' = Holds
  BY <1>1, ReaderHolds
<1>3. Returned' = Returned /\ Returned[c] = {}
  BY <1>0, <1>1, ReturnedFrame DEF Returned
<1>4. CASE ReadOver(c)
  <2>1. Returned' = [Returned EXCEPT ![c] = {}]
    BY <1>3 DEF Returned
  <2> QED
    BY <1>2, <1>4, <2>1 DEF ReadOver, Promise!Next, Promise!EndRead
<1>5. CASE unread' = [unread EXCEPT ![c] = @ \union {svc[c]}] /\ steady' = steady
  BY <1>1, <1>2, <1>3, <1>5 DEF Promise!Next, Promise!Miss
<1> QED
  BY <1>4, <1>5 DEF ReadFails

LEMMA EndReads ==
  ASSUME RInv, NEW c \in Clients, pc[c] \notin WriteSteps, Return(c) \/ Crash(c)
  PROVE  Promise!Next
<1>0. TypeOK
  BY DEF RInv, IInv, TypeInv
<1>1. /\ pc'[c] = "idle" /\ ReadOver(c)
      /\ \A d \in Clients \ {c} : pc'[d] = pc[d] /\ svc'[d] = svc[d] /\ out'[d] = out[d]
      /\ UNCHANGED <<left, saved>>
  BY <1>0 DEF Return, Crash, Exit, Goto, HowCut, TypeOK, WriteSteps, SaveSteps, DeleteSteps
<1>2. Holds' = Holds
  BY <1>1, ReaderHolds DEF WriteSteps, SaveSteps, DeleteSteps
<1>3. Returned' = [Returned EXCEPT ![c] = {}]
  BY <1>1 DEF Returned
<1> QED
  BY <1>1, <1>2, <1>3 DEF ReadOver, Promise!Next, Promise!EndRead

(* The two files, the directory and the temporary file of a service, read  *)
(* one at a time while others write, are to their readers one register of  *)
(* the service, safe in Lamport's sense: every step of the store begins,   *)
(* ends or is inside one of the register's reads and writes.               *)
THEOREM StoreIsSafeRegister == Spec => ReadsSafely
<1>1. Init => Promise!Init
  <2> SUFFICES ASSUME Init PROVE Promise!Init
    OBVIOUS
  <2>1. Holds \in [Services -> Versions \union {NoFile, Broken}]
    BY DEF Init, Holds
  <2>2. /\ Returned = [c \in Clients |-> {}]
        /\ steady = [c \in Clients |-> {}] /\ unread = [c \in Clients |-> {}]
    BY DEF Init, Returned
  <2> QED
    BY <2>1, <2>2 DEF Promise!Init
<1>2. ASSUME RInv, RInv', AtRest, [Next]_vars PROVE [Promise!Next]_<<Holds, steady, unread, Returned>>
  <2>1. ASSUME NEW c \in Clients, Begin(c) PROVE Promise!Next
    BY <1>2, <2>1, BeginWriteUnsettles, BeginReads DEF Begin
  <2>2. ASSUME NEW c \in Clients, Step(c) \/ Crash(c), pc[c] \in WriteSteps
        PROVE  [Promise!Next]_<<Holds, steady, unread, Returned>>
    BY <1>2, <2>2, WriterSettles
  <2>3. ASSUME NEW c \in Clients, Step(c) \/ Crash(c), pc[c] \notin WriteSteps
        PROVE  [Promise!Next]_<<Holds, steady, unread, Returned>>
    <3>1. pc[c] = "returned" /\ Step(c) => Return(c)
      BY DEF Step, SaveConfig, SaveDir, SaveTemp, SaveRename, SaveFails, DeleteOrphanConfig,
         DeleteOrphanConfigFails, DeleteSecrets, DeleteDir, DeleteConfig, DeleteFails, DeleteRefused,
         ListNames, ListNext, LoadConfig, LoadStat, LoadRead, ReadFails, LoadSteps, DeleteSteps
    <3> QED
      BY <1>2, <2>3, <3>1, ReaderReads, ReadFailsMisses, EndReads
  <2>4. CASE UNCHANGED vars
    BY <2>4 DEF vars, callVars, histVars, readHist, Holds, Returned, Quiet, Written, Writer
  <2> QED
    BY <1>2, <2>1, <2>2, <2>3, <2>4 DEF Next
<1>3. RInv /\ AtRest /\ [Next]_vars => AtRest'
  BY AtRestNext DEF RInv
<1>4. RInv /\ RInv' /\ AtRest /\ [Next]_vars => [Promise!Next]_<<Holds, steady, unread, Returned>>
  BY <1>2
<1> QED
  BY <1>1, <1>3, <1>4, AtRestInit, ReaderInvariant, PTL DEF Spec, ReadsSafely, Promise!Spec
=============================================================================
