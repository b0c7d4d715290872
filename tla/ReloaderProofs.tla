--------------------------- MODULE ReloaderProofs ---------------------------
(* That the reloader serves valid files only, and never keeps a time that  *)
(* hides a save, for any number of saves.                                  *)
EXTENDS Reloader, TLAPS

(* What a check in progress knows: the time it saw is no newer than the    *)
(* file, and what it loaded was valid and is no older than that time.      *)
CheckSound ==
    /\ pc = "read" => seen <= file.save
    /\ pc = "swap" => newCfg.valid /\ seen <= newCfg.save

ReloaderInv == TypeOK /\ ServedIsValid /\ CheckSound

LEMMA ReloaderInvInit == Init => ReloaderInv
<1> SUFFICES ASSUME Init PROVE ReloaderInv
    OBVIOUS
<1>1. 0 \in 0..MaxSaves /\ 1 \in 0..MaxSaves
    BY MaxSavesAssumption
<1>2. NoVersion \in Version
    BY <1>1 DEF Version, NoVersion
<1>3. file \in Version
    BY <1>1 DEF Init, Version
<1> QED
    BY <1>1, <1>2, <1>3 DEF Init, ReloaderInv, TypeOK, ServedIsValid, CheckSound

LEMMA ReloaderInvStep == ReloaderInv /\ [Next]_vars => ReloaderInv'
<1> SUFFICES ASSUME ReloaderInv, [Next]_vars
             PROVE  ReloaderInv'
    OBVIOUS
<1> USE MaxSavesAssumption DEF ReloaderInv, TypeOK, ServedIsValid, CheckSound, Version
<1>1. CASE Save
    <2>1. PICK valid \in BOOLEAN : file' = [save |-> file.save + 1, valid |-> valid]
        BY <1>1 DEF Save
    <2>2. file.save + 1 \in 0..MaxSaves
        BY <1>1 DEF Save
    <2>3. file' \in Version /\ file.save <= file'.save
        BY <2>1, <2>2
    <2> QED
        BY <1>1, <2>3 DEF Save, checkVars
<1>2. CASE MoveAwayOrBack
    BY <1>2 DEF MoveAwayOrBack, checkVars
<1>3. CASE LoadAtStart
    BY <1>3 DEF LoadAtStart, Loadable, checkVars
<1>4. CASE NewReloader
    BY <1>4 DEF NewReloader, checkVars
<1>5. CASE Stat
    BY <1>5 DEF Stat
<1>6. CASE Read
    BY <1>6 DEF Read, Loadable
<1>7. CASE Swap
    BY <1>7 DEF Swap, checkVars
<1>8. CASE Stop
    BY <1>8 DEF Stop, checkVars
<1>9. CASE Quit
    BY <1>9 DEF Quit, checkVars
<1>10. CASE UNCHANGED vars
    BY <1>10 DEF vars, checkVars
<1> QED
    BY <1>1, <1>2, <1>3, <1>4, <1>5, <1>6, <1>7, <1>8, <1>9, <1>10 DEF Next, Check

(* The reloader's variables stay in their types, whatever the file does.   *)
THEOREM ReloaderTypeCorrect == Spec => []TypeOK
<1>1. ReloaderInv => TypeOK
    BY DEF ReloaderInv
<1> QED
    BY <1>1, ReloaderInvInit, ReloaderInvStep, PTL DEF Spec

(* However saves and checks interleave, the configuration served was a     *)
(* valid file at the moment it was read.                                   *)
THEOREM OnlyValidServed == Spec => []ServedIsValid
<1>1. ReloaderInv => ServedIsValid
    BY DEF ReloaderInv
<1> QED
    BY <1>1, ReloaderInvInit, ReloaderInvStep, PTL DEF Spec

(* A file saved while it is being reloaded has a time the reloader has not *)
(* kept, so the next check finds it.                                       *)
THEOREM SavesAreNotHidden == Spec => NoSaveHidden
<1>1. ReloaderInv /\ [Next]_vars
        => [Serving /\ modTime' # modTime => modTime' <= cfg'.save]_vars
    <2> SUFFICES ASSUME ReloaderInv, Next, Serving, modTime' # modTime
                 PROVE  modTime' <= cfg'.save
        OBVIOUS
    <2>1. Swap
        BY DEF Next, Check, Save, MoveAwayOrBack, LoadAtStart, NewReloader,
               Stat, Read, Stop, Quit, Serving, checkVars
    <2> QED
        BY <2>1 DEF Swap, ReloaderInv, CheckSound
<1> QED
    BY <1>1, ReloaderInvInit, ReloaderInvStep, PTL DEF Spec, NoSaveHidden
=============================================================================
