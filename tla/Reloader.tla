------------------------------ MODULE Reloader ------------------------------
(***************************************************************************)
(* The configuration file and its reloader: main.go loads the file, app.New*)
(* makes the Reloader of internal/config/reloader.go, whose goroutine      *)
(* polls the file's modification time and swaps the configuration.         *)
(*                                                                         *)
(* The file is a sequence of saves.  The number of a save stands for its   *)
(* content and for its modification time: two saves never have the same    *)
(* time, and times are only compared for equality.  Writing a file in      *)
(* several pieces is several saves, the unfinished ones mostly invalid.    *)
(* The file may be moved away and back, which leaves its time alone.       *)
(***************************************************************************)
EXTENDS Naturals

CONSTANT MaxSaves       \* bound on the saves of a behaviour

ASSUME MaxSavesAssumption == MaxSaves \in Nat \ {0}

VARIABLES
    file,       \* the last save: its number and whether Load accepts it
    there,      \* the path names the file
    pc,         \* main until the reloader runs, then its goroutine
    cfg,        \* Reloader.cfg, as the save it was read from
    modTime,    \* Reloader.modTime, 0 is the zero time
    seen,       \* info.ModTime() of the check under way
    newCfg,     \* what Load returned in the check under way
    done        \* Reloader.done is closed

checkVars == <<seen, newCfg>>
vars == <<file, there, pc, cfg, modTime, checkVars, done>>

Version == [save : 0..MaxSaves, valid : BOOLEAN]

NoVersion == [save |-> 0, valid |-> FALSE]

Init ==
    /\ file \in [save : {1}, valid : BOOLEAN]
    /\ there \in BOOLEAN
    /\ pc = "load"
    /\ cfg = NoVersion /\ modTime = 0
    /\ seen = 0 /\ newCfg = NoVersion
    /\ done = FALSE

-----------------------------------------------------------------------------
(* Whoever edits the file *)

Save ==
    /\ file.save < MaxSaves
    /\ \E valid \in BOOLEAN : file' = [save |-> file.save + 1, valid |-> valid]
    /\ there' = TRUE
    /\ UNCHANGED <<pc, cfg, modTime, checkVars, done>>

MoveAwayOrBack ==
    /\ there' = ~there
    /\ UNCHANGED <<file, pc, cfg, modTime, checkVars, done>>

-----------------------------------------------------------------------------
(* Mutant: an unreadable file counts as an error, an invalid one does not. *)
LoadableUnchecked == there

(* Load reads the file, fills in the defaults and validates. *)
Loadable == there /\ file.valid

(* main ends the program when it cannot load the file. *)
LoadAtStart ==
    /\ pc = "load"
    /\ IF Loadable THEN cfg' = file /\ pc' = "stat"
                   ELSE pc' = "exit" /\ UNCHANGED cfg
    /\ UNCHANGED <<file, there, modTime, checkVars, done>>

(* Mutant: a missing file has no FileInfo to ask. *)
NewReloaderUnguarded ==
    /\ pc = "stat"
    /\ modTime' = IF there THEN file.save ELSE 0
    /\ pc' = IF there THEN "select" ELSE "panic"
    /\ UNCHANGED <<file, there, cfg, checkVars, done>>

(* The database is opened in between, then the file is looked at again. *)
NewReloader ==
    /\ pc = "stat"
    /\ modTime' = IF there THEN file.save ELSE 0
    /\ pc' = "select"
    /\ UNCHANGED <<file, there, cfg, checkVars, done>>

(* checkAndReload up to Load: a check that finds the file missing or       *)
(* unchanged leaves everything as it is.  select takes either case when    *)
(* both are ready, so a check may still follow Stop.                       *)
Stat ==
    /\ pc = "select"
    /\ there /\ file.save # modTime
    /\ seen' = file.save
    /\ pc' = "read"
    /\ UNCHANGED <<file, there, cfg, modTime, newCfg, done>>

(* Mutant: a failed load ends the goroutine. *)
ReadGivingUp ==
    /\ pc = "read"
    /\ IF Loadable THEN newCfg' = file /\ pc' = "swap"
                   ELSE pc' = "quit" /\ UNCHANGED newCfg
    /\ UNCHANGED <<file, there, cfg, modTime, seen, done>>

(* Load: the content it finds may be of a later save than the time seen. *)
Read ==
    /\ pc = "read"
    /\ IF Loadable THEN newCfg' = file /\ pc' = "swap"
                   ELSE pc' = "select" /\ UNCHANGED newCfg
    /\ UNCHANGED <<file, there, cfg, modTime, seen, done>>

(* Mutant: the time is asked for after the file has been loaded. *)
SwapStatLate ==
    /\ pc = "swap"
    /\ cfg' = newCfg /\ modTime' = file.save
    /\ pc' = "select"
    /\ UNCHANGED <<file, there, checkVars, done>>

(* Both fields under the lock that Get takes. *)
Swap ==
    /\ pc = "swap"
    /\ cfg' = newCfg /\ modTime' = seen
    /\ pc' = "select"
    /\ UNCHANGED <<file, there, checkVars, done>>

(* App.Shutdown calls Stop, once. *)
Stop ==
    /\ pc \in {"select", "read", "swap"} /\ ~done
    /\ done' = TRUE
    /\ UNCHANGED <<file, there, pc, cfg, modTime, checkVars>>

(* Mutant: the goroutine looks at done only when the file is up to date. *)
QuitUpToDate ==
    /\ pc = "select" /\ done /\ file.save = modTime
    /\ pc' = "quit"
    /\ UNCHANGED <<file, there, cfg, modTime, checkVars, done>>

Quit ==
    /\ pc = "select" /\ done
    /\ pc' = "quit"
    /\ UNCHANGED <<file, there, cfg, modTime, checkVars, done>>

Check == Stat \/ Read \/ Swap

Next ==
    \/ Save \/ MoveAwayOrBack
    \/ LoadAtStart \/ NewReloader
    \/ Check \/ Stop \/ Quit

(* The ticker goes on, and of the ready cases of a select each is chosen   *)
(* again and again.  Nobody need edit the file or stop the program.        *)
Spec ==
    /\ Init /\ [][Next]_vars
    /\ WF_vars(LoadAtStart \/ NewReloader)
    /\ WF_vars(Check)
    /\ SF_vars(Quit)

-----------------------------------------------------------------------------
(* The goroutine has been started. *)
Serving == pc \notin {"load", "stat", "exit"}

TypeOK ==
    /\ file \in Version /\ cfg \in Version /\ newCfg \in Version
    /\ modTime \in 0..MaxSaves /\ seen \in 0..MaxSaves
    /\ pc \in {"load", "stat", "select", "read", "swap", "quit", "exit"}
    /\ there \in BOOLEAN /\ done \in BOOLEAN

(* "validation failed, keeping current config" (reloader.go:74): what is   *)
(* served was a valid file once, however saves and checks interleave.      *)
ServedIsValid == pc \notin {"load", "exit"} => cfg.valid

(* A reload never keeps a time newer than the content it serves, even if   *)
(* the file is saved between the two looks a check takes at it: no later   *)
(* save hides behind that time.                                            *)
NoSaveHidden ==
    [][Serving /\ modTime' # modTime => modTime' <= cfg'.save]_vars

(* A valid file with a time the reloader has not kept is served before     *)
(* long, unless it is saved again, moved away or the program is stopping:  *)
(* failed loads in between do not matter.                                  *)
NoticedChange ==
    \A n \in 1..MaxSaves :
        Serving /\ ~done /\ there /\ file = [save |-> n, valid |-> TRUE] /\ n # modTime
            ~> cfg.save = n \/ file.save # n \/ ~there \/ done

(* Stop "terminates the watching goroutine" (reloader.go:57), whatever     *)
(* happens to the file.                                                    *)
StopEnds == done ~> pc = "quit"
=============================================================================
