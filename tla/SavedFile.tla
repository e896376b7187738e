----------------------------- MODULE SavedFile -----------------------------
(***************************************************************************)
(* How libpurple keeps accounts.xml, blist.xml, status.xml, prefs.xml,     *)
(* pounces.xml and smileys.xml: what is in memory is saved by a timer five *)
(* seconds after a change (account.c, and alike in the others), through a  *)
(* temporary file that util.c syncs, measures and renames.  The program    *)
(* may crash between any two system calls, the power fail, and each call   *)
(* return an error.                                                        *)
(*                                                                         *)
(* One file is modelled; contents are numbered in the order they were in   *)
(* memory.  Slips as in the other modules.                                 *)
(***************************************************************************)
EXTENDS Integers

CONSTANT MaxContents    \* a bound on the contents there ever are

ASSUME MaxContentsAssumption == MaxContents \in Nat \ {0}

Absent == 0             \* no file, or nothing in memory
Torn   == -1            \* a file that is not whole

VARIABLE f

Contents == 1..MaxContents

State == [
    pc   : {"off", "idle", "opened", "written"},
    mem  : Contents \cup {Absent},
    loaded : Contents \cup {Absent},    \* what was in memory after loading
    last : 0..MaxContents,              \* the newest content
    save_timer : BOOLEAN,
    quitting   : BOOLEAN,
    file : Contents \cup {Absent, Torn},
    file_synced : BOOLEAN,              \* its data has reached the disk
    disk : Contents \cup {Absent, Torn},    \* what the directory entry on disk
                                            \* stands for
    temp : Contents \cup {Absent, Torn},    \* "accounts.xml.save"
    temp_synced : BOOLEAN,
    failed  : BOOLEAN,      \* history: the last save failed
    damaged : BOOLEAN ]     \* history: something else broke the file

Init == f = [pc |-> "off", mem |-> Absent, loaded |-> Absent, last |-> 0,
             save_timer |-> FALSE, quitting |-> FALSE,
             file |-> Absent, file_synced |-> TRUE, disk |-> Absent,
             temp |-> Absent, temp_synced |-> TRUE,
             failed |-> FALSE, damaged |-> FALSE]

-----------------------------------------------------------------------------
(* The program.                                                            *)

\* Where purple_util_write_data_to_file returns to.
Returned(s) == [s EXCEPT !.pc = IF s.quitting THEN "off" ELSE "idle"]

SaveFailed(s) == Returned([s EXCEPT !.failed = TRUE])

\* load_accounts: everything in the file, which may already schedule a save;
\* nothing, if there is no file or it can be read or parsed no more; or, in
\* blist.c, what belongs to the accounts there are.
Load ==
    /\ f.pc = "off"
    /\ LET s == [f EXCEPT !.pc = "idle", !.quitting = FALSE, !.failed = FALSE]
       IN  \/ /\ f.file \in Contents
              /\ \E scheduled \in BOOLEAN :
                    f' = [s EXCEPT !.mem = f.file, !.loaded = f.file,
                                   !.save_timer = scheduled]
           \/ /\ f.last < MaxContents
              /\ f' = [s EXCEPT !.mem = f.last + 1, !.loaded = f.last + 1,
                                !.last = @ + 1, !.save_timer = FALSE]

\* A setter, and schedule_accounts_save.
Change ==
    /\ f.pc = "idle" /\ f.last < MaxContents
    /\ f' = [f EXCEPT !.mem = f.last + 1, !.last = @ + 1, !.save_timer = TRUE]

\* Slip: when the temporary file cannot be opened, whatever is there is used.
SaveBegunAnyway(s) ==
    LET t == [s EXCEPT !.save_timer = FALSE, !.failed = FALSE] IN
    {[t EXCEPT !.pc = "opened", !.temp = Torn, !.temp_synced = FALSE],
     [t EXCEPT !.pc = "written"]}

\* Slip: a temporary file left over from a crash is taken for a lock.
SaveBegunIfFree(s) ==
    LET t == [s EXCEPT !.save_timer = FALSE, !.failed = FALSE] IN
    IF s.temp # Absent THEN {Returned(t)}
    ELSE {[t EXCEPT !.pc = "opened", !.temp = Torn, !.temp_synced = FALSE],
          SaveFailed(t)}

\* purple_util_write_data_to_file_absolute, to fopen: an old temporary file is
\* removed, if it can be, and in any case emptied.
SaveBegun(s) ==
    LET t == [s EXCEPT !.save_timer = FALSE, !.failed = FALSE] IN
    {[t EXCEPT !.pc = "opened", !.temp = Torn, !.temp_synced = FALSE],
     SaveFailed(t), SaveFailed([t EXCEPT !.temp = Absent])}

\* save_cb
SaveTimer ==
    /\ f.pc = "idle" /\ f.save_timer
    /\ f' \in SaveBegun(f)

\* Slip: the timer is forgotten, and left to run when there is nothing to save.
QuitForgetful ==
    /\ f.pc = "idle"
    /\ f' = [f EXCEPT !.pc = "off", !.quitting = TRUE]

\* Slip: the timer is removed, and that is all.
QuitUnsaved ==
    /\ f.pc = "idle"
    /\ f' = [f EXCEPT !.pc = "off", !.quitting = TRUE, !.save_timer = FALSE]

\* purple_accounts_uninit
Quit ==
    /\ f.pc = "idle"
    /\ IF f.save_timer THEN f' \in SaveBegun([f EXCEPT !.quitting = TRUE])
                       ELSE f' = [f EXCEPT !.pc = "off", !.quitting = TRUE]

\* Slip: the data is not synced.
WriteUnsynced ==
    /\ f.pc = "opened"
    /\ \/ f' = [f EXCEPT !.pc = "written", !.temp = f.mem]
       \/ f' = [f EXCEPT !.pc = "written"]
       \/ f' = SaveFailed(f)

\* fwrite, fflush, fsync, fclose: the file is whole, or too short, or an error
\* is reported.
Write ==
    /\ f.pc = "opened"
    /\ \/ f' = [f EXCEPT !.pc = "written", !.temp = f.mem, !.temp_synced = TRUE]
       \/ f' = [f EXCEPT !.pc = "written", !.temp_synced = TRUE]
       \/ f' = SaveFailed(f)

\* The sizes are compared, and the file gets its name; where that fails, it is
\* only logged.
Rename ==
    /\ f.pc = "written"
    /\ \/ /\ f.temp # Torn
          /\ f' = Returned([f EXCEPT !.file = f.temp, !.temp = Absent,
                                     !.file_synced = f.temp_synced])
       \/ f' = SaveFailed(f)

-----------------------------------------------------------------------------
(* What happens to the program and its files.                              *)

Crash ==
    /\ f.pc # "off"
    /\ f' = [f EXCEPT !.pc = "off", !.mem = Absent, !.loaded = Absent,
                      !.save_timer = FALSE]

\* The operating system writes its directories to the disk.
Settle == f' = [f EXCEPT !.disk = f.file, !.file_synced = TRUE,
                         !.damaged = @ /\ f.file = Torn]

\* A power failure: data not synced may be gone, and a rename undone.
PowerFails ==
    \E file \in {IF f.file_synced THEN f.file ELSE Torn, f.disk} :
        f' = [f EXCEPT !.pc = "off", !.mem = Absent, !.loaded = Absent,
                       !.save_timer = FALSE, !.file = file, !.disk = file,
                       !.file_synced = TRUE, !.temp_synced = TRUE,
                       !.temp = IF f.temp_synced THEN @ ELSE Torn]

\* The user edits the file, badly.
Damage ==
    /\ f.pc = "off" /\ f.file # Absent
    /\ f' = [f EXCEPT !.file = Torn, !.disk = Torn, !.file_synced = TRUE,
                      !.damaged = TRUE, !.mem = Absent, !.loaded = Absent]

Next ==
    \/ Load \/ Change \/ SaveTimer \/ Quit \/ Write \/ Rename
    \/ Crash \/ Settle \/ PowerFails \/ Damage

\* The timer is dispatched, and system calls return.
Fairness == WF_f(SaveTimer) /\ WF_f(Write) /\ WF_f(Rename)

Spec == Init /\ [][Next]_f /\ Fairness

-----------------------------------------------------------------------------
(* Properties.                                                             *)

\* Type invariant; the timer runs only in a program that has something loaded.
TypeOK == /\ f \in State
          /\ f.save_timer => f.pc = "idle" /\ f.mem # Absent

\* What a restart finds is a file that was saved whole, whenever the program
\* crashed or the power failed, and whatever calls returned errors.
AlwaysWhole == f.file = Torn \/ f.disk = Torn => f.damaged

\* A save puts what is in memory in the place of the file, never what an earlier
\* save left behind.
SaveIsCurrent ==
    [][f'.mem # Absent /\ f'.file # f.file => f'.file = f.mem]_f

\* A change is not in the file only while the timer runs, or since a save
\* failed: that is all a crash can lose, and a program that quits loses nothing.
UnsavedIsScheduled ==
    f.pc \in {"idle", "off"} /\ f.mem \notin {Absent, f.file, f.loaded} =>
        f.failed \/ (f.pc = "idle" /\ f.save_timer)

\* A change gets saved, unless the program ends or the save fails.
ChangesAreSaved ==
    (f.pc = "idle" /\ f.save_timer) ~>
        (f.pc = "idle" /\ f.file = f.mem) \/ f.failed \/ f.pc = "off"
=============================================================================
