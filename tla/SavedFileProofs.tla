--------------------------- MODULE SavedFileProofs ---------------------------
(***************************************************************************)
(* Proofs about SavedFile: whatever crashes, fails or loses power, the     *)
(* file is whole; a save writes what is in memory; and what is not in the  *)
(* file is about to be saved, or its save has failed.                      *)
(***************************************************************************)
EXTENDS SavedFile, TLAPS

\* What keeps the file whole: it takes the place of the old one only once it is
\* synced, and the temporary file that is then renamed is this save's.
Good(s) ==
    /\ s \in State
    /\ s.save_timer => s.pc = "idle"
    /\ s.pc # "off" => s.mem # Absent
    /\ s.pc = "opened" => s.temp = Torn
    /\ s.pc = "written" => s.temp \in {Torn, s.mem} /\ s.temp_synced
    /\ s.file_synced
    /\ s.file = Torn \/ s.disk = Torn => s.damaged
    /\ s.pc \in {"idle", "off"} /\ s.mem \notin {Absent, s.file, s.loaded} =>
          s.failed \/ (s.pc = "idle" /\ s.save_timer)

IInv == Good(f)

\* The numbers of contents are neither of the two marks, and no content has a
\* number beyond the newest.
LEMMA ContentsAreNumbers ==
    /\ Contents \subseteq 0..MaxContents
    /\ Absent \in 0..MaxContents /\ Absent \notin Contents /\ Torn \notin Contents
    /\ Absent # Torn
    /\ \A n \in 0..MaxContents : n < MaxContents =>
          n + 1 \in Contents /\ n + 1 \in 0..MaxContents
BY MaxContentsAssumption DEF Contents, Absent, Torn

\* The invariant implies the three properties of states.
LEMMA GoodImplies == IInv => TypeOK /\ AlwaysWhole /\ UnsavedIsScheduled
BY DEF IInv, Good, TypeOK, AlwaysWhole, UnsavedIsScheduled

\* At first there is nothing at all.
LEMMA InitGood == Init => IInv
BY MaxContentsAssumption, ContentsAreNumbers DEF Init, IInv, Good, State

\* Wherever purple_util_write_data_to_file_absolute begins to save, it leaves a
\* good state behind, if only the timer was taken back before.
LEMMA SaveBegunGood ==
    ASSUME NEW s, Good(s), s.pc = "idle", NEW t \in SaveBegun(s)
    PROVE  Good(t) /\ t.file = s.file /\ t.mem = s.mem
<1> DEFINE u == [s EXCEPT !.save_timer = FALSE, !.failed = FALSE]
<1>1. CASE t = [u EXCEPT !.pc = "opened", !.temp = Torn, !.temp_synced = FALSE]
  BY <1>1 DEF Good, State
<1>2. CASE t = SaveFailed(u)
  BY <1>2 DEF Good, State, SaveFailed, Returned
<1>3. CASE t = SaveFailed([u EXCEPT !.temp = Absent])
  BY <1>3, ZenonT(60) DEF Good, State, SaveFailed, Returned
<1> QED BY <1>1, <1>2, <1>3 DEF SaveBegun

\* Each step of the program keeps the invariant.
LEMMA LoadGood == ASSUME IInv, Load PROVE IInv'
<1>1. ASSUME f.file \in Contents, NEW scheduled \in BOOLEAN,
             f' = [f EXCEPT !.pc = "idle", !.quitting = FALSE, !.failed = FALSE,
                            !.mem = f.file, !.loaded = f.file,
                            !.save_timer = scheduled]
      PROVE  IInv'
  BY <1>1, ContentsAreNumbers DEF IInv, Good, State
<1>2. CASE f.last < MaxContents /\
           f' = [f EXCEPT !.pc = "idle", !.quitting = FALSE, !.failed = FALSE,
                          !.mem = f.last + 1, !.loaded = f.last + 1,
                          !.last = @ + 1, !.save_timer = FALSE]
  <2>1. f.last + 1 \in Contents /\ f.last + 1 \in 0..MaxContents
    BY <1>2, ContentsAreNumbers DEF IInv, Good, State
  <2> QED BY <1>2, <2>1, ContentsAreNumbers DEF IInv, Good, State
<1> QED BY <1>1, <1>2 DEF Load

LEMMA ChangeGood == ASSUME IInv, Change PROVE IInv'
BY ContentsAreNumbers DEF IInv, Good, State, Change

LEMMA SaveTimerGood == ASSUME IInv, SaveTimer PROVE IInv'
BY SaveBegunGood DEF IInv, SaveTimer

LEMMA QuitGood == ASSUME IInv, Quit PROVE IInv'
<1>1. f.pc = "idle"
  BY DEF Quit
<1>2. CASE f.save_timer
  <2>1. Good([f EXCEPT !.quitting = TRUE])
    BY ZenonT(60) DEF IInv, Good, State
  <2>2. [f EXCEPT !.quitting = TRUE].pc = "idle"
    BY <1>1, ZenonT(60) DEF IInv, Good, State
  <2> QED BY <1>2, <2>1, <2>2, SaveBegunGood DEF Quit, IInv
<1>3. CASE ~f.save_timer
  BY <1>3, ZenonT(60) DEF IInv, Good, State, Quit
<1> QED BY <1>2, <1>3

LEMMA WriteGood == ASSUME IInv, Write PROVE IInv'
<1>1. f.pc = "opened"
  BY DEF Write
<1>2. CASE f' = [f EXCEPT !.pc = "written", !.temp = f.mem, !.temp_synced = TRUE]
  BY <1>1, <1>2 DEF IInv, Good, State
<1>3. CASE f' = [f EXCEPT !.pc = "written", !.temp_synced = TRUE]
  BY <1>1, <1>3 DEF IInv, Good, State
<1>4. CASE f' = SaveFailed(f)
  BY <1>1, <1>4 DEF IInv, Good, State, SaveFailed, Returned
<1> QED BY <1>2, <1>3, <1>4 DEF Write

LEMMA RenameGood == ASSUME IInv, Rename PROVE IInv'
<1>1. f.pc = "written"
  BY DEF Rename
<1>2. CASE /\ f.temp # Torn
           /\ f' = Returned([f EXCEPT !.file = f.temp, !.temp = Absent,
                                      !.file_synced = f.temp_synced])
  <2>1. f.temp = f.mem /\ f.temp_synced
    BY <1>1, <1>2 DEF IInv, Good
  <2> QED BY <1>1, <1>2, <2>1 DEF IInv, Good, State, Returned
<1>3. CASE f' = SaveFailed(f)
  BY <1>1, <1>3 DEF IInv, Good, State, SaveFailed, Returned
<1> QED BY <1>2, <1>3 DEF Rename

\* And so does what happens to it.
LEMMA CrashGood == ASSUME IInv, Crash PROVE IInv'
BY ContentsAreNumbers DEF IInv, Good, State, Crash

LEMMA SettleGood == ASSUME IInv, Settle PROVE IInv'
BY ContentsAreNumbers DEF IInv, Good, State, Settle

LEMMA PowerFailsGood == ASSUME IInv, PowerFails PROVE IInv'
<1> DEFINE temp == IF f.temp_synced THEN f.temp ELSE Torn
<1>1. f \in State /\ f.file_synced /\ temp \in Contents \cup {Absent, Torn}
  BY DEF IInv, Good, State
<1>2. PICK file \in {IF f.file_synced THEN f.file ELSE Torn, f.disk} :
         f' = [f EXCEPT !.pc = "off", !.mem = Absent, !.loaded = Absent,
                        !.save_timer = FALSE, !.file = file, !.disk = file,
                        !.file_synced = TRUE, !.temp_synced = TRUE,
                        !.temp = temp]
  BY <1>1 DEF PowerFails, State
<1> HIDE DEF temp
<1>3. file \in {f.file, f.disk}
  BY <1>1
<1>4. f' \in State
  BY <1>1, <1>2, <1>3 DEF State
<1>5. /\ f'.file = file /\ f'.disk = file /\ f'.damaged = f.damaged
      /\ f'.pc = "off" /\ f'.mem = Absent /\ ~f'.save_timer /\ f'.file_synced
  BY <1>1, <1>2 DEF State
<1> QED BY <1>3, <1>4, <1>5 DEF IInv, Good

LEMMA DamageGood == ASSUME IInv, Damage PROVE IInv'
BY ContentsAreNumbers DEF IInv, Good, State, Damage

LEMMA NextGood == ASSUME IInv, [Next]_f PROVE IInv'
<1>1. CASE UNCHANGED f
  BY <1>1 DEF IInv
<1>2. CASE Next
  BY <1>2, LoadGood, ChangeGood, SaveTimerGood, QuitGood, WriteGood, RenameGood,
     CrashGood, SettleGood, PowerFailsGood, DamageGood DEF Next
<1> QED BY <1>1, <1>2

\* The only step after which there is another file and a program that goes on
\* is Rename.
LEMMA OnlyRenameReplaces ==
    ASSUME IInv, Next, f'.mem # Absent, f'.file # f.file
    PROVE  f'.file = f.mem
<1>1. CASE Load \/ Change \/ Crash \/ Settle \/ PowerFails \/ Damage \/ Write
  BY <1>1 DEF IInv, Good, State, Load, Change, Crash, Settle, PowerFails, Damage,
              Write, SaveFailed, Returned
<1>2. CASE SaveTimer
  BY <1>2, SaveBegunGood DEF IInv, SaveTimer
<1>3. CASE Quit
  BY <1>3 DEF IInv, Good, State, Quit, SaveBegun, SaveFailed, Returned
<1>4. CASE Rename
  BY <1>4 DEF IInv, Good, State, Rename, SaveFailed, Returned
<1> QED BY <1>1, <1>2, <1>3, <1>4 DEF Next

-----------------------------------------------------------------------------
(* The theorems.                                                           *)

\* The invariant holds in every reachable state.
LEMMA Inductive == Spec => []IInv
BY InitGood, NextGood, PTL DEF Spec

\* The state keeps its type, and account.c's save_timer runs only in a program
\* that has loaded its accounts.
THEOREM TypeCorrect == Spec => []TypeOK
BY Inductive, GoodImplies, PTL

\* util.c syncs and measures the temporary file before it renames it: no crash,
\* power failure or error leaves a file that is not whole.
THEOREM FileIsWhole == Spec => []AlwaysWhole
BY Inductive, GoodImplies, PTL

\* What schedule_accounts_save was called for is in the file, about to be saved,
\* or its save failed; also when purple_accounts_uninit has ended the program.
THEOREM UnsavedScheduled == Spec => []UnsavedIsScheduled
BY Inductive, GoodImplies, PTL

\* A save replaces the file by what is in memory, never by an older temporary
\* file.
THEOREM SavesAreCurrent == Spec => SaveIsCurrent
<1>1. IInv /\ [Next]_f => [f'.mem # Absent /\ f'.file # f.file => f'.file = f.mem]_f
  BY OnlyRenameReplaces
<1> QED BY <1>1, Inductive, PTL DEF Spec, SaveIsCurrent
=============================================================================
