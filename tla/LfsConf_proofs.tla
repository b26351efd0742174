--------------------------- MODULE LfsConf_proofs ---------------------------
(***************************************************************************)
(* Theorems about LfsConf: for any axes, files and data, and whichever     *)
(* calls into littlefs fail, saves that report success last, PITCH and     *)
(* ROLL load their own file, and failures are reported.                    *)
(*                                                                         *)
(* What is not yet on the flash belongs to the save in progress (Common);  *)
(* a save that lost data to a failing step has that reported (Durable      *)
(* needs Reported), and a load has read the file it was to read (Faithful).*)
(***************************************************************************)
EXTENDS LfsConf, TLAPS, SequenceTheorems

Contents == Seq(Int) \cup {None}

Common ==
  /\ files \in [Names -> Contents] /\ DOMAIN kept = Names
  /\ file \in Names /\ size \in Nat
  /\ result \in Int /\ ret \in Int
  /\ Saving => data \in Data
  /\ op \in {"none", "init_flashfs", "format_flashfs", "read_file", "save_file",
             "load_calibration", "save_calibration"}
  /\ pc = "format" => op = "format_flashfs"
  /\ pc = "own" => op = "load_calibration"
  /\ pc # "close" => pending = None
  /\ pending # None => Saving /\ pending = data

Excused == ~ByAxis /\ broke = "close"

(* Nothing failed, or what failed is overwritten. *)
Unbroken == broke \in {"none", "own"}

Reported ==
  /\ pc \in {"mount", "own", "open", "transfer", "format"} => Unbroken
  /\ pc = "close" => Unbroken \/ (broke = "step" /\ ByAxis /\ ret < 0)
  /\ pc = "unmount" => Unbroken \/ Excused \/ Final < 0
  /\ pc = "ready" => Unbroken \/ Excused \/ ret < 0

Durable ==
  /\ Saving /\ pc = "mount" /\ (ByAxis => axis \in Known) => kept[file] = None
  /\ Saving /\ pc \in {"open", "transfer", "close"} => kept[file] = None
  /\ Saving /\ pc \in {"mount", "open", "transfer", "close"} => goal = Over(data, files[file])
  /\ Saving /\ pc = "close" => pending = data \/ (ByAxis /\ ret < 0)
  /\ Saving /\ pc = "unmount" => Final < 0 \/ Excused \/ files[file] = goal
  /\ SaveIsDurable

HasRead == files[file] # None /\ out = Cut(files[file], size)

Faithful ==
  op = "load_calibration" =>
    /\ axis \in {AXIS_PITCH, AXIS_ROLL} => file = ConfigName[axis]
    /\ pc = "transfer" => files[file] # None
    /\ pc = "close" => files[file] # None /\ (ret < 0 \/ HasRead)
    /\ pc = "unmount" => Final < 0 \/ HasRead
    /\ pc = "ready" => ret < 0 \/ HasRead

IInv == Common /\ Reported /\ Durable /\ Faithful

-----------------------------------------------------------------------------
(* What is saved and what is read are sequences again. *)
LEMMA OverIsSeq ==
  ASSUME NEW new \in Seq(Int), NEW old \in Contents
  PROVE  Over(new, old) \in Seq(Int)
<1>1. CASE old = None
  BY <1>1 DEF Over
<1>2. CASE old \in Seq(Int)
  <2>1. SubSeq(old, Len(new) + 1, Len(old)) \in Seq(Int)
    BY <1>2, SubSeqProperties, LenProperties
  <2>2. QED
    BY <1>2, <2>1 DEF Over
<1>3. QED
  BY <1>1, <1>2 DEF Contents

LEMMA CutIsSeq ==
  ASSUME NEW content \in Seq(Int), NEW n \in Nat
  PROVE  Cut(content, n) \in Seq(Int) /\ Len(Cut(content, n)) \in Nat
<1>1. Len(content) \in Nat
  BY LenProperties
<1>2. (IF n < Len(content) THEN n ELSE Len(content)) \in 0 .. Len(content)
  BY <1>1
<1>3. QED
  BY <1>1, <1>2, SubSeqProperties, LenProperties DEF Cut

(* The open that creates a file does not change what a save leads to. *)
LEMMA OverCreated ==
  ASSUME NEW new \in Seq(Int)
  PROVE  Over(new, << >>) = Over(new, None)
<1>1. SubSeq(<< >>, Len(new) + 1, Len(<< >>)) = << >>
  BY SubSeqProperties, LenProperties, EmptySeq
<1>2. QED
  BY <1>1, DataAssumption DEF Over

-----------------------------------------------------------------------------
LEMMA Initially == Init => IInv
BY NamesAssumption, AxesAssumption
DEF Init, IInv, Common, Reported, Durable, Faithful, Contents, SaveIsDurable, NoFile,
    Saving, ByAxis, Excused, Unbroken

LEMMA ReportedKept == IInv /\ [Next]_vars => Reported'
<1> SUFFICES ASSUME IInv, [Next]_vars PROVE Reported'
  OBVIOUS
<1> USE DEF IInv, Common, Reported, Excused, Unbroken, Saving, ByAxis, Final, vars, flash, statics, args
<1>1. CASE init_flashfs
  BY <1>1 DEF init_flashfs, Start
<1>2. CASE format_flashfs
  BY <1>2 DEF format_flashfs
<1>3. CASE read_file
  BY <1>3 DEF read_file, Reads, Start
<1>4. CASE save_file
  BY <1>4 DEF save_file, Start
<1>5. CASE load_calibration
  BY <1>5 DEF load_calibration, Reads, Start
<1>6. CASE save_calibration
  BY <1>6 DEF save_calibration, Start
<1>7. CASE lfs_format
  BY <1>7 DEF lfs_format
<1>8. CASE lfs_mount
  BY <1>8 DEF lfs_mount, Goes, Fails, LFS_ERR, FS_ERR_NO_AXIS
<1>9. CASE lfs_file_opencfg
  BY <1>9, AxesAssumption DEF lfs_file_opencfg, Goes, Fails, LFS_ERR
<1>10. CASE lfs_file_read
  BY <1>10 DEF lfs_file_read, Transfers, TransferFails, LFS_ERR
<1>11. CASE lfs_file_write
  BY <1>11 DEF lfs_file_write, Transfers, TransferFails, LFS_ERR
<1>12. CASE lfs_file_close
  BY <1>12 DEF lfs_file_close, Closed, LFS_ERR
<1>13. CASE lfs_unmount
  BY <1>13 DEF lfs_unmount
<1>14. CASE PowerLoss
  BY <1>14 DEF PowerLoss
<1>15. CASE UNCHANGED vars
  BY <1>15
<1>16. CASE lfs_file_open
  BY <1>16 DEF lfs_file_open, LFS_ERR
<1>17. QED
  BY <1>16, <1>1, <1>2, <1>3, <1>4, <1>5, <1>6, <1>7, <1>8, <1>9, <1>10, <1>11, <1>12, <1>13, <1>14, <1>15 DEF Next

LEMMA NoFileIsName == NoFile \in Names
BY NamesAssumption, AxesAssumption DEF NoFile

LEMMA CommonKept == IInv /\ [Next]_vars => Common'
<1> SUFFICES ASSUME IInv, [Next]_vars PROVE Common'
  OBVIOUS
<1> USE DEF IInv, Common, Contents, Saving, ByAxis, Final, vars, flash, statics, args
<1>1. CASE init_flashfs
  BY <1>1, NoFileIsName DEF init_flashfs, Start, W25Q_ERR_BADID
<1>2. CASE format_flashfs
  BY <1>2, NoFileIsName DEF format_flashfs
<1>3. CASE read_file
  BY <1>3, DataAssumption DEF read_file, Reads, Start, FS_ERR_NO_INIT
<1>4. CASE save_file
  BY <1>4, DataAssumption, LenProperties DEF save_file, Start, FS_ERR_NO_INIT
<1>5. CASE load_calibration
  BY <1>5, DataAssumption, NamesAssumption, AxesAssumption, NoFileIsName DEF load_calibration, Reads, Start, FS_ERR_NO_INIT, LoadName
<1>6. CASE save_calibration
  BY <1>6, DataAssumption, NamesAssumption, NoFileIsName, LenProperties DEF save_calibration, Start, FS_ERR_NO_INIT
<1>7. CASE lfs_format
  BY <1>7 DEF lfs_format
<1>8. CASE lfs_mount
  BY <1>8 DEF lfs_mount, Goes, Fails, LFS_ERR, FS_ERR_NO_AXIS
<1>9. CASE lfs_file_opencfg
  <2>1. << >> \in Contents
    BY EmptySeq DEF Contents
  <2>2. files' \in [Names -> Contents]
    BY <1>9, <2>1 DEF lfs_file_opencfg
  <2>3. QED
    BY <1>9, <2>2 DEF lfs_file_opencfg, Goes, Fails, LFS_ERR
<1>10. CASE lfs_file_read
  BY <1>10, CutIsSeq DEF lfs_file_read, Transfers, TransferFails, LFS_ERR
<1>11. CASE lfs_file_write
  BY <1>11, DataAssumption, LenProperties DEF lfs_file_write, Transfers, TransferFails, LFS_ERR
<1>12. CASE lfs_file_close
  BY <1>12, DataAssumption, OverIsSeq DEF lfs_file_close, Closed, Commit, LFS_ERR
<1>13. CASE lfs_unmount
  BY <1>13 DEF lfs_unmount
<1>14. CASE PowerLoss
  BY <1>14, NoFileIsName DEF PowerLoss
<1>15. CASE UNCHANGED vars
  BY <1>15
<1>16. CASE lfs_file_open
  BY <1>16 DEF lfs_file_open, LFS_ERR
<1>17. QED
  BY <1>16, <1>1, <1>2, <1>3, <1>4, <1>5, <1>6, <1>7, <1>8, <1>9, <1>10, <1>11, <1>12, <1>13, <1>14, <1>15 DEF Next

LEMMA DurableKept == IInv /\ [Next]_vars => Durable'
<1> SUFFICES ASSUME IInv, [Next]_vars PROVE Durable'
  OBVIOUS
<1> USE DEF IInv, Common, Durable, SaveIsDurable, Excused, Saving, ByAxis, Final, vars, flash, statics, args
<1>1. CASE init_flashfs
  BY <1>1 DEF init_flashfs, Start
<1>2. CASE format_flashfs
  BY <1>2 DEF format_flashfs
<1>3. CASE read_file
  BY <1>3 DEF read_file, Reads, Start
<1>4. CASE save_file
  BY <1>4, DataAssumption DEF save_file, Start, FS_ERR_NO_INIT
<1>5. CASE load_calibration
  BY <1>5 DEF load_calibration, Reads, Start
<1>6. CASE save_calibration
  <2>1. PICK a \in Axes, d \in Data :
          LET f == IF a \in Known THEN ConfigName[a] ELSE NoFile
          IN  /\ Start("save_calibration", a, f, d, Len(d), "mount")
              /\ goal' = Over(d, files[f])
              /\ kept' = [kept EXCEPT ![f] = IF a \in Known THEN None ELSE kept[f]]
    BY <1>6 DEF save_calibration
  <2>2. (IF a \in Known THEN ConfigName[a] ELSE NoFile) \in Names
    BY NamesAssumption, NoFileIsName
  <2>3. QED
    BY <2>1, <2>2 DEF Start
<1>7. CASE lfs_format
  BY <1>7 DEF lfs_format
<1>8. CASE lfs_mount
  BY <1>8 DEF lfs_mount, Goes, Fails, LFS_ERR, FS_ERR_NO_AXIS
<1>9. CASE lfs_file_opencfg
  BY <1>9, OverCreated, DataAssumption DEF lfs_file_opencfg, Goes, Fails, LFS_ERR, Contents
<1>10. CASE lfs_file_read
  BY <1>10 DEF lfs_file_read, Transfers, TransferFails, LFS_ERR
<1>11. CASE lfs_file_write
  BY <1>11 DEF lfs_file_write, Transfers, TransferFails, LFS_ERR
<1>12. CASE lfs_file_close
  <2>1. pc = "close" /\ pc' = "unmount" /\ UNCHANGED <<args, goal, kept>>
    BY <1>12 DEF lfs_file_close
  <2>2. Saving => kept[file] = None
    BY <2>1
  <2>3. \A n \in Names : kept[n] # None => files'[n] = files[n]
    BY <1>12, <2>1, <2>2 DEF lfs_file_close, Commit
  <2>4. Saving /\ pending = data /\ Commit => files'[file] = goal
    BY <2>1, DataAssumption DEF Commit
  <2>5. Saving => Final' < 0 \/ Excused' \/ files'[file] = goal
    <3>1. CASE Commit /\ Closed(0) /\ UNCHANGED broke
      BY <2>1, <2>4, <3>1 DEF Closed
    <3>2. CASE Closed(LFS_ERR) /\ broke' = (IF broke = "step" THEN broke ELSE "close")
      BY <2>1, <3>2 DEF Closed, LFS_ERR, Reported, Unbroken
    <3>3. QED
      BY <1>12, <3>1, <3>2 DEF lfs_file_close
  <2>6. QED
    BY <2>1, <2>3, <2>5
<1>13. CASE lfs_unmount
  BY <1>13 DEF lfs_unmount
<1>14. CASE PowerLoss
  BY <1>14 DEF PowerLoss
<1>15. CASE UNCHANGED vars
  BY <1>15
<1>16. CASE lfs_file_open
  BY <1>16 DEF lfs_file_open, LFS_ERR
<1>17. QED
  BY <1>16, <1>1, <1>2, <1>3, <1>4, <1>5, <1>6, <1>7, <1>8, <1>9, <1>10, <1>11, <1>12, <1>13, <1>14, <1>15 DEF Next

LEMMA FaithfulKept == IInv /\ [Next]_vars => Faithful'
<1> SUFFICES ASSUME IInv, [Next]_vars PROVE Faithful'
  OBVIOUS
<1> USE DEF IInv, Common, Faithful, HasRead, Saving, ByAxis, Final, vars, flash, statics, args
<1>1. CASE init_flashfs
  BY <1>1 DEF init_flashfs, Start
<1>2. CASE format_flashfs
  BY <1>2 DEF format_flashfs
<1>3. CASE read_file
  BY <1>3 DEF read_file, Reads, Start
<1>4. CASE save_file
  BY <1>4 DEF save_file, Start
<1>5. CASE load_calibration
  BY <1>5, AxesAssumption DEF load_calibration, Reads, Start, FS_ERR_NO_INIT, LoadName
<1>6. CASE save_calibration
  BY <1>6 DEF save_calibration, Start
<1>7. CASE lfs_format
  BY <1>7 DEF lfs_format
<1>8. CASE lfs_mount
  BY <1>8 DEF lfs_mount, Goes, Fails, LFS_ERR, FS_ERR_NO_AXIS
<1>9. CASE lfs_file_opencfg
  BY <1>9 DEF lfs_file_opencfg, Goes, Fails, LFS_ERR
<1>10. CASE lfs_file_read
  BY <1>10 DEF lfs_file_read, Transfers, TransferFails, LFS_ERR
<1>11. CASE lfs_file_write
  BY <1>11 DEF lfs_file_write, Transfers, TransferFails, LFS_ERR
<1>12. CASE lfs_file_close
  BY <1>12 DEF lfs_file_close, Closed, Commit, LFS_ERR
<1>13. CASE lfs_unmount
  BY <1>13 DEF lfs_unmount
<1>14. CASE PowerLoss
  BY <1>14 DEF PowerLoss
<1>15. CASE UNCHANGED vars
  BY <1>15
<1>16. CASE lfs_file_open
  BY <1>16 DEF lfs_file_open, LFS_ERR
<1>17. QED
  BY <1>16, <1>1, <1>2, <1>3, <1>4, <1>5, <1>6, <1>7, <1>8, <1>9, <1>10, <1>11, <1>12, <1>13, <1>14, <1>15 DEF Next

-----------------------------------------------------------------------------
THEOREM StoreInvariant == Spec => []IInv
<1>1. IInv /\ [Next]_vars => IInv'
  BY CommonKept, ReportedKept, DurableKept, FaithfulKept DEF IInv
<1>2. QED
  BY Initially, <1>1, PTL DEF Spec

(* SaveIsDurable for any names, axes and data: a save without an error is  *)
(* on the flash until the next save of that file or a format.              *)
THEOREM SavesLast == Spec => []SaveIsDurable
<1>1. IInv => SaveIsDurable
  BY DEF IInv, Durable
<1>2. QED
  BY StoreInvariant, <1>1, PTL

(* LoadIsFaithful for any content and size asked for: PITCH and ROLL are   *)
(* read from their own file.                                               *)
THEOREM LoadsOwnFile == Spec => []LoadIsFaithful
<1>1. IInv => LoadIsFaithful
  BY DEF IInv, Common, Faithful, HasRead, LoadIsFaithful, Loaded
<1>2. QED
  BY StoreInvariant, <1>1, PTL

(* FailureIsReported whichever of the calls into littlefs fail, the two    *)
(* excepted there among them.                                              *)
THEOREM FailuresReported == Spec => []FailureIsReported
<1>1. IInv => FailureIsReported
  BY DEF IInv, Reported, Excused, Unbroken, FailureIsReported
<1>2. QED
  BY StoreInvariant, <1>1, PTL

=============================================================================
