------------------------------ MODULE LfsConf ------------------------------
(***************************************************************************)
(* Src/lfs_conf.c: files and calibrations on littlefs.  Every call mounts, *)
(* opens, reads or writes, closes and unmounts; a step is one call into    *)
(* littlefs, which may fail, and the power may go before any of them.      *)
(*                                                                         *)
(* littlefs is modelled from how it is called here: a file opened with     *)
(* LFS_O_CREAT exists from then on, what is written is on the flash once   *)
(* the file is closed (a failed close may have done it), it goes over the  *)
(* start of the file and does not shorten it, and a file whose write       *)
(* failed is closed without a change.  A config_file that is still open    *)
(* can be opened again.  To unmount what was never mounted follows a null  *)
(* pointer, or whatever lies at address 0.                                 *)
(*                                                                         *)
(* The two functions that take a file name leave at the first error; the   *)
(* two that take an axis close whatever they opened.                       *)
(***************************************************************************)
EXTENDS Integers, Sequences

CONSTANTS
  Axes,         \* what is passed as axis
  Names,        \* of files
  ConfigName,   \* axis -> name: X_CONFIG_FILENAME of AXIS_X
  Data,         \* what is saved
  Sizes,        \* what loads ask for
  None          \* the content of a file that does not exist

AXIS_PITCH == 1
AXIS_ROLL == 2
Known == DOMAIN ConfigName

ASSUME AxesAssumption == AXIS_PITCH \in Known /\ AXIS_ROLL \in Known
ASSUME NamesAssumption == \A a \in Known : ConfigName[a] \in Names

ASSUME DataAssumption ==
  /\ Data \subseteq Seq(Int) /\ Sizes \subseteq Nat
  /\ None # << >> /\ \A d \in Data : d # None

LFS_ERR == -1
FS_ERR_NO_AXIS == -15
FS_ERR_NO_INIT == -16
W25Q_ERR_BADID == -257

VARIABLES
  formatted, files,             \* the flash: a file system, its files
  fs_initialized, context,      \* statics: init_flashfs succeeded; flash_config.context is set
  cfg,                          \* flash_fs.cfg is set: flash_fs was once mounted or formatted
  mounted, pending,             \* the file system; what config_file has not yet put on the flash
  pc, op, axis, file, data,     \* the call, its arguments
  size,
  result, ret, out,             \* its locals; what was read
  broke,                        \* history: which call into littlefs failed
  goal, kept                    \* history: what the save leads to, what saves have promised

flash == <<formatted, files>>
statics == <<fs_initialized, context, cfg>>
args == <<op, axis, file, data, size>>
vars == <<flash, statics, mounted, pending, pc, args, result, ret, out, broke, goal, kept>>

ByAxis == op \in {"load_calibration", "save_calibration"}
Saving == op \in {"save_file", "save_calibration"}

Over(new, old) == new \o (IF old = None THEN << >> ELSE SubSeq(old, Len(new) + 1, Len(old)))
Cut(content, n) == SubSeq(content, 1, IF n < Len(content) THEN n ELSE Len(content))

(* The axes after PITCH and ROLL are opened twice. *)
OpenedTwice == Known \ {AXIS_PITCH, AXIS_ROLL}

(* Variant: the first axis does as the others do. *)
LoadNameRoll(a) == ConfigName[AXIS_ROLL]

(* The file that lfs_file_opencfg is given by load_calibration, and that   *)
(* is then read.                                                           *)
LoadName(a) == IF a = AXIS_PITCH THEN ConfigName[a] ELSE ConfigName[AXIS_ROLL]

NoFile == CHOOSE n \in Names : TRUE

Init ==
  /\ formatted \in BOOLEAN /\ files = [n \in Names |-> None]
  /\ fs_initialized = FALSE /\ context = FALSE /\ cfg = FALSE
  /\ mounted = FALSE /\ pending = None
  /\ pc = "ready" /\ op = "none" /\ axis = 0 /\ file = NoFile /\ data = << >> /\ size = 0
  /\ result = 0 /\ ret = 0 /\ out = None
  /\ broke = "none" /\ goal = None /\ kept = [n \in Names |-> None]

-----------------------------------------------------------------------------
(* A call starts.  With no context the block device functions follow a     *)
(* null pointer.                                                           *)
Start(name, a, f, d, n, next) ==
  /\ pc = "ready"
  /\ op' = name /\ axis' = a /\ file' = f /\ data' = d /\ size' = n
  /\ pc' = IF next = "mount" /\ ~context /\ name # "init_flashfs" THEN "fault" ELSE next
  /\ result' = 0 /\ out' = None /\ broke' = "none"
  /\ UNCHANGED <<flash, fs_initialized, cfg, mounted, pending>>

(* Without a file system by name everything but the unmount is left out,   *)
(* by axis that too.                                                       *)
Reads(name, a, f, n, otherwise) ==
  /\ Start(name, a, f, << >>, n, IF fs_initialized THEN "mount" ELSE otherwise)
  /\ ret' = IF fs_initialized THEN 0 ELSE FS_ERR_NO_INIT
  /\ UNCHANGED <<context, goal, kept>>

read_file == \E f \in Names, n \in Sizes : Reads("read_file", 0, f, n, "unmount")

load_calibration ==
  \E a \in Axes, n \in Sizes :
    Reads("load_calibration", a, IF a \in Known THEN LoadName(a) ELSE NoFile, n, "ready")

save_file ==
  \E f \in Names, d \in Data :
    /\ Start("save_file", 0, f, d, Len(d), IF fs_initialized THEN "mount" ELSE "unmount")
    /\ ret' = IF fs_initialized THEN 0 ELSE FS_ERR_NO_INIT
    /\ goal' = Over(d, files[f])
    /\ kept' = [kept EXCEPT ![f] = IF fs_initialized THEN None ELSE @]
    /\ UNCHANGED context

(* It goes on when the file system is not initialised. *)
save_calibration ==
  \E a \in Axes, d \in Data :
    LET f == IF a \in Known THEN ConfigName[a] ELSE NoFile
    IN  /\ Start("save_calibration", a, f, d, Len(d), "mount")
        /\ ret' = IF fs_initialized THEN 0 ELSE FS_ERR_NO_INIT
        /\ goal' = Over(d, files[f])
        /\ kept' = [kept EXCEPT ![f] = IF a \in Known THEN None ELSE @]
        /\ UNCHANGED context

(* Up to the result of w25q_init. *)
init_flashfs ==
  /\ \/ Start("init_flashfs", 0, NoFile, << >>, 0, "mount") /\ ret' = 0
     \/ Start("init_flashfs", 0, NoFile, << >>, 0, "unmount") /\ ret' = W25Q_ERR_BADID
  /\ context' = TRUE
  /\ UNCHANGED <<goal, kept>>

(* The chip is erased first. *)
format_flashfs ==
  /\ pc = "ready"
  /\ op' = "format_flashfs" /\ axis' = 0 /\ file' = NoFile /\ data' = << >> /\ size' = 0
  /\ pc' = IF context THEN "format" ELSE "fault"
  /\ formatted' = FALSE /\ files' = [n \in Names |-> None] /\ kept' = files'
  /\ result' = 0 /\ ret' = 0 /\ out' = None /\ broke' = "none"
  /\ UNCHANGED <<statics, mounted, pending, goal>>

lfs_format ==
  /\ pc = "format" /\ pc' = "ready"
  /\ formatted' \in BOOLEAN /\ cfg' = TRUE
  /\ UNCHANGED <<files, fs_initialized, context, mounted, pending, args, result, ret, out, broke, goal, kept>>

-----------------------------------------------------------------------------
(* The outcome of a call into littlefs that is not the last: on to the     *)
(* next, or to the unmount with the error.                                 *)
Goes(next, code) ==
  /\ pc' = next /\ result' = code
  /\ ret' = IF ByAxis THEN ret ELSE code
  /\ UNCHANGED broke

Fails(code) ==
  /\ pc' = "unmount" /\ result' = code /\ broke' = "step"
  /\ ret' = IF ByAxis THEN ret ELSE code

lfs_mount ==
  /\ pc = "mount"
  /\ \/ /\ formatted /\ mounted' = TRUE
        /\ IF op = "init_flashfs" THEN Goes("unmount", 0) /\ fs_initialized' = TRUE
           ELSE IF ByAxis /\ axis \notin Known
           THEN Goes("unmount", FS_ERR_NO_AXIS) /\ UNCHANGED fs_initialized
           ELSE /\ Goes(IF op = "load_calibration" /\ axis \in OpenedTwice THEN "own" ELSE "open", 0)
                /\ UNCHANGED fs_initialized
     \/ /\ Fails(IF ByAxis /\ axis \notin Known THEN FS_ERR_NO_AXIS ELSE LFS_ERR)
        /\ UNCHANGED <<mounted, fs_initialized>>
  /\ cfg' = TRUE
  /\ UNCHANGED <<flash, context, pending, args, out, goal, kept>>

(* The first of two opens, of the axis's own file.  The next line          *)
(* overwrites its result.                                                  *)
lfs_file_open ==
  /\ pc = "own" /\ pc' = "open"
  /\ \/ files[ConfigName[axis]] # None /\ result' = 0 /\ UNCHANGED broke
     \/ result' = LFS_ERR /\ broke' = "own"
  /\ UNCHANGED <<flash, statics, mounted, pending, args, ret, out, goal, kept>>

lfs_file_opencfg ==
  /\ pc = "open"
  /\ \/ /\ files[file] # None \/ Saving
        /\ files' = [files EXCEPT ![file] = IF @ = None THEN << >> ELSE @]
        /\ Goes("transfer", 0)
     \/ Fails(LFS_ERR) /\ UNCHANGED files
  /\ UNCHANGED <<formatted, statics, mounted, pending, args, out, goal, kept>>

(* After an error the functions that take a file name do not close it. *)
TransferFails ==
  /\ pc' = IF ByAxis THEN "close" ELSE "unmount"
  /\ result' = LFS_ERR /\ ret' = LFS_ERR /\ broke' = "step"
  /\ UNCHANGED <<pending, out>>

(* save_file holds on to the result of the open, the others to this one. *)
Transfers(n) ==
  /\ pc' = "close"
  /\ result' = (IF op = "save_file" THEN result ELSE n) /\ ret' = n
  /\ UNCHANGED broke

lfs_file_read ==
  /\ pc = "transfer" /\ ~Saving
  /\ \/ /\ out' = Cut(files[file], size)
        /\ Transfers(Len(out')) /\ UNCHANGED pending
     \/ TransferFails
  /\ UNCHANGED <<flash, statics, mounted, args, goal, kept>>

lfs_file_write ==
  /\ pc = "transfer" /\ Saving
  /\ \/ pending' = data /\ Transfers(Len(data)) /\ UNCHANGED out
     \/ TransferFails
  /\ UNCHANGED <<flash, statics, mounted, args, goal, kept>>

Commit == files' = [files EXCEPT ![file] = IF pending = None THEN @ ELSE Over(pending, @)]

(* Variant: nobody looks at what the close returns. *)
ClosedIgnored(code) == result' = result /\ ret' = ret

(* What the close returns: by axis it is looked at in the end, by name a   *)
(* negative result is taken for none.                                      *)
Closed(code) ==
  /\ result' = (IF ByAxis THEN code ELSE result)
  /\ ret' = (IF ByAxis THEN ret ELSE result)

lfs_file_close ==
  /\ pc = "close" /\ pc' = "unmount"
  /\ \/ Commit /\ Closed(0) /\ UNCHANGED broke
     \/ (Commit \/ UNCHANGED files) /\ Closed(LFS_ERR) /\ broke' = (IF broke = "step" THEN broke ELSE "close")
  /\ pending' = None
  /\ UNCHANGED <<formatted, statics, mounted, args, out, goal, kept>>

(* Variant: the last result is the one returned. *)
FinalLast == IF ByAxis THEN result ELSE ret

Final == IF ByAxis /\ result < 0 THEN result ELSE ret

lfs_unmount ==
  /\ pc = "unmount" /\ pc' \in IF cfg THEN {"ready"} ELSE {"ready", "fault"}
  /\ mounted' = FALSE /\ pending' = None
  /\ ret' = Final
  /\ kept' = IF Saving /\ Final >= 0 /\ (ByAxis \/ broke # "close")
             THEN [kept EXCEPT ![file] = goal] ELSE kept
  /\ UNCHANGED <<flash, statics, args, result, out, broke, goal>>

PowerLoss ==
  /\ fs_initialized' = FALSE /\ context' = FALSE /\ cfg' = FALSE
  /\ mounted' = FALSE /\ pending' = None
  /\ pc' = "ready" /\ op' = "none" /\ axis' = 0 /\ file' = NoFile /\ data' = << >> /\ size' = 0
  /\ result' = 0 /\ ret' = 0 /\ out' = None /\ broke' = "none" /\ goal' = None
  /\ UNCHANGED <<flash, kept>>

Next ==
  \/ init_flashfs \/ format_flashfs \/ read_file \/ save_file
  \/ load_calibration \/ save_calibration
  \/ lfs_format \/ lfs_mount \/ lfs_file_open \/ lfs_file_opencfg \/ lfs_file_read \/ lfs_file_write
  \/ lfs_file_close \/ lfs_unmount
  \/ PowerLoss

Spec == Init /\ [][Next]_vars

-----------------------------------------------------------------------------
(* SaveIsDurable: what a save that did not return an error has saved stays *)
(* on the flash, through failing calls, lost power and calls on other      *)
(* files, until the next save of that file or a format.  A save_file whose *)
(* close failed is no such save: lfs_conf.c:251 takes it for a good one.   *)
SaveIsDurable == \A n \in Names : kept[n] # None => files[n] = kept[n]

Loaded(a) ==
  pc = "ready" /\ op = "load_calibration" /\ ret >= 0 /\ axis = a =>
    files[ConfigName[a]] # None /\ out = Cut(files[ConfigName[a]], size)

(* LoadIsFaithful: a load of PITCH or ROLL that returns no error has read  *)
(* that axis's own file.                                                   *)
LoadIsFaithful == Loaded(AXIS_PITCH) /\ Loaded(AXIS_ROLL)

(* FailureIsReported: when any step of a save or load failed, the call     *)
(* returns an error, whichever later step succeeded.  Two steps are never  *)
(* reported and excepted: the close by file name (lfs_conf.c:251), and the *)
(* first open of an axis after ROLL (318, 338, 358, 378), whose result the *)
(* next line overwrites.                                                   *)
FailureIsReported ==
  pc = "ready" /\ (broke = "step" \/ (broke = "close" /\ ByAxis)) => ret < 0

(* LoadGetsOwnFile: the same for every axis; the open that fails is        *)
(* reported under the axis's own name (lfs_conf.c:321).                    *)
LoadGetsOwnFile == \A a \in Known : Loaded(a)

=============================================================================
