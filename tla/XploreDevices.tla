------------------------------ MODULE XploreDevices ----------------------------
(***************************************************************************)
(* The automounter of xplore: one device, the directory records that hold  *)
(* it, and the other programs that mount and unmount it too.               *)
(*                                                                         *)
(* s is the record of the device in devmount.c, with the system's mount    *)
(* table and xplore's copy of it; devmount and devumount give the sets of  *)
(* outcomes a call may have.  The records of dirs.c form a forest: tops    *)
(* are the mount point in the tree pane, the shelf, a directory that is    *)
(* read anew; each may have records of its subdirectories.  The walks over *)
(* a tree (dirReread, dirUpdate, dirScanSubdirInfo) are runs of the calls  *)
(* below, one after another, and other programs act between two of them.   *)
(***************************************************************************)
EXTENDS Naturals, FiniteSets

CONSTANTS
    Dirs,           \* the directory records on the device
    Parent,         \* a record's parent, itself for a top
    MountAction,    \* has the device a command to mount it?
    UmountAction,   \* and one to unmount it?
    Coarse          \* may a change of the mount table go unseen for a while?

ASSUME DirAssumption == /\ IsFiniteSet(Dirs) /\ Parent \in [Dirs -> Dirs]
                        /\ \A x \in Dirs : Parent[Parent[x]] = Parent[x]
ASSUME OptionAssumption == {MountAction, UmountAction, Coarse} \subseteq BOOLEAN

VARIABLES
    running,
    check,      \* the option "Check mounts"
    s,          \* the device
    dir,        \* the directory records
    moving      \* does fileMov hold the device?

vars == <<running, check, s, dir, moving>>

DeviceType ==
    [count : Nat, res : BOOLEAN, chk : BOOLEAN,
     mounted : BOOLEAN,     \* the system's mount table
     table : BOOLEAN,       \* xplore's copy
     ours : BOOLEAN,        \* did xplore's mount action mount it?
     ignored : BOOLEAN,     \* was the count cleared under its holders?
     failed : BOOLEAN,      \* was an unmount action that failed passed over?
     forgotten : BOOLEAN]   \* was the record made anew while it was mounted?

DirType == [live : BOOLEAN, dev : BOOLEAN, nomount : BOOLEAN, isReadable : BOOLEAN]

Tops == {x \in Dirs : Parent[x] = x}
Kids(x) == {y \in Dirs \ {x} : Parent[y] = x /\ dir[y].live}
Held(D) == {x \in D : dir[x].dev}
Holders == Held(Dirs)
Uses == Cardinality(Holders) + (IF moving THEN 1 ELSE 0)
Gone == [live |-> FALSE, dev |-> FALSE, nomount |-> FALSE, isReadable |-> FALSE]
-----------------------------------------------------------------------------
(* mnttable.c and devmount.c. *)

get_mnt_table(t) == [t EXCEPT !.table = t.mounted]

\* check_mnt_table compares times of one second's precision.
Looks(t) == {get_mnt_table(t)} \union (IF Coarse THEN {t} ELSE {})

\* The commands may fail, and mount fails on what is mounted.
Mounts(t) == {[t EXCEPT !.mounted = TRUE, !.ours = @ \/ ~t.mounted], t}
Unmounted(t) == [t EXCEPT !.mounted = FALSE, !.ours = FALSE, !.failed = FALSE,
                          !.forgotten = FALSE]
Umounts(t) == {Unmounted(t), t}

AddUser(t, r, c) == [t EXCEPT !.count = @ + 1, !.res = r, !.chk = c]

\* Mutant: a mount that succeeded is taken for one that was there before.
MountedForeign(t) ==
    LET m == get_mnt_table(t)
    IN  IF m.table THEN [s |-> AddUser(m, FALSE, TRUE), ok |-> TRUE]
        ELSE IF ~check THEN [s |-> AddUser(m, FALSE, FALSE), ok |-> TRUE]
        ELSE [s |-> m, ok |-> FALSE]

\* Mutant: a mount that failed is counted.
MountedCounts(t) ==
    LET m == get_mnt_table(t)
    IN  [s |-> AddUser(m, m.table, m.table), ok |-> m.table \/ ~check]

\* After the mount action.
Mounted(t) ==
    LET m == get_mnt_table(t)
    IN  IF m.table THEN [s |-> AddUser(m, TRUE, TRUE), ok |-> TRUE]
        ELSE IF ~check THEN [s |-> AddUser(m, FALSE, FALSE), ok |-> TRUE]
        ELSE [s |-> m, ok |-> FALSE]

devmount(t) ==
    UNION {IF l.count > 0 THEN {[s |-> [l EXCEPT !.count = @ + 1], ok |-> TRUE]}
           ELSE IF l.table THEN {[s |-> AddUser(l, FALSE, TRUE), ok |-> TRUE]}
           ELSE IF ~MountAction THEN {[s |-> AddUser(l, TRUE, FALSE), ok |-> TRUE]}
           ELSE {Mounted(m) : m \in Mounts(l)}
           : l \in Looks(t)}

devmount_ignore(t) ==
    IF t.count = 0 THEN AddUser(t, FALSE, FALSE) ELSE [t EXCEPT !.count = @ + 1]

\* What the last user leaves: the action is executed when xplore mounted it.
Tried(t) == IF t.res /\ UmountAction THEN {get_mnt_table(m) : m \in Umounts(t)} ELSE {t}

\* The unmount action has failed, and somebody looks.
StillThere(t) == t.res /\ UmountAction /\ check /\ t.table

Dropped(t) == [t EXCEPT !.count = 0,
                        !.failed = @ \/ (t.res /\ UmountAction /\ t.mounted)]

devumount_ignore(t) == [t EXCEPT !.count = 0, !.ignored = TRUE]

devcheck(t) == t.count > 0 /\ (t.chk => t.table)
-----------------------------------------------------------------------------
(* dialogs.c. *)

\* The user may retry, ignore or cancel.
mount_dlg(t, verify) ==
    devmount(t) \union
    (IF check /\ verify
     THEN {[s |-> devmount_ignore(r.s), ok |-> TRUE] :
             r \in {q \in devmount(t) : ~q.ok}}
     ELSE {})

\* umount_dlg by the last user: retried until it succeeds or is ignored.
Last(t) == {IF StillThere(m) THEN devumount_ignore(Dropped(m)) ELSE Dropped(m)
            : m \in Tried(t)}

\* Mutant: the last user but one unmounts.
ReleaseEarly(t, n) ==
    IF n + 1 < t.count \/ n = 0 THEN {[t EXCEPT !.count = @ - n]}
    ELSE IF t.count = 0 THEN {t}
    ELSE {IF n < t.count THEN [m EXCEPT !.count = t.count - n] ELSE m
          : m \in Last([t EXCEPT !.count = 1])}

\* umount_dlg, called by n users in turn.
Release(t, n) ==
    IF n < t.count THEN {[t EXCEPT !.count = @ - n]}
    ELSE IF t.count = 0 THEN {t}
    ELSE Last([t EXCEPT !.count = 1])
-----------------------------------------------------------------------------
(* dirs.c. *)

\* The device once nobody holds it.
Settle(t, d, m) == IF ~m /\ \A x \in Dirs : ~d[x].dev THEN [t EXCEPT !.ignored = FALSE]
                   ELSE t

\* x becomes r, the records of its subdirectories are freed.
Freed(x, r) == [y \in Dirs |-> IF y = x THEN r ELSE IF y \in Kids(x) THEN Gone ELSE dir[y]]

\* The outcomes of a call: the device, and the records.
Becomes(t, d) == /\ s' = Settle(t, d, moving)
                 /\ dir' = d
                 /\ UNCHANGED <<running, check, moving>>

\* x cannot be read: n users less besides the subdirectories.
Unreadable(x, t, n, r) ==
    \E t2 \in Release(t, n + Cardinality(Held(Kids(x)))) :
        Becomes(t2, Freed(x, [r EXCEPT !.dev = FALSE, !.isReadable = FALSE]))

\* chdir and stat fail when there is nothing mounted, or by themselves.
Lost(x, t, r) == Unreadable(x, t, 1, r)

\* A device that was unmounted behind xplore's back.
Vanished(x, t, r) ==
    ~devcheck(t) /\ Unreadable(x, devumount_ignore(t), 0, [r EXCEPT !.nomount = TRUE])

Readable(x, t, r) ==
    /\ devcheck(t)
    /\ x \in Tops \/ t.mounted
    /\ Becomes(t, [dir EXCEPT ![x] = [r EXCEPT !.dev = TRUE, !.isReadable = TRUE]])

\* The directory is entered, x holding the device.
Entered(x, t, r) ==
    \/ Lost(x, t, r)
    \/ (x \in Tops \/ t.mounted) /\ Vanished(x, t, r)
    \/ Readable(x, t, r)

\* NOMOUNT keeps a directory from mounting its device.
Mounting(t, r, errflag) == IF r.nomount THEN {} ELSE mount_dlg(t, errflag)

\* r is the record of x as it was or was created.
dirStat(x, r, errflag) ==
    IF r.dev /\ s.count > 0 THEN Entered(x, s, r)
    ELSE \E l \in IF ~errflag /\ s.count = 0 THEN Looks(s) ELSE {s} :
           IF (~errflag /\ l.count = 0 /\ ~l.table) \/ r.nomount
           THEN Unreadable(x, l, 0, r)
           ELSE \E q \in Mounting(l, r, errflag) :
                  IF q.ok THEN Entered(x, q.s, r) ELSE Unreadable(x, q.s, 0, r)

Create(x) == /\ ~dir[x].live
             /\ x \notin Tops => dir[Parent[x]].live /\ dir[Parent[x]].isReadable
             /\ dirStat(x, [Gone EXCEPT !.live = TRUE,
                                        !.nomount = dir[Parent[x]].nomount], FALSE)

\* dirReread after an option was changed, or by dirUpdate when modified.
Reread(x) == dir[x].live /\ dirStat(x, dir[x], FALSE)

\* dirScanSubdirInfo and dirReadFileInfo of a directory that was not readable.
Open(x) == dir[x].live /\ ~dir[x].isReadable /\ dirStat(x, dir[x], TRUE)

\* Its entries cannot be read, but it keeps the device.
ScanFails(x) ==
    /\ dir[x].live /\ dir[x].isReadable
    /\ \E t \in Release(s, Cardinality(Held(Kids(x)))) :
         Becomes(t, Freed(x, [dir[x] EXCEPT !.isReadable = FALSE]))

dirFree(x) ==
    /\ dir[x].live
    /\ \E t \in Release(s, Cardinality(Held({x} \union Kids(x)))) : Becomes(t, Freed(x, Gone))

\* remount, before a dirReread.
remount(x) ==
    /\ dir[x].live /\ dir[x].nomount
    /\ dir' = [y \in Dirs |-> IF y \in {x} \union Kids(x)
                              THEN [dir[y] EXCEPT !.nomount = FALSE] ELSE dir[y]]
    /\ UNCHANGED <<running, check, s, moving>>

Actions == MountAction \/ UmountAction

\* Unmount, in one tree.
dirUnmountAll(x) ==
    /\ dir[x].dev /\ Actions
    /\ \E t \in Release(s, Cardinality(Held({x} \union Kids(x)))) :
         Becomes(t, Freed(x, [dir[x] EXCEPT !.dev = FALSE, !.isReadable = FALSE,
                                            !.nomount = TRUE]))

\* Mutant: the device is not looked at.
ModifiedUnchecked(x) ==
    IF dir[x].isReadable THEN x \notin Tops /\ ~s.mounted ELSE dir[x].dev

\* dirModified, of a directory on a device.
dirModified(x) ==
    IF dir[x].isReadable THEN ~devcheck(s) \/ (x \notin Tops /\ ~s.mounted) ELSE dir[x].dev

dirUpdate(x) == dir[x].live /\ dirModified(x) /\ dirStat(x, dir[x], FALSE)
-----------------------------------------------------------------------------
(* The callbacks and the other programs. *)

\* update and restat begin with it.
CheckTable == /\ s' \in Looks(s) /\ s' # s
              /\ UNCHANGED <<running, check, dir, moving>>

\* fileMov holds the device of its target.
MovBegin == /\ ~moving
            /\ \E q \in mount_dlg(s, TRUE) :
                 /\ s' = q.s
                 /\ moving' = q.ok
            /\ UNCHANGED <<running, check, dir>>

MovEnd == /\ moving /\ moving' = FALSE
          /\ \E t \in Release(s, 1) : s' = Settle(t, dir, FALSE)
          /\ UNCHANGED <<running, check, dir>>

CheckMountsCB == check' = ~check /\ UNCHANGED <<running, s, dir, moving>>

\* ReloadConfigCB: the devices are read anew after dirUnmountAll, which passes
\* over a device without actions; and the current directory may have been
\* opened again in between.  That xplore mounted its device is forgotten.
initdevs ==
    /\ Actions => \E x \in Tops : Holders \subseteq {x} \union Kids(x)
    /\ s' = Settle([s EXCEPT !.count = 0, !.res = FALSE, !.chk = FALSE,
                             !.ignored = TRUE, !.forgotten = @ \/ s.ours],
                   dir, FALSE)
    /\ UNCHANGED <<running, check, dir, moving>>

\* cleanup; nothing asks when the action fails.
Quit ==
    /\ running' = FALSE
    /\ s' \in IF s.count = 0 THEN {s}
              ELSE {IF StillThere(m) THEN [m EXCEPT !.failed = TRUE] ELSE Dropped(m)
                    : m \in Tried([s EXCEPT !.count = 1])}
    /\ UNCHANGED <<check, dir, moving>>

OtherMounts == ~s.mounted /\ s' = [s EXCEPT !.mounted = TRUE]
OtherUmounts == s.mounted /\ s' = Unmounted(s)
Others == (OtherMounts \/ OtherUmounts) /\ UNCHANGED <<running, check, dir, moving>>

Ended == ~running /\ UNCHANGED vars
-----------------------------------------------------------------------------
Init == /\ running = TRUE /\ check = TRUE /\ moving = FALSE
        /\ s \in [count : {0}, res : {FALSE}, chk : {FALSE}, mounted : BOOLEAN,
                  table : BOOLEAN, ours : {FALSE}, ignored : {FALSE}, failed : {FALSE},
                  forgotten : {FALSE}]
        /\ s.table = s.mounted
        /\ dir = [x \in Dirs |-> Gone]

Call(x) == \/ Create(x) \/ Reread(x) \/ Open(x) \/ ScanFails(x) \/ dirFree(x)
           \/ remount(x) \/ dirUnmountAll(x) \/ dirUpdate(x)

Xplore == \/ ~moving /\ (\E x \in Dirs : Call(x))
          \/ ~moving /\ (CheckTable \/ CheckMountsCB \/ initdevs)
          \/ MovBegin \/ MovEnd \/ Quit

Next == (running /\ (Xplore \/ Others)) \/ Ended

Spec == Init /\ [][Next]_vars

\* A timer that is due runs before Xt looks for more events.
Update(x) == running /\ ~moving /\ dirUpdate(x)
FairSpec == Spec /\ SF_vars(running /\ MovEnd) /\ (\A x \in Dirs : SF_vars(Update(x)))
-----------------------------------------------------------------------------
\* Every variable has its type, and the use count never exceeds the number of
\* those who will count it down: when the last directory is closed it is zero,
\* and the next one mounts again.
TypeOK == /\ {running, check, moving} \subseteq BOOLEAN
          /\ s \in DeviceType
          /\ dir \in [Dirs -> DirType]
          /\ s.count <= Uses

\* The count is the number of directories, of every tree, that hold the device,
\* through every mount and unmount that fails half-way; only a count that was
\* cleared (an unmount ignored, a device gone) is below it while old holders live.
CountIsHolders == TypeOK /\ (running /\ ~s.ignored => s.count = Uses)

\* What xplore mounted, it has unmounted when the last directory is closed and
\* when it ends, unless the unmount command failed and that was passed over, or
\* the configuration was read anew while the device was mounted.
LeftAsFound == UmountAction /\ s.ours /\ (Uses = 0 \/ ~running) => s.failed \/ s.forgotten

Readers == {x \in Dirs : dir[x].live /\ dir[x].isReadable}

\* A step of xplore unmounts the device only when no directory that it shows and
\* no file operation is left on it, unless the count was cleared before.
NoUmountUnderReader ==
    [][s.mounted /\ ~s'.mounted /\ ~s.ignored /\ running' =>
           Others \/ (Readers' = {} /\ ~moving')]_vars

\* A directory whose device was unmounted by another program is not shown for
\* ever, once xplore's copy of the mount table tells it.
LostIsNoticed ==
    \A x \in Dirs :
        (dir[x].isReadable /\ s.chk /\ ~s.mounted /\ ~s.table)
            ~> (~dir[x].isReadable \/ ~s.chk \/ s.mounted \/ ~running)
=============================================================================
