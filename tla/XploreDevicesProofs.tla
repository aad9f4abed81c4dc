-------------------------- MODULE XploreDevicesProofs --------------------------
(***************************************************************************)
(* The use count of a device of xplore, for any forest of directories and  *)
(* any device.                                                             *)
(*                                                                         *)
(* What a call does to the device (devmount, umount_dlg) and what it does  *)
(* to the records (a record replaced, the subdirectories freed) are dealt  *)
(* with apart; DeviceOK and Records say what each keeps.  The two meet in  *)
(* Settled: the count is compared with the records only when the handler   *)
(* has ended, for in between it counts a user who holds no record yet.     *)
(***************************************************************************)
EXTENDS XploreDevices, FiniteSetTheorems, TLAPS

\* What xplore mounted is in both mount tables, and there is somebody who will
\* unmount it, until an unmount that failed was passed over or initdevs forgot.
DeviceOK(t) ==
    /\ t \in DeviceType
    /\ t.ours => t.mounted /\ t.table
    /\ UmountAction /\ t.ours /\ ~t.failed /\ ~t.forgotten => t.count > 0 /\ t.res

\* A record that is not there holds nothing, and one that can be read holds
\* the device.
Records(d) ==
    /\ d \in [Dirs -> DirType]
    /\ \A x \in Dirs : /\ d[x].dev => d[x].live
                       /\ d[x].isReadable => d[x].dev

Using(d) == {x \in Dirs : d[x].dev}
Users(d, m) == Cardinality(Using(d)) + (IF m THEN 1 ELSE 0)

\* The device, the records and fileMov after a call.
Settled(t, d, m) ==
    /\ DeviceOK(t) /\ Records(d) /\ m \in BOOLEAN
    /\ t.count <= Users(d, m)
    /\ ~t.ignored => t.count = Users(d, m)

IInv ==
    /\ {running, check, moving} \subseteq BOOLEAN
    /\ DeviceOK(s) /\ Records(dir)
    /\ s.count <= Uses
    /\ running /\ ~s.ignored => s.count = Uses
    /\ UmountAction /\ s.ours /\ ~s.failed /\ ~s.forgotten => running

\* What a step may do to the device, besides keeping IInv.
Quiet == s.mounted /\ ~s'.mounted /\ ~s.ignored => Readers' = {} /\ ~moving'
-----------------------------------------------------------------------------
(* What the calls do to the device. *)

\* Looking at the mount table changes xplore's copy of it only.
LEMMA LooksKeeps ==
    ASSUME NEW t, DeviceOK(t), NEW l \in Looks(t)
    PROVE  /\ DeviceOK(l) /\ l.count = t.count /\ l.ignored = t.ignored
           /\ l.mounted = t.mounted
BY DEF Looks, get_mnt_table, DeviceOK, DeviceType

\* A user more; who the first one is decides what the last one does.
LEMMA AddUserCounts ==
    ASSUME NEW t \in DeviceType, NEW r \in BOOLEAN, NEW c \in BOOLEAN,
           t.ours => t.mounted /\ t.table,
           UmountAction /\ t.ours /\ ~t.failed /\ ~t.forgotten => r
    PROVE  /\ DeviceOK(AddUser(t, r, c))
           /\ AddUser(t, r, c).count = t.count + 1
           /\ AddUser(t, r, c).ignored = t.ignored
           /\ AddUser(t, r, c).mounted = t.mounted
<1> DEFINE b == [t EXCEPT !.count = @ + 1]
           e == [b EXCEPT !.res = r]
           a == AddUser(t, r, c)
<1>1. /\ a \in DeviceType /\ a.count = t.count + 1 /\ a.res = r
      /\ a.ignored = t.ignored /\ a.mounted = t.mounted /\ a.table = t.table
      /\ a.ours = t.ours /\ a.failed = t.failed /\ a.forgotten = t.forgotten
  <2>1. /\ b \in DeviceType /\ b.count = t.count + 1
        /\ b.ignored = t.ignored /\ b.mounted = t.mounted /\ b.table = t.table
        /\ b.ours = t.ours /\ b.failed = t.failed /\ b.forgotten = t.forgotten
    BY DEF DeviceType
  <2>2. a = [e EXCEPT !.chk = c]
    BY DEF AddUser
  <2> HIDE DEF b, a
  <2>3. /\ e \in DeviceType /\ e.count = b.count /\ e.res = r
        /\ e.ignored = b.ignored /\ e.mounted = b.mounted /\ e.table = b.table
        /\ e.ours = b.ours /\ e.failed = b.failed /\ e.forgotten = b.forgotten
    BY <2>1 DEF DeviceType
  <2> HIDE DEF e
  <2> QED  BY <2>1, <2>2, <2>3 DEF DeviceType
<1>2. t.count \in Nat
  BY DEF DeviceType
<1> HIDE DEF a
<1>3. a.count > 0
  BY <1>1, <1>2
<1>4. DeviceOK(a)
  BY <1>1, <1>3 DEF DeviceOK
<1> QED  BY <1>1, <1>4 DEF a

LEMMA OneMoreCounts ==
    ASSUME NEW t, DeviceOK(t), t.count > 0
    PROVE  /\ DeviceOK([t EXCEPT !.count = @ + 1])
           /\ [t EXCEPT !.count = @ + 1].count = t.count + 1
           /\ [t EXCEPT !.count = @ + 1].ignored = t.ignored
           /\ [t EXCEPT !.count = @ + 1].mounted = t.mounted
<1> DEFINE a == [t EXCEPT !.count = @ + 1]
<1>1. /\ a \in DeviceType /\ a.count = t.count + 1 /\ a.res = t.res
      /\ a.ignored = t.ignored /\ a.mounted = t.mounted /\ a.table = t.table
      /\ a.ours = t.ours /\ a.failed = t.failed /\ a.forgotten = t.forgotten
  BY DEF DeviceOK, DeviceType
<1>2. t.count \in Nat
  BY DEF DeviceOK, DeviceType
<1> HIDE DEF a
<1>3. a.count > 0
  BY <1>1, <1>2
<1>4. DeviceOK(a)
  BY <1>1, <1>3 DEF DeviceOK
<1> QED  BY <1>1, <1>4 DEF a

\* The record of a device that is not mounted any more.
LEMMA UnmountedIs ==
    ASSUME NEW t \in DeviceType
    PROVE  /\ Unmounted(t) \in DeviceType /\ ~Unmounted(t).mounted /\ ~Unmounted(t).ours
           /\ Unmounted(t).count = t.count /\ Unmounted(t).ignored = t.ignored
           /\ Unmounted(t).table = t.table
<1> DEFINE a == [t EXCEPT !.mounted = FALSE]
           b == [a EXCEPT !.ours = FALSE]
           c == [b EXCEPT !.failed = FALSE]
           d == [c EXCEPT !.forgotten = FALSE]
<1>1. /\ a \in DeviceType /\ ~a.mounted /\ a.count = t.count /\ a.ignored = t.ignored
      /\ a.table = t.table
  BY DEF DeviceType
<1> HIDE DEF a
<1>2. /\ b \in DeviceType /\ ~b.mounted /\ ~b.ours /\ b.count = t.count
      /\ b.ignored = t.ignored /\ b.table = t.table
  BY <1>1 DEF DeviceType
<1> HIDE DEF b
<1>3. /\ c \in DeviceType /\ ~c.mounted /\ ~c.ours /\ c.count = t.count
      /\ c.ignored = t.ignored /\ c.table = t.table
  BY <1>2 DEF DeviceType
<1> HIDE DEF c
<1>4. /\ d \in DeviceType /\ ~d.mounted /\ ~d.ours /\ d.count = t.count
      /\ d.ignored = t.ignored /\ d.table = t.table
  BY <1>3 DEF DeviceType
<1>5. Unmounted(t) = d
  BY DEF Unmounted, a, b, c
<1> HIDE DEF d
<1> QED  BY <1>4, <1>5

\* The mount action counts a user, or what it tried is not in the table.
LEMMA MountedCountsOne ==
    ASSUME NEW t, DeviceOK(t), t.count = 0, ~t.table, check \in BOOLEAN, NEW m \in Mounts(t)
    PROVE  \E g \in DeviceType :
               /\ Mounted(m).s = g /\ Mounted(m).ok \in BOOLEAN /\ DeviceOK(g)
               /\ Mounted(m).ok => g.count = 1
               /\ ~Mounted(m).ok => g.count = 0
               /\ g.ignored = t.ignored
               /\ t.mounted => g.mounted
<1> DEFINE g == get_mnt_table(m)
<1>1. /\ g \in DeviceType /\ g.count = 0 /\ g.ignored = t.ignored
      /\ t.mounted => g.mounted
      /\ g.table = g.mounted
      /\ g.ours => g.mounted
  <2>1. /\ m \in DeviceType /\ m.count = 0 /\ m.ignored = t.ignored
        /\ t.mounted => m.mounted
        /\ m.ours => m.mounted
    BY DEF Mounts, DeviceOK, DeviceType
  <2> QED  BY <2>1 DEF get_mnt_table, DeviceType
<1>2. Mounted(m) = IF g.table THEN [s |-> AddUser(g, TRUE, TRUE), ok |-> TRUE]
                   ELSE IF ~check THEN [s |-> AddUser(g, FALSE, FALSE), ok |-> TRUE]
                   ELSE [s |-> g, ok |-> FALSE]
  BY DEF Mounted
<1> HIDE DEF g
<1>3. CASE g.table
  <2> DEFINE a == AddUser(g, TRUE, TRUE)
  <2>1. /\ DeviceOK(a) /\ a.count = g.count + 1
        /\ a.ignored = g.ignored /\ a.mounted = g.mounted
    BY <1>1, <1>3, AddUserCounts, Zenon
  <2>2. Mounted(m) = [s |-> a, ok |-> TRUE]
    BY <1>2, <1>3
  <2> HIDE DEF a
  <2> QED  BY <1>1, <2>1, <2>2 DEF DeviceOK
<1>4. CASE ~g.table /\ ~check
  <2> DEFINE a == AddUser(g, FALSE, FALSE)
  <2>1. /\ DeviceOK(a) /\ a.count = g.count + 1
        /\ a.ignored = g.ignored /\ a.mounted = g.mounted
    BY <1>1, <1>4, AddUserCounts, Zenon
  <2>2. Mounted(m) = [s |-> a, ok |-> TRUE]
    BY <1>2, <1>4
  <2> HIDE DEF a
  <2> QED  BY <1>1, <2>1, <2>2 DEF DeviceOK
<1>5. CASE ~g.table /\ check
  <2>1. DeviceOK(g)
    BY <1>1, <1>5 DEF DeviceOK
  <2> QED  BY <1>1, <1>2, <1>5, <2>1
<1> QED  BY <1>3, <1>4, <1>5

\* devmount counts a user, or finds nothing mounted and counts nobody.
LEMMA DevmountCounts ==
    ASSUME NEW t, DeviceOK(t), check \in BOOLEAN, NEW q \in devmount(t)
    PROVE  /\ q.ok \in BOOLEAN /\ DeviceOK(q.s)
           /\ q.ok => q.s.count = t.count + 1
           /\ ~q.ok => t.count = 0 /\ q.s.count = 0
           /\ q.s.ignored = t.ignored
           /\ t.mounted => q.s.mounted
<1>1. PICK l \in Looks(t) :
        q \in IF l.count > 0 THEN {[s |-> [l EXCEPT !.count = @ + 1], ok |-> TRUE]}
             ELSE IF l.table THEN {[s |-> AddUser(l, FALSE, TRUE), ok |-> TRUE]}
             ELSE IF ~MountAction THEN {[s |-> AddUser(l, TRUE, FALSE), ok |-> TRUE]}
             ELSE {Mounted(m) : m \in Mounts(l)}
  BY DEF devmount
<1>2. /\ DeviceOK(l) /\ l.count = t.count /\ l.ignored = t.ignored
      /\ l.mounted = t.mounted /\ l \in DeviceType /\ l.count \in Nat
      /\ l.ours => l.mounted /\ l.table
  BY <1>1, LooksKeeps DEF DeviceOK, DeviceType
<1>3. CASE l.count > 0
  <2> DEFINE a == [l EXCEPT !.count = @ + 1]
  <2>1. q = [s |-> a, ok |-> TRUE]
    BY <1>1, <1>3
  <2>2. /\ DeviceOK(a) /\ a.count = l.count + 1
        /\ a.ignored = l.ignored /\ a.mounted = l.mounted
    BY <1>2, <1>3, OneMoreCounts
  <2> HIDE DEF a
  <2> QED  BY <1>2, <2>1, <2>2
<1>4. CASE l.count = 0 /\ l.table
  <2>0. ~(l.count > 0)
    BY <1>4
  <2>1. q = [s |-> AddUser(l, FALSE, TRUE), ok |-> TRUE]
    BY <1>1, <1>4, <2>0, Zenon
  <2>2. UmountAction /\ l.ours => l.failed \/ l.forgotten
    BY <1>2, <1>4 DEF DeviceOK
  <2>3. /\ DeviceOK(AddUser(l, FALSE, TRUE)) /\ AddUser(l, FALSE, TRUE).count = l.count + 1
        /\ AddUser(l, FALSE, TRUE).ignored = l.ignored
        /\ AddUser(l, FALSE, TRUE).mounted = l.mounted
    BY <1>2, <2>2, AddUserCounts, Zenon
  <2> QED  BY <1>2, <2>1, <2>3
<1>5. CASE l.count = 0 /\ ~l.table /\ ~MountAction
  <2>0. ~(l.count > 0)
    BY <1>5
  <2>1. q = [s |-> AddUser(l, TRUE, FALSE), ok |-> TRUE]
    BY <1>1, <1>5, <2>0, Zenon
  <2>2. /\ DeviceOK(AddUser(l, TRUE, FALSE)) /\ AddUser(l, TRUE, FALSE).count = l.count + 1
        /\ AddUser(l, TRUE, FALSE).ignored = l.ignored
        /\ AddUser(l, TRUE, FALSE).mounted = l.mounted
    BY <1>2, AddUserCounts, Zenon
  <2> QED  BY <1>2, <2>1, <2>2
<1>6. CASE l.count = 0 /\ ~l.table /\ MountAction
  <2>1. PICK m \in Mounts(l) : q = Mounted(m)
    BY <1>1, <1>6
  <2>2. /\ q.ok \in BOOLEAN /\ DeviceOK(q.s)
        /\ q.ok => q.s.count = 1
        /\ ~q.ok => q.s.count = 0
        /\ q.s.ignored = l.ignored
        /\ l.mounted => q.s.mounted
    BY <1>2, <1>6, <2>1, MountedCountsOne
  <2> QED  BY <1>2, <1>6, <2>2
<1> QED  BY <1>2, <1>3, <1>4, <1>5, <1>6

\* And so does the dialog, whatever the user answers.
LEMMA MountDlgCounts ==
    ASSUME NEW t, DeviceOK(t), check \in BOOLEAN, NEW v, NEW q \in mount_dlg(t, v)
    PROVE  /\ q.ok \in BOOLEAN /\ DeviceOK(q.s)
           /\ q.ok => q.s.count = t.count + 1
           /\ ~q.ok => t.count = 0 /\ q.s.count = 0
           /\ q.s.ignored = t.ignored
           /\ t.mounted => q.s.mounted
<1>1. CASE q \in devmount(t)
  BY <1>1, DevmountCounts
<1>2. CASE q \notin devmount(t)
  <2>1. PICK r \in devmount(t) : ~r.ok /\ q = [s |-> devmount_ignore(r.s), ok |-> TRUE]
    BY <1>2 DEF mount_dlg
  <2>2. /\ DeviceOK(r.s) /\ t.count = 0 /\ r.s.count = 0 /\ r.s.ignored = t.ignored
        /\ t.mounted => r.s.mounted
    BY <2>1, DevmountCounts
  <2>3. q.s = AddUser(r.s, FALSE, FALSE) /\ q.ok
    BY <2>1, <2>2 DEF devmount_ignore
  <2>4. /\ r.s \in DeviceType
        /\ r.s.ours => r.s.mounted /\ r.s.table
        /\ UmountAction /\ r.s.ours => r.s.failed \/ r.s.forgotten
    BY <2>2 DEF DeviceOK
  <2>5. /\ DeviceOK(q.s) /\ q.s.count = r.s.count + 1
        /\ q.s.ignored = r.s.ignored /\ q.s.mounted = r.s.mounted
    BY <2>3, <2>4, AddUserCounts
  <2> QED  BY <2>2, <2>3, <2>5
<1> QED  BY <1>1, <1>2

\* The last user leaves the device unmounted, or a failure that is recorded.
LEMMA LastKeeps ==
    ASSUME NEW t, DeviceOK(t), NEW c \in Nat, c > 0,
           check \in BOOLEAN, NEW t2 \in Last([t EXCEPT !.count = c])
    PROVE  DeviceOK(t2) /\ t2.count = 0 /\ (t.ignored => t2.ignored)
<1> DEFINE o == [t EXCEPT !.count = c]
<1>1. DeviceOK(o) /\ o.count = c /\ o.ignored = t.ignored
  BY DEF DeviceOK, DeviceType
<1>2. PICK m \in Tried(o) : t2 = IF StillThere(m) THEN devumount_ignore(Dropped(m)) ELSE Dropped(m)
  BY DEF Last
<1> HIDE DEF o
<1>3. DeviceOK(m) /\ m.ignored = o.ignored
  <2>1. CASE m = o
    BY <1>1, <2>1
  <2>2. CASE m = get_mnt_table(o)
    BY <1>1, <2>2 DEF get_mnt_table, DeviceOK, DeviceType
  <2>3. CASE m = get_mnt_table(Unmounted(o))
    BY <1>1, <2>3, UnmountedIs DEF get_mnt_table, DeviceOK, DeviceType
  <2> QED  BY <1>2, <2>1, <2>2, <2>3 DEF Tried, Umounts
<1>4. DeviceOK(Dropped(m)) /\ Dropped(m).count = 0 /\ Dropped(m).ignored = m.ignored
  <2>1. Dropped(m) \in DeviceType /\ Dropped(m).count = 0 /\ Dropped(m).ignored = m.ignored
    BY <1>3, OptionAssumption DEF Dropped, DeviceOK, DeviceType
  <2>2. /\ Dropped(m).ours = m.ours /\ Dropped(m).mounted = m.mounted
        /\ Dropped(m).table = m.table /\ Dropped(m).forgotten = m.forgotten
        /\ Dropped(m).failed = (m.failed \/ (m.res /\ UmountAction /\ m.mounted))
    BY <1>3 DEF Dropped, DeviceOK, DeviceType
  <2> QED  BY <1>3, <2>1, <2>2 DEF DeviceOK
<1> HIDE DEF Dropped
<1>5. CASE ~StillThere(m)
  BY <1>1, <1>2, <1>3, <1>4, <1>5
<1>6. CASE StillThere(m)
  <2>1. Dropped(m).ours /\ UmountAction => Dropped(m).failed \/ Dropped(m).forgotten
    BY <1>4 DEF DeviceOK
  <2> QED  BY <1>2, <1>4, <1>6, <2>1, <1>1, <1>3 DEF devumount_ignore, DeviceOK, DeviceType
<1> QED  BY <1>5, <1>6

\* n users leave: they are counted down, and the device is unmounted only with
\* the last of them.
LEMMA ReleaseCounts ==
    ASSUME NEW t, DeviceOK(t), check \in BOOLEAN, NEW n \in Nat, NEW t2 \in Release(t, n)
    PROVE  /\ DeviceOK(t2)
           /\ t2.count = IF n < t.count THEN t.count - n ELSE 0
           /\ n < t.count => t2.ignored = t.ignored
           /\ t.ignored => t2.ignored
           /\ t2.mounted # t.mounted => t.count > 0 /\ n >= t.count
<1>1. CASE n < t.count
  BY <1>1 DEF Release, DeviceOK, DeviceType
<1>2. CASE ~(n < t.count) /\ t.count = 0
  BY <1>2 DEF Release, DeviceOK, DeviceType
<1>3. CASE ~(n < t.count) /\ t.count # 0
  <2>1. t2 \in Last([t EXCEPT !.count = 1])
    BY <1>3 DEF Release
  <2>2. t.count \in Nat
    BY DEF DeviceOK, DeviceType
  <2> QED  BY <1>3, <2>1, <2>2, LastKeeps
<1> QED  BY <1>1, <1>2, <1>3
-----------------------------------------------------------------------------
(* What the calls do to the records. *)

LEMMA UsingFinite ==
    ASSUME NEW d
    PROVE  IsFiniteSet(Using(d)) /\ Cardinality(Using(d)) \in Nat
BY DirAssumption, FS_Subset, FS_CardinalityType DEF Using

LEMMA UsesUsers == Uses = Users(dir, moving)
BY DEF Uses, Users, Using, Holders, Held

\* One record changes.
LEMMA UsingSet ==
    ASSUME Records(dir), NEW x \in Dirs, NEW r \in DirType,
           r.dev => r.live, r.isReadable => r.dev
    PROVE  /\ Records([dir EXCEPT ![x] = r])
           /\ Cardinality(Using([dir EXCEPT ![x] = r])) =
                Cardinality(Using(dir)) - (IF dir[x].dev THEN 1 ELSE 0)
                                        + (IF r.dev THEN 1 ELSE 0)
           /\ dir[x].dev => Cardinality(Using(dir)) > 0
<1> DEFINE d == [dir EXCEPT ![x] = r]
           U == Using(dir)
<1>1. Records(d)
  BY DEF Records
<1>2. /\ IsFiniteSet(U) /\ Cardinality(U) \in Nat
      /\ IsFiniteSet(U \ {x})
      /\ Cardinality(U \ {x}) = Cardinality(U) - (IF x \in U THEN 1 ELSE 0)
      /\ Cardinality((U \ {x}) \union {x}) = Cardinality(U \ {x}) + 1
      /\ Cardinality(U \ {x}) \in Nat
  <2>1. IsFiniteSet(U) /\ Cardinality(U) \in Nat
    BY UsingFinite
  <2>2. IsFiniteSet(U \ {x}) /\ Cardinality(U \ {x}) = IF x \in U THEN Cardinality(U) - 1 ELSE Cardinality(U)
    BY <2>1, FS_RemoveElement
  <2>3. Cardinality(U \ {x}) \in Nat
    BY <2>2, FS_CardinalityType
  <2>4. Cardinality((U \ {x}) \union {x}) = Cardinality(U \ {x}) + 1
    BY <2>2, FS_AddElement, x \notin U \ {x}
  <2> HIDE DEF U
  <2> QED  BY <2>1, <2>2, <2>3, <2>4
<1>3. x \in U <=> dir[x].dev
  BY DEF Using
<1>4. Using(d) = IF r.dev THEN (U \ {x}) \union {x} ELSE U \ {x}
  BY DEF Using, Records
<1> HIDE DEF d, U
<1>5. /\ Cardinality(Using(d)) = Cardinality(U) - (IF dir[x].dev THEN 1 ELSE 0)
                                + (IF r.dev THEN 1 ELSE 0)
      /\ dir[x].dev => Cardinality(U) > 0
  BY <1>2, <1>3, <1>4
<1> QED  BY <1>1, <1>5 DEF d, U

\* A record changes and the records under it are freed: as many users are gone
\* as the handler counts down.
LEMMA UsingFreed ==
    ASSUME Records(dir), NEW x \in Dirs, NEW r \in DirType,
           r.dev => r.live, r.isReadable => r.dev
    PROVE  /\ Records(Freed(x, r))
           /\ Cardinality(Held(Kids(x))) \in Nat
           /\ Cardinality(Using(Freed(x, r))) =
                Cardinality(Using(dir)) - (IF dir[x].dev THEN 1 ELSE 0)
                  - Cardinality(Held(Kids(x))) + (IF r.dev THEN 1 ELSE 0)
           /\ Cardinality(Held({x} \union Kids(x))) =
                Cardinality(Held(Kids(x))) + (IF dir[x].dev THEN 1 ELSE 0)
           /\ Cardinality(Held({x} \union Kids(x))) <= Cardinality(Using(dir))
<1> DEFINE U == Using(dir)
           K == Held(Kids(x))
           d == Freed(x, r)
           D == U \ ({x} \union K)
           X == Held({x} \union Kids(x))
<1>1. Gone \in DirType
  BY DEF Gone, DirType
<1>2. Records(d)
  BY <1>1 DEF Records, Freed, Gone
<1>3. K \subseteq U /\ x \notin K
  BY DEF Held, Kids, Using
<1>4. X = IF dir[x].dev THEN K \union {x} ELSE K
  BY DEF Held, Kids
<1>5. x \in U <=> dir[x].dev
  BY DEF Using
<1>6. Using(d) = IF r.dev THEN (U \ X) \union {x} ELSE U \ X
  <2>1. Using(d) = {y \in Dirs : IF y = x THEN r.dev
                                ELSE y \notin Kids(x) /\ dir[y].dev}
    BY DEF Using, Freed, Gone
  <2>2. \A y \in Dirs : y # x => (y \in U \ X <=> y \notin Kids(x) /\ dir[y].dev)
    BY DEF Using, Held
  <2>3. x \notin U \ X
    BY DEF Using, Held
  <2>4. U \ X \subseteq Dirs
    BY DEF Using
  <2> HIDE DEF U, X, d
  <2> QED  BY <2>1, <2>2, <2>3, <2>4
<1>7. X \subseteq U
  BY <1>3, <1>4, <1>5
<1>8. x \notin U \ X
  BY <1>4, <1>5
<1> HIDE DEF U, K, d, X
<1>9. IsFiniteSet(U) /\ Cardinality(U) \in Nat
  BY UsingFinite DEF U
<1>10. /\ IsFiniteSet(K) /\ Cardinality(K) \in Nat
       /\ IsFiniteSet(X) /\ Cardinality(X) \in Nat /\ Cardinality(X) <= Cardinality(U)
  BY <1>3, <1>7, <1>9, FS_Subset, FS_CardinalityType
<1>11. Cardinality(X) = Cardinality(K) + (IF dir[x].dev THEN 1 ELSE 0)
  BY <1>3, <1>4, <1>10, FS_AddElement
<1>12. IsFiniteSet(U \ X) /\ Cardinality(U \ X) = Cardinality(U) - Cardinality(X)
  <2>1. U \cap X = X
    BY <1>7
  <2> QED  BY <1>9, <2>1, FS_Difference
<1>13. Cardinality(Using(d)) = Cardinality(U) - Cardinality(X) + (IF r.dev THEN 1 ELSE 0)
  <2>1. CASE r.dev
    BY <1>6, <1>8, <1>12, <2>1, FS_AddElement
  <2>2. CASE ~r.dev
    BY <1>6, <1>9, <1>10, <1>12, <2>2
  <2> QED  BY <2>1, <2>2
<1> QED  BY <1>2, <1>9, <1>10, <1>11, <1>13 DEF U, K, d, X
-----------------------------------------------------------------------------
(* What the handlers do to both. *)

\* Nobody holds the device and the count is zero: the two agree again.
LEMMA SettleSettled ==
    ASSUME NEW t, NEW d, NEW m, Settled(t, d, m)
    PROVE  Settled(Settle(t, d, m), d, m) /\ Settle(t, d, m).mounted = t.mounted
<1>1. CASE ~(~m /\ \A x \in Dirs : ~d[x].dev)
  BY <1>1 DEF Settle
<1>2. CASE ~m /\ \A x \in Dirs : ~d[x].dev
  <2> DEFINE u == [t EXCEPT !.ignored = FALSE]
  <2>1. Settle(t, d, m) = u
    BY <1>2 DEF Settle
  <2>2. /\ DeviceOK(u) /\ u.count = t.count /\ u.mounted = t.mounted
        /\ u.count \in Nat
    BY DEF Settled, DeviceOK, DeviceType
  <2>3. Users(d, m) = 0
    <3>1. Using(d) = {}
      BY <1>2 DEF Using
    <3> QED  BY <1>2, <3>1, FS_EmptySet DEF Users
  <2> HIDE DEF u
  <2> QED  BY <2>1, <2>2, <2>3 DEF Settled
<1> QED  BY <1>1, <1>2

\* What is left to show of a step.
LEMMA StepKeeps ==
    ASSUME running' = TRUE, check' \in BOOLEAN, Settled(s', dir', moving'),
           s.mounted /\ ~s'.mounted /\ ~s.ignored => Users(dir', moving') = 0
    PROVE  IInv' /\ Quiet
<1>1. Uses' = Users(dir', moving')
  BY DEF Uses, Users, Using, Holders, Held
<1>2. IInv'
  BY <1>1 DEF IInv, Settled
<1>3. ASSUME Users(dir', moving') = 0  PROVE Readers' = {} /\ ~moving'
  <2>1. IsFiniteSet(Using(dir')) /\ Cardinality(Using(dir')) \in Nat
    BY UsingFinite
  <2>2. Cardinality(Using(dir')) = 0 /\ ~moving'
    BY <1>3, <2>1 DEF Users, Settled
  <2>3. Using(dir') = {}
    BY <2>1, <2>2, FS_EmptySet
  <2> QED  BY <2>2, <2>3 DEF Readers, Using, Settled, Records
<1> QED  BY <1>2, <1>3 DEF Quiet

\* t is the device when n users besides the subdirectories are still to be
\* counted down; they are those that count has in excess of the records.
LEMMA FreedKeeps ==
    ASSUME IInv, running, NEW x \in Dirs, NEW r \in DirType,
           r.dev => r.live, r.isReadable => r.dev,
           NEW t, DeviceOK(t), NEW n \in Nat,
           t.count + (IF dir[x].dev THEN 1 ELSE 0)
               <= Uses + n + (IF r.dev THEN 1 ELSE 0),
           ~t.ignored => t.count + (IF dir[x].dev THEN 1 ELSE 0)
                             = Uses + n + (IF r.dev THEN 1 ELSE 0),
           s.mounted => t.mounted,
           t.ignored => s.ignored \/ t.count = 0,
           NEW k \in Nat, k = n + Cardinality(Held(Kids(x))),
           NEW t2 \in Release(t, k),
           Becomes(t2, Freed(x, r))
    PROVE  IInv' /\ Quiet
<1> DEFINE d == Freed(x, r)
           H == Cardinality(Held(Kids(x)))
           b == IF dir[x].dev THEN 1 ELSE 0
           c == IF r.dev THEN 1 ELSE 0
<1>1. /\ Records(dir) /\ check \in BOOLEAN /\ moving \in BOOLEAN /\ t.count \in Nat
      /\ t.ignored \in BOOLEAN /\ Uses = Users(dir, moving)
  BY UsesUsers DEF IInv, DeviceOK, DeviceType
<1>2. /\ Records(d) /\ H \in Nat
      /\ Cardinality(Using(d)) = Cardinality(Using(dir)) - b - H + c
  BY <1>1, UsingFreed
<1>3. Users(d, moving) = Uses - b - H + c /\ Users(d, moving) \in Nat /\ Uses \in Nat
  <2>1. Cardinality(Using(d)) \in Nat /\ Cardinality(Using(dir)) \in Nat
    BY UsingFinite
  <2> HIDE DEF d, H
  <2> QED  BY <1>1, <1>2, <2>1 DEF Users
<1>4. /\ DeviceOK(t2)
      /\ t2.count = IF k < t.count THEN t.count - k ELSE 0
      /\ k < t.count => t2.ignored = t.ignored
      /\ t.ignored => t2.ignored
      /\ t2.mounted # t.mounted => t.count > 0 /\ k >= t.count
  BY <1>1, ReleaseCounts
<1>5. /\ s' = Settle(t2, d, moving) /\ dir' = d /\ moving' = moving
      /\ running' = running /\ check' = check
  BY DEF Becomes
<1>6. running = TRUE
  BY DEF IInv
<1> HIDE DEF d, H
<1>7. Settled(t2, d, moving)
  <2>1. t2.count <= Users(d, moving)
    BY <1>1, <1>2, <1>3, <1>4 DEF H
  <2>2. ASSUME ~t2.ignored  PROVE t2.count = Users(d, moving)
    BY <1>1, <1>2, <1>3, <1>4, <2>2 DEF H
  <2> QED  BY <1>1, <1>2, <1>4, <2>1, <2>2 DEF Settled
<1>8. Settled(s', dir', moving') /\ s'.mounted = t2.mounted
  BY <1>5, <1>7, SettleSettled
<1>9. ASSUME s.mounted, ~s'.mounted, ~s.ignored  PROVE Users(dir', moving') = 0
  <2>1. t.count > 0 /\ k >= t.count
    BY <1>4, <1>8, <1>9, Zenon
  <2>2. ~t.ignored
    BY <1>9, <2>1
  <2> QED  BY <1>1, <1>2, <1>3, <1>5, <2>1, <2>2 DEF H
<1> QED  BY <1>1, <1>5, <1>6, <1>8, <1>9, StepKeeps

LEMMA UnreadableKeeps ==
    ASSUME IInv, running, NEW x \in Dirs, NEW r \in DirType,
           NEW t, DeviceOK(t), NEW n \in Nat,
           t.count + (IF dir[x].dev THEN 1 ELSE 0) <= Uses + n,
           ~t.ignored => t.count + (IF dir[x].dev THEN 1 ELSE 0) = Uses + n,
           s.mounted => t.mounted,
           t.ignored => s.ignored \/ t.count = 0,
           Unreadable(x, t, n, r)
    PROVE  IInv' /\ Quiet
<1> DEFINE u == [r EXCEPT !.dev = FALSE, !.isReadable = FALSE]
           k == n + Cardinality(Held(Kids(x)))
<1>1. u \in DirType /\ u.dev = FALSE /\ u.isReadable = FALSE
  BY DEF DirType
<1>2. PICK t2 \in Release(t, k) : Becomes(t2, Freed(x, u))
  BY DEF Unreadable
<1>3. Cardinality(Held(Kids(x))) \in Nat
  BY DirAssumption, FS_Subset, FS_CardinalityType DEF Held, Kids
<1>4. k \in Nat
  BY <1>3
<1>5. Uses \in Nat
  BY UsesUsers, UsingFinite DEF Users
<1> HIDE DEF u
<1>6. /\ t.count + (IF dir[x].dev THEN 1 ELSE 0) <= Uses + n + (IF u.dev THEN 1 ELSE 0)
      /\ ~t.ignored => t.count + (IF dir[x].dev THEN 1 ELSE 0) = Uses + n + (IF u.dev THEN 1 ELSE 0)
  BY <1>1, <1>5
<1>7. k = n + Cardinality(Held(Kids(x)))
  OBVIOUS
<1> HIDE DEF k
<1> QED  BY <1>1, <1>2, <1>4, <1>6, <1>7, FreedKeeps

\* The facts of the invariant that the handlers' proofs use.
LEMMA Facts ==
    ASSUME IInv, NEW x \in Dirs
    PROVE  /\ Records(dir) /\ DeviceOK(s) /\ s.count \in Nat /\ Uses \in Nat
           /\ check \in BOOLEAN /\ moving \in BOOLEAN
           /\ dir[x] \in DirType
           /\ dir[x].dev => dir[x].live /\ Uses > 0
           /\ dir[x].isReadable => dir[x].dev
           /\ s.count <= Uses
           /\ running => running = TRUE
           /\ running /\ ~s.ignored => s.count = Uses
<1>1. /\ Records(dir) /\ DeviceOK(s) /\ s.count \in Nat
      /\ check \in BOOLEAN /\ moving \in BOOLEAN
      /\ dir[x] \in DirType
      /\ dir[x].dev => dir[x].live
      /\ dir[x].isReadable => dir[x].dev
      /\ s.count <= Uses
      /\ running => running = TRUE
      /\ running /\ ~s.ignored => s.count = Uses
  BY DEF IInv, DeviceOK, DeviceType, Records
<1>2. Cardinality(Using(dir)) \in Nat /\ IsFiniteSet(Using(dir))
  BY UsingFinite
<1>3. Uses \in Nat
  BY <1>2, UsesUsers DEF Users
<1>4. ASSUME dir[x].dev  PROVE Uses > 0
  <2>1. x \in Using(dir)
    BY <1>4 DEF Using
  <2>2. Cardinality(Using(dir)) # 0
    BY <1>2, <2>1, FS_EmptySet
  <2> QED  BY <1>2, <2>2, UsesUsers DEF Users
<1> QED  BY <1>1, <1>3, <1>4

\* x is entered when the device counts it as a user.
LEMMA EnteredKeeps ==
    ASSUME IInv, running, NEW x \in Dirs, NEW r \in DirType, r.live,
           NEW t, DeviceOK(t), t.count > 0,
           t.count + (IF dir[x].dev THEN 1 ELSE 0) <= Uses + 1,
           ~t.ignored => t.count + (IF dir[x].dev THEN 1 ELSE 0) = Uses + 1,
           s.mounted => t.mounted,
           t.ignored => s.ignored,
           Entered(x, t, r)
    PROVE  IInv' /\ Quiet
<1>1. CASE Lost(x, t, r)
  BY <1>1, UnreadableKeeps DEF Lost
<1>2. CASE Vanished(x, t, r)
  <2> DEFINE u == devumount_ignore(t)
             w == [r EXCEPT !.nomount = TRUE]
  <2>1. w \in DirType
    BY DEF DirType
  <2>2. ~t.ours
    BY <1>2 DEF Vanished, devcheck, DeviceOK
  <2>3. DeviceOK(u) /\ u.count = 0 /\ u.ignored /\ u.mounted = t.mounted
    BY <2>2 DEF devumount_ignore, DeviceOK, DeviceType
  <2>4. Unreadable(x, u, 0, w)
    BY <1>2 DEF Vanished
  <2>5. 0 + (IF dir[x].dev THEN 1 ELSE 0) <= Uses + 0
    BY Facts
  <2> HIDE DEF u, w
  <2> QED  BY <2>1, <2>3, <2>4, <2>5, UnreadableKeeps
<1>3. CASE Readable(x, t, r)
  <2> DEFINE w == [r EXCEPT !.dev = TRUE, !.isReadable = TRUE]
             d == [dir EXCEPT ![x] = w]
  <2>1. w \in DirType /\ w.dev = TRUE /\ w.live /\ w.isReadable = TRUE
    BY DEF DirType
  <2>2. Becomes(t, d)
    BY <1>3 DEF Readable
  <2>3. /\ Records(dir) /\ moving \in BOOLEAN /\ check \in BOOLEAN
        /\ running = TRUE
    BY Facts
  <2> HIDE DEF w
  <2>4. /\ Records(d)
        /\ Cardinality(Using(d)) =
             Cardinality(Using(dir)) - (IF dir[x].dev THEN 1 ELSE 0) + 1
    BY <2>1, <2>3, UsingSet
  <2>5. Cardinality(Using(dir)) \in Nat /\ t.count \in Nat
    BY UsingFinite DEF DeviceOK, DeviceType
  <2> HIDE DEF d
  <2>6. Users(d, moving) = Uses - (IF dir[x].dev THEN 1 ELSE 0) + 1
    BY <2>3, <2>4, <2>5, UsesUsers DEF Users
  <2>7. Settled(t, d, moving)
    BY <2>3, <2>4, <2>5, <2>6, Facts DEF Settled
  <2>8. /\ s' = Settle(t, d, moving) /\ dir' = d /\ moving' = moving
        /\ running' = running /\ check' = check
    BY <2>2 DEF Becomes
  <2>9. Settled(s', dir', moving') /\ s'.mounted = t.mounted
    BY <2>7, <2>8, SettleSettled
  <2> QED  BY <2>3, <2>8, <2>9, StepKeeps
<1> QED  BY <1>1, <1>2, <1>3 DEF Entered

\* dirStat, of a record that is there or of a new one.
LEMMA DirStatKeeps ==
    ASSUME IInv, running, NEW x \in Dirs, NEW r \in DirType, r.live,
           r.dev = dir[x].dev, NEW e, dirStat(x, r, e)
    PROVE  IInv' /\ Quiet
<1>f. /\ DeviceOK(s) /\ s.count \in Nat /\ Uses \in Nat /\ check \in BOOLEAN
      /\ dir[x].dev => Uses > 0
      /\ s.count <= Uses
      /\ ~s.ignored => s.count = Uses
  BY Facts
<1>1. CASE r.dev /\ s.count > 0
  <2>1. Entered(x, s, r)
    BY <1>1 DEF dirStat
  <2>2. s.count + (IF dir[x].dev THEN 1 ELSE 0) <= Uses + 1
    BY <1>f
  <2>3. ~s.ignored => s.count + (IF dir[x].dev THEN 1 ELSE 0) = Uses + 1
    BY <1>f, <1>1
  <2> QED  BY <1>f, <1>1, <2>1, <2>2, <2>3, EnteredKeeps, Zenon
<1>2. CASE ~(r.dev /\ s.count > 0)
  <2>1. PICK l \in (IF ~e /\ s.count = 0 THEN Looks(s) ELSE {s}) :
           IF (~e /\ l.count = 0 /\ ~l.table) \/ r.nomount
           THEN Unreadable(x, l, 0, r)
           ELSE \E q \in Mounting(l, r, e) :
                  IF q.ok THEN Entered(x, q.s, r) ELSE Unreadable(x, q.s, 0, r)
    BY <1>2 DEF dirStat
  <2>2. DeviceOK(l) /\ l.count = s.count /\ l.ignored = s.ignored /\ l.mounted = s.mounted
    BY <1>f, <2>1, LooksKeeps
  <2>3. /\ s.count + (IF dir[x].dev THEN 1 ELSE 0) <= Uses + 0
        /\ ~s.ignored => s.count + (IF dir[x].dev THEN 1 ELSE 0) = Uses + 0
    BY <1>f, <1>2
  <2>4. CASE Unreadable(x, l, 0, r)
    BY <1>f, <2>2, <2>3, <2>4, UnreadableKeeps
  <2>5. ASSUME NEW q \in mount_dlg(l, e),
               IF q.ok THEN Entered(x, q.s, r) ELSE Unreadable(x, q.s, 0, r)
        PROVE  IInv' /\ Quiet
    <3>1. /\ q.ok \in BOOLEAN /\ DeviceOK(q.s)
          /\ q.ok => q.s.count = s.count + 1
          /\ ~q.ok => s.count = 0 /\ q.s.count = 0
          /\ q.s.ignored = s.ignored
          /\ s.mounted => q.s.mounted
      BY <1>f, <2>2, MountDlgCounts
    <3>2. CASE q.ok
      <4>1. /\ q.s.count > 0
            /\ q.s.count + (IF dir[x].dev THEN 1 ELSE 0) <= Uses + 1
            /\ ~q.s.ignored => q.s.count + (IF dir[x].dev THEN 1 ELSE 0) = Uses + 1
        BY <1>f, <2>3, <3>1, <3>2
      <4> QED  BY <2>5, <3>1, <3>2, <4>1, EnteredKeeps
    <3>3. CASE ~q.ok
      BY <2>3, <2>5, <3>1, <3>3, UnreadableKeeps
    <3> QED  BY <3>2, <3>3
  <2>6. CASE (~e /\ l.count = 0 /\ ~l.table) \/ r.nomount
    BY <2>1, <2>4, <2>6
  <2>7. CASE ~((~e /\ l.count = 0 /\ ~l.table) \/ r.nomount)
    <3>1. PICK q \in Mounting(l, r, e) :
            IF q.ok THEN Entered(x, q.s, r) ELSE Unreadable(x, q.s, 0, r)
      BY <2>1, <2>7
    <3>2. q \in mount_dlg(l, e)
      BY <2>7, <3>1 DEF Mounting
    <3> QED  BY <2>5, <3>1, <3>2
  <2> QED  BY <2>6, <2>7
<1> QED  BY <1>1, <1>2
-----------------------------------------------------------------------------
(* The actions. *)

LEMMA CallKeeps ==
    ASSUME IInv, running, NEW x \in Dirs, Call(x)
    PROVE  IInv' /\ Quiet
<1>f. /\ Records(dir) /\ DeviceOK(s) /\ s.count \in Nat /\ Uses \in Nat
      /\ check \in BOOLEAN /\ moving \in BOOLEAN /\ running = TRUE
      /\ dir[x] \in DirType
      /\ dir[x].dev => dir[x].live
      /\ dir[x].isReadable => dir[x].dev
      /\ s.count <= Uses
      /\ ~s.ignored => s.count = Uses
  BY Facts
<1>k. Cardinality(Held(Kids(x))) \in Nat
  BY DirAssumption, FS_Subset, FS_CardinalityType DEF Held, Kids
<1>h. Cardinality(Held({x} \union Kids(x))) =
        Cardinality(Held(Kids(x))) + (IF dir[x].dev THEN 1 ELSE 0)
  BY <1>f, UsingFreed
<1>1. CASE Create(x)
  <2> DEFINE r == [Gone EXCEPT !.live = TRUE, !.nomount = dir[Parent[x]].nomount]
  <2>1. ~dir[x].live /\ dirStat(x, r, FALSE)
    BY <1>1 DEF Create
  <2>2. r \in DirType /\ r.live /\ r.dev = FALSE
    <3>1. dir[Parent[x]].nomount \in BOOLEAN
      BY <1>f, DirAssumption DEF Records, DirType
    <3> QED  BY <3>1 DEF Gone, DirType
  <2>3. dir[x].dev = FALSE
    BY <1>f, <2>1 DEF DirType
  <2> HIDE DEF r
  <2> QED  BY <2>1, <2>2, <2>3, DirStatKeeps
<1>2. CASE Reread(x) \/ Open(x) \/ dirUpdate(x)
  <2>1. dir[x].live /\ \E e \in BOOLEAN : dirStat(x, dir[x], e)
    BY <1>2 DEF Reread, Open, dirUpdate
  <2> QED  BY <1>f, <2>1, DirStatKeeps
<1>3. CASE ScanFails(x)
  <2> DEFINE r == [dir[x] EXCEPT !.isReadable = FALSE]
  <2>1. PICK t2 \in Release(s, Cardinality(Held(Kids(x)))) : Becomes(t2, Freed(x, r))
    BY <1>3 DEF ScanFails
  <2>2. r \in DirType /\ r.live = dir[x].live /\ r.dev = dir[x].dev /\ r.isReadable = FALSE
    BY <1>f DEF DirType
  <2> HIDE DEF r
  <2>3. 0 + Cardinality(Held(Kids(x))) = Cardinality(Held(Kids(x)))
    BY <1>k
  <2>4. /\ s.count + (IF dir[x].dev THEN 1 ELSE 0) <= Uses + 0 + (IF r.dev THEN 1 ELSE 0)
        /\ ~s.ignored => s.count + (IF dir[x].dev THEN 1 ELSE 0)
                            = Uses + 0 + (IF r.dev THEN 1 ELSE 0)
    BY <1>f, <2>2
  <2> QED  BY <1>f, <1>k, <2>1, <2>2, <2>3, <2>4, FreedKeeps
<1>4. CASE dirFree(x) \/ dirUnmountAll(x)
  <2> DEFINE b == IF dir[x].dev THEN 1 ELSE 0
  <2>1. PICK r \in {Gone, [dir[x] EXCEPT !.dev = FALSE, !.isReadable = FALSE, !.nomount = TRUE]} :
          \E t2 \in Release(s, Cardinality(Held({x} \union Kids(x)))) : Becomes(t2, Freed(x, r))
    BY <1>4 DEF dirFree, dirUnmountAll
  <2>2. PICK t2 \in Release(s, Cardinality(Held({x} \union Kids(x)))) : Becomes(t2, Freed(x, r))
    BY <2>1
  <2>3. r \in DirType /\ r.dev = FALSE /\ r.isReadable = FALSE
    <3>1. CASE r = Gone
      BY <3>1 DEF Gone, DirType
    <3>2. CASE r = [dir[x] EXCEPT !.dev = FALSE, !.isReadable = FALSE, !.nomount = TRUE]
      BY <1>f, <3>2 DEF DirType
    <3> QED  BY <2>1, <3>1, <3>2
  <2>4. b \in Nat /\ Cardinality(Held({x} \union Kids(x))) = b + Cardinality(Held(Kids(x)))
    BY <1>k, <1>h
  <2>5. /\ s.count + b <= Uses + b + (IF r.dev THEN 1 ELSE 0)
        /\ ~s.ignored => s.count + b = Uses + b + (IF r.dev THEN 1 ELSE 0)
    BY <1>f, <2>3
  <2>6. Cardinality(Held({x} \union Kids(x))) \in Nat
    BY <1>k, <2>4
  <2> QED  BY <1>f, <2>2, <2>3, <2>4, <2>5, <2>6, FreedKeeps
<1>5. CASE remount(x)
  <2>1. /\ Records(dir') /\ \A y \in Dirs : dir'[y].dev = dir[y].dev
    BY <1>5, <1>f DEF remount, Records, DirType
  <2>2. Using(dir') = Using(dir)
    BY <2>1 DEF Using
  <2>3. /\ s' = s /\ moving' = moving /\ running' = running /\ check' = check
    BY <1>5 DEF remount
  <2>4. Settled(s', dir', moving')
    BY <1>f, <2>1, <2>2, <2>3, UsesUsers DEF Settled, Users
  <2> QED  BY <1>f, <2>3, <2>4, StepKeeps
<1> QED  BY <1>1, <1>2, <1>3, <1>4, <1>5 DEF Call

LEMMA DeviceStepKeeps ==
    ASSUME IInv, running, ~moving /\ (CheckTable \/ CheckMountsCB \/ initdevs)
    PROVE  IInv' /\ Quiet
<1>f. /\ Records(dir) /\ DeviceOK(s) /\ s.count \in Nat /\ Uses \in Nat
      /\ check \in BOOLEAN /\ moving \in BOOLEAN /\ running = TRUE
      /\ s.count <= Users(dir, moving)
      /\ ~s.ignored => s.count = Users(dir, moving)
      /\ Users(dir, moving) \in Nat
  BY UsesUsers, UsingFinite DEF IInv, DeviceOK, DeviceType, Users
<1>1. CASE CheckTable
  <2>1. s' \in Looks(s) /\ dir' = dir /\ moving' = moving /\ running' = running /\ check' = check
    BY <1>1 DEF CheckTable
  <2>2. DeviceOK(s') /\ s'.count = s.count /\ s'.ignored = s.ignored /\ s'.mounted = s.mounted
    BY <1>f, <2>1, LooksKeeps
  <2>3. Settled(s', dir', moving')
    BY <1>f, <2>1, <2>2 DEF Settled
  <2> QED  BY <1>f, <2>1, <2>2, <2>3, StepKeeps
<1>2. CASE CheckMountsCB
  <2>1. s' = s /\ dir' = dir /\ moving' = moving /\ running' = running /\ check' \in BOOLEAN
    BY <1>2 DEF CheckMountsCB
  <2>2. Settled(s', dir', moving')
    BY <1>f, <2>1 DEF Settled
  <2> QED  BY <1>f, <2>1, <2>2, StepKeeps
<1>3. CASE initdevs
  <2> DEFINE t == [s EXCEPT !.count = 0, !.res = FALSE, !.chk = FALSE,
                            !.ignored = TRUE, !.forgotten = @ \/ s.ours]
             t1 == [s EXCEPT !.count = 0]
             t2 == [t1 EXCEPT !.res = FALSE]
             t3 == [t2 EXCEPT !.chk = FALSE]
             t4 == [t3 EXCEPT !.ignored = TRUE]
  <2>1. /\ s' = Settle(t, dir, FALSE) /\ dir' = dir /\ moving' = moving
        /\ running' = running /\ check' = check
    BY <1>3 DEF initdevs
  <2>2. /\ t4 \in DeviceType /\ t4.count = 0 /\ t4.ignored = TRUE /\ t4.ours = s.ours
        /\ t4.mounted = s.mounted /\ t4.table = s.table /\ t4.failed = s.failed /\ t4.forgotten = s.forgotten
    <3>1. /\ t1 \in DeviceType /\ t1.count = 0 /\ t1.ours = s.ours
          /\ t1.mounted = s.mounted /\ t1.table = s.table /\ t1.failed = s.failed /\ t1.forgotten = s.forgotten
      BY <1>f DEF DeviceOK, DeviceType
    <3> HIDE DEF t1
    <3>2. /\ t2 \in DeviceType /\ t2.count = 0 /\ t2.ours = s.ours
          /\ t2.mounted = s.mounted /\ t2.table = s.table /\ t2.failed = s.failed /\ t2.forgotten = s.forgotten
      BY <3>1 DEF DeviceType
    <3> HIDE DEF t2
    <3>3. /\ t3 \in DeviceType /\ t3.count = 0 /\ t3.ours = s.ours
          /\ t3.mounted = s.mounted /\ t3.table = s.table /\ t3.failed = s.failed /\ t3.forgotten = s.forgotten
      BY <3>2 DEF DeviceType
    <3> HIDE DEF t3
    <3> QED  BY <3>3 DEF DeviceType
  <2>3. t = [t4 EXCEPT !.forgotten = s.forgotten \/ s.ours]
    OBVIOUS
  <2> HIDE DEF t4, t
  <2>4. s.ours \in BOOLEAN /\ s.forgotten \in BOOLEAN
    BY <1>f DEF DeviceOK, DeviceType
  <2>5. /\ t \in DeviceType /\ t.count = 0 /\ t.ignored = TRUE /\ t.ours = s.ours
        /\ t.mounted = s.mounted /\ t.table = s.table
        /\ t.forgotten = (s.forgotten \/ s.ours)
    BY <2>2, <2>3, <2>4 DEF DeviceType
  <2>6. Settled(t, dir, FALSE)
    <3>1. 0 <= Users(dir, FALSE)
      BY UsingFinite DEF Users
    <3>2. DeviceOK(t)
      BY <1>f, <2>5 DEF DeviceOK
    <3> QED  BY <1>f, <2>5, <3>1, <3>2 DEF Settled
  <2>7. Settled(s', dir', FALSE) /\ s'.mounted = s.mounted
    BY <2>1, <2>5, <2>6, SettleSettled
  <2>8. moving' = FALSE
    BY <1>f, <2>1
  <2> QED  BY <1>f, <2>1, <2>7, <2>8, StepKeeps
<1> QED  BY <1>1, <1>2, <1>3

LEMMA MovBeginKeeps ==
    ASSUME IInv, running, MovBegin
    PROVE  IInv' /\ Quiet
<1> DEFINE N == Users(dir, FALSE)
           M == Users(dir, TRUE)
<1>f. /\ Records(dir) /\ DeviceOK(s) /\ s.count \in Nat
      /\ check \in BOOLEAN /\ moving = FALSE /\ running = TRUE
      /\ s.count <= N
      /\ ~s.ignored => s.count = N
      /\ N \in Nat /\ M = N + 1
  BY UsesUsers, UsingFinite DEF IInv, DeviceOK, DeviceType, Users, MovBegin
<1> HIDE DEF N, M
<1>1. PICK q \in mount_dlg(s, TRUE) : s' = q.s /\ moving' = q.ok
  BY DEF MovBegin
<1>2. dir' = dir /\ running' = running /\ check' = check
  BY DEF MovBegin
<1>3. /\ q.ok \in BOOLEAN /\ DeviceOK(q.s)
      /\ q.ok => q.s.count = s.count + 1
      /\ ~q.ok => s.count = 0 /\ q.s.count = 0
      /\ q.s.ignored = s.ignored
      /\ s.mounted => q.s.mounted
  BY <1>f, MountDlgCounts
<1>4. Settled(s', dir', moving')
  <2>1. CASE q.ok
    <3>1. /\ q.s.count <= M
          /\ ~q.s.ignored => q.s.count = M
      BY <1>f, <1>3, <2>1
    <3>2. moving' = TRUE
      BY <1>1, <1>3, <2>1
    <3> QED  BY <1>f, <1>1, <1>2, <1>3, <3>1, <3>2, Zenon DEF Settled, N, M
  <2>2. CASE ~q.ok
    <3>1. /\ q.s.count <= N
          /\ ~q.s.ignored => q.s.count = N
      BY <1>f, <1>3, <2>2
    <3>2. moving' = FALSE
      BY <1>1, <1>3, <2>2
    <3> QED  BY <1>f, <1>1, <1>2, <1>3, <3>1, <3>2, Zenon DEF Settled, N, M
  <2> QED  BY <2>1, <2>2
<1> QED  BY <1>f, <1>1, <1>2, <1>3, <1>4, StepKeeps

LEMMA MovEndKeeps ==
    ASSUME IInv, running, MovEnd
    PROVE  IInv' /\ Quiet
<1> DEFINE N == Users(dir, FALSE)
<1>f. /\ Records(dir) /\ DeviceOK(s) /\ s.count \in Nat
      /\ check \in BOOLEAN /\ running = TRUE
      /\ s.count <= N + 1
      /\ ~s.ignored => s.count = N + 1
      /\ N \in Nat
  BY UsesUsers, UsingFinite DEF IInv, DeviceOK, DeviceType, Users, MovEnd
<1> HIDE DEF N
<1>1. PICK t \in Release(s, 1) : s' = Settle(t, dir, FALSE)
  BY DEF MovEnd
<1>2. dir' = dir /\ running' = running /\ check' = check /\ moving' = FALSE
  BY DEF MovEnd
<1>3. /\ DeviceOK(t)
      /\ t.count = IF 1 < s.count THEN s.count - 1 ELSE 0
      /\ 1 < s.count => t.ignored = s.ignored
      /\ s.ignored => t.ignored
      /\ t.mounted # s.mounted => s.count > 0 /\ 1 >= s.count
  BY <1>f, ReleaseCounts
<1>4. Settled(t, dir, FALSE)
  <2>1. t.count <= N
    BY <1>f, <1>3
  <2>2. ASSUME ~t.ignored  PROVE t.count = N
    <3>1. ~s.ignored
      BY <1>3, <2>2
    <3> QED  BY <1>f, <1>3, <3>1
  <2> QED  BY <1>f, <1>3, <2>1, <2>2, Zenon DEF Settled, N
<1>5. Settled(s', dir', moving') /\ s'.mounted = t.mounted
  BY <1>1, <1>2, <1>4, SettleSettled
<1>6. ASSUME s.mounted, ~s'.mounted, ~s.ignored  PROVE Users(dir', moving') = 0
  <2>1. s.count > 0 /\ 1 >= s.count
    BY <1>3, <1>5, <1>6, Zenon
  <2>2. s.count = N + 1
    BY <1>f, <1>6
  <2>3. N = 0
    BY <1>f, <2>1, <2>2
  <2> QED  BY <1>2, <2>3, Zenon DEF N
<1> QED  BY <1>f, <1>2, <1>5, <1>6, StepKeeps

\* The end of xplore: cleanup calls the unmount action once, and asks nobody.
LEMMA QuitKeeps ==
    ASSUME IInv, running, Quit
    PROVE  IInv'
<1>f. /\ Records(dir) /\ DeviceOK(s) /\ s.count \in Nat /\ Uses \in Nat
      /\ {check, moving} \subseteq BOOLEAN /\ s.count <= Uses
  BY UsesUsers, UsingFinite DEF IInv, DeviceOK, DeviceType, Users
<1>1. running' = FALSE /\ dir' = dir /\ check' = check /\ moving' = moving /\ Uses' = Uses
  BY DEF Quit, Uses, Holders, Held
<1>2. DeviceOK(s') /\ s'.count <= Uses /\ (UmountAction /\ s'.ours => s'.failed \/ s'.forgotten)
  <2>1. CASE s.count = 0
    BY <1>f, <2>1 DEF Quit, DeviceOK
  <2>2. CASE s.count # 0
    <3> DEFINE o == [s EXCEPT !.count = 1]
    <3>1. PICK m \in Tried(o) : s' = IF StillThere(m) THEN [m EXCEPT !.failed = TRUE] ELSE Dropped(m)
      BY <2>2 DEF Quit
    <3>2. DeviceOK(o) /\ o.count = 1
      BY <1>f, <2>2 DEF DeviceOK, DeviceType
    <3> HIDE DEF o
    <3>3. DeviceOK(m) /\ m.count = 1
      <4>1. CASE m = o
        BY <3>2, <4>1
      <4>2. CASE m = get_mnt_table(o)
        BY <3>2, <4>2 DEF get_mnt_table, DeviceOK, DeviceType
      <4>3. CASE m = get_mnt_table(Unmounted(o))
        BY <3>2, <4>3, UnmountedIs DEF get_mnt_table, DeviceOK, DeviceType
      <4> QED  BY <3>1, <4>1, <4>2, <4>3 DEF Tried, Umounts
    <3>4. CASE StillThere(m)
      <4> DEFINE u == [m EXCEPT !.failed = TRUE]
      <4>1. s' = u
        BY <3>1, <3>4
      <4>2. DeviceOK(u) /\ u.count = 1 /\ u.failed = TRUE
        BY <3>3 DEF DeviceOK, DeviceType
      <4> HIDE DEF u
      <4>3. s.count > 0
        BY <1>f, <2>2
      <4> QED  BY <1>f, <4>1, <4>2, <4>3
    <3>5. CASE ~StillThere(m)
      <4>1. s' = Dropped(m)
        BY <3>1, <3>5
      <4>2. /\ Dropped(m) \in DeviceType /\ Dropped(m).count = 0
            /\ Dropped(m).ours = m.ours /\ Dropped(m).mounted = m.mounted
            /\ Dropped(m).table = m.table /\ Dropped(m).forgotten = m.forgotten
            /\ Dropped(m).failed = (m.failed \/ (m.res /\ UmountAction /\ m.mounted))
        BY <3>3, OptionAssumption DEF Dropped, DeviceOK, DeviceType
      <4> HIDE DEF Dropped
      <4>3. DeviceOK(Dropped(m)) /\ (UmountAction /\ Dropped(m).ours => Dropped(m).failed \/ Dropped(m).forgotten)
        BY <3>3, <4>2 DEF DeviceOK
      <4> QED  BY <1>f, <4>1, <4>2, <4>3
    <3> QED  BY <3>4, <3>5
  <2> QED  BY <2>1, <2>2
<1> QED  BY <1>f, <1>1, <1>2 DEF IInv

LEMMA OthersKeep ==
    ASSUME IInv, running, Others
    PROVE  IInv'
<1>1. /\ dir' = dir /\ check' = check /\ moving' = moving /\ running' = running
      /\ Uses' = Uses
  BY DEF Others, Uses, Holders, Held
<1>2. DeviceOK(s') /\ s'.count = s.count /\ s'.ignored = s.ignored
  <2>1. DeviceOK(s) /\ s \in DeviceType
    BY DEF IInv, DeviceOK
  <2>2. CASE OtherMounts
    BY <2>1, <2>2 DEF OtherMounts, DeviceOK, DeviceType
  <2>3. CASE OtherUmounts
    BY <2>1, <2>3, UnmountedIs DEF OtherUmounts, DeviceOK
  <2> QED  BY <2>2, <2>3 DEF Others
<1> QED  BY <1>1, <1>2 DEF IInv

LEMMA InitIInv == Init => IInv
<1> SUFFICES ASSUME Init  PROVE IInv
  OBVIOUS
<1>1. DeviceOK(s) /\ s.count = 0 /\ s.ours = FALSE
  <2>1. s \in [count : {0}, res : {FALSE}, chk : {FALSE}, mounted : BOOLEAN,
              table : BOOLEAN, ours : {FALSE}, ignored : {FALSE}, failed : {FALSE},
              forgotten : {FALSE}]
    BY DEF Init
  <2>2. s.count = 0 /\ s.ours = FALSE
    BY <2>1, Zenon
  <2>3. s \in DeviceType
    <3>1. {0} \subseteq Nat /\ {FALSE} \subseteq BOOLEAN
      OBVIOUS
    <3> QED  BY <2>1, <3>1, Zenon DEF DeviceType
  <2> QED  BY <2>2, <2>3 DEF DeviceOK
<1>2. Records(dir) /\ \A x \in Dirs : ~dir[x].dev
  BY DEF Init, Records, Gone, DirType
<1>3. Holders = {}
  BY <1>2 DEF Holders, Held
<1>4. Uses = 0
  BY <1>3, FS_EmptySet DEF Uses, Init
<1>5. {running, check, moving} \subseteq BOOLEAN /\ running = TRUE
  BY DEF Init
<1> QED  BY <1>1, <1>2, <1>4, <1>5 DEF IInv

LEMMA NextIInv ==
    ASSUME IInv, [Next]_vars
    PROVE  IInv' /\ (running' => UNCHANGED vars \/ Others \/ Quiet)
<1>1. CASE UNCHANGED vars
  <2>1. Uses' = Uses
    BY <1>1 DEF vars, Uses, Holders, Held
  <2> QED  BY <1>1, <2>1 DEF vars, IInv
<1>2. CASE running /\ Xplore
  <2>1. ASSUME NEW x \in Dirs, Call(x)  PROVE IInv' /\ Quiet
    BY <1>2, <2>1, CallKeeps
  <2>2. CASE ~moving /\ (CheckTable \/ CheckMountsCB \/ initdevs)
    BY <1>2, <2>2, DeviceStepKeeps
  <2>3. CASE MovBegin
    BY <1>2, <2>3, MovBeginKeeps
  <2>4. CASE MovEnd
    BY <1>2, <2>4, MovEndKeeps
  <2>5. CASE Quit
    BY <1>2, <2>5, QuitKeeps DEF Quit
  <2> QED  BY <1>2, <2>1, <2>2, <2>3, <2>4, <2>5 DEF Xplore
<1>3. CASE running /\ Others
  BY <1>3, OthersKeep
<1> QED  BY <1>1, <1>2, <1>3 DEF Next, Ended

\* The invariant that the theorems below follow from.
THEOREM SpecIInv == Spec => []IInv
BY InitIInv, NextIInv, PTL DEF Spec

\* The use count of a device (devs[].count of devmount.c) is the number of
\* directories and file operations that hold it, for any forest of directories
\* and any device, through every mount and unmount that fails half-way.
THEOREM DeviceCount == Spec => []CountIsHolders
<1>1. IInv => CountIsHolders
  BY DEF IInv, CountIsHolders, TypeOK, DeviceOK, Records
<1> QED  BY <1>1, SpecIInv, PTL

\* xplore leaves nothing mounted that it mounted itself (umount_dlg and cleanup),
\* unless the unmount command failed and the user, or the end, passed over it, or
\* initdevs (ReloadConfigCB) made the record anew while the device was mounted.
THEOREM DeviceLeftAsFound == Spec => []LeftAsFound
<1>1. IInv => LeftAsFound
  BY UsesUsers, UsingFinite DEF IInv, LeftAsFound, DeviceOK, DeviceType, Users
<1> QED  BY <1>1, SpecIInv, PTL

\* No step of xplore unmounts the device under a directory that it shows or a
\* file operation (umount_dlg counts them down), unless the count was cleared.
THEOREM DeviceUnmount == Spec => NoUmountUnderReader
<1>1. ASSUME IInv, [Next]_vars
      PROVE  [s.mounted /\ ~s'.mounted /\ ~s.ignored /\ running' =>
                  Others \/ (Readers' = {} /\ ~moving')]_vars
  BY <1>1, NextIInv DEF Quiet, vars
<1> QED  BY <1>1, SpecIInv, PTL DEF Spec, NoUmountUnderReader
=============================================================================
