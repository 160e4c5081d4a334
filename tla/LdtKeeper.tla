----------------------------- MODULE LdtKeeper -----------------------------
(***************************************************************************)
(* The fs segment that Win32 code needs (wine/ldt_keeper.c) and the        *)
(* elements that set it up in NULL->READY and restore it in READY->NULL.   *)
(*                                                                         *)
(* The process has one LDT entry for it.  The first user maps a page and   *)
(* installs the entry, later users find the entry and count themselves,    *)
(* and the user that finds the count at zero takes everything down.  None  *)
(* of the steps is synchronised with another thread's.                     *)
(***************************************************************************)
EXTENDS Integers, FiniteSets

CONSTANTS User,        \* elements that use the segment, one thread each
          Page,        \* pages mmap can return
          NoPage,      \* no page: an empty LDT entry, a null ldt_fs
          Serialized   \* Setup and Restore calls do not overlap

ASSUME UserAssumption == IsFiniteSet(User)
ASSUME PageAssumption == NoPage \notin Page
ASSUME SerializedAssumption == Serialized \in BOOLEAN

VARIABLES
  ldt,      \* base address in the process's LDT entry
  mapped,   \* pages that are mapped
  count,    \* global_usage_count
  global,   \* global_ldt_fs.fs_seg
  seg,      \* fs_seg of the ldt_fs_t each user holds
  stage     \* where each user is

ldtVars == <<ldt, mapped, count, global, seg, stage>>

Between == {"null", "ready"}    \* the states of an element between the calls

LdtInit ==
  /\ ldt = NoPage /\ mapped = {} /\ count = 0 /\ global = NoPage
  /\ seg = [u \in User |-> NoPage]
  /\ stage = [u \in User |-> "null"]

Goto(u, from, to) == stage[u] = from /\ stage' = [stage EXCEPT ![u] = to]
MayCall(u) == Serialized => \A v \in User \ {u} : stage[v] \in Between

-----------------------------------------------------------------------------
(* Setup_LDT_Keeper *)

\* Mutant: the entry is installed again without a look at it.
TestEntryNever(u) ==
  /\ Goto(u, "null", "map")
  /\ MayCall(u)
  /\ UNCHANGED <<ldt, mapped, count, global, seg>>

\* modify_ldt(0, ...): is the entry there already?
TestEntry(u) ==
  /\ Goto(u, "null", IF ldt = NoPage THEN "map" ELSE "share")
  /\ MayCall(u)
  /\ UNCHANGED <<ldt, mapped, count, global, seg>>

\* /dev/zero cannot be opened or mapped: null is returned, and the element goes
\* to READY with it.
MapFails(u) ==
  /\ Goto(u, "map", "ready")
  /\ UNCHANGED <<ldt, mapped, count, global, seg>>

MapPage(u) ==
  /\ Goto(u, "map", "install")
  /\ \E p \in Page \ mapped :
       /\ mapped' = mapped \cup {p}
       /\ seg' = [seg EXCEPT ![u] = p]
  /\ UNCHANGED <<ldt, count, global>>

Install(u) ==
  /\ Goto(u, "install", "publish")
  /\ ldt' = seg[u]
  /\ UNCHANGED <<mapped, count, global, seg>>

\* memcpy(&global_ldt_fs, ldt_fs): what later users copy.
Publish(u) ==
  /\ Goto(u, "publish", "ready")
  /\ global' = seg[u]
  /\ UNCHANGED <<ldt, mapped, count, seg>>

\* global_usage_count++ and the copy.
Share(u) ==
  /\ Goto(u, "share", "ready")
  /\ count' = count + 1
  /\ seg' = [seg EXCEPT ![u] = global]
  /\ UNCHANGED <<ldt, mapped, global>>

-----------------------------------------------------------------------------
(* Restore_LDT_Keeper *)

RestoreNull(u) ==
  /\ seg[u] = NoPage
  /\ MayCall(u)
  /\ Goto(u, "ready", "null")
  /\ UNCHANGED <<ldt, mapped, count, global, seg>>

\* if (global_usage_count)
TestCount(u) ==
  /\ seg[u] # NoPage
  /\ MayCall(u)
  /\ Goto(u, "ready", IF count # 0 THEN "uncount" ELSE "unmap")
  /\ UNCHANGED <<ldt, mapped, count, global, seg>>

\* "shared LDT. only the last user can free."
Uncount(u) ==
  /\ Goto(u, "uncount", "null")
  /\ count' = count - 1
  /\ seg' = [seg EXCEPT ![u] = NoPage]
  /\ UNCHANGED <<ldt, mapped, global>>

Unmap(u) ==
  /\ Goto(u, "unmap", "clear")
  /\ mapped' = mapped \ {seg[u]}
  /\ seg' = [seg EXCEPT ![u] = NoPage]
  /\ UNCHANGED <<ldt, count, global>>

\* "mark LDT entry as free again"
ClearEntry(u) ==
  /\ Goto(u, "clear", "null")
  /\ ldt' = NoPage
  /\ UNCHANGED <<mapped, count, global, seg>>

-----------------------------------------------------------------------------
SetupStep(u) ==
  TestEntry(u) \/ MapFails(u) \/ MapPage(u) \/ Install(u) \/ Publish(u) \/ Share(u)
RestoreStep(u) ==
  RestoreNull(u) \/ TestCount(u) \/ Uncount(u) \/ Unmap(u) \/ ClearEntry(u)

LdtNext == \E u \in User : SetupStep(u) \/ RestoreStep(u)

LdtSpec == LdtInit /\ [][LdtNext]_ldtVars

-----------------------------------------------------------------------------
(* Properties *)

Stages == Between \cup {"map", "install", "publish", "share", "uncount", "unmap", "clear"}

\* Every variable has its type: the entry and the copies name pages or nothing,
\* and the usage count, an int, does not go below zero.
LdtTypeOK ==
  /\ ldt \in Page \cup {NoPage} /\ global \in Page \cup {NoPage}
  /\ mapped \subseteq Page
  /\ count \in Nat
  /\ seg \in [User -> Page \cup {NoPage}]
  /\ stage \in [User -> Stages]

\* Users that were given the segment and have not begun to restore it.
Holders == {u \in User : stage[u] = "ready" /\ seg[u] # NoPage}

\* The DLLs of every user run on a segment that is installed and mapped, and
\* it is the one the user holds.
HoldersHaveSegment == \A u \in Holders : seg[u] = ldt /\ ldt \in mapped

\* When no user holds the segment and no call is under way, the page is
\* unmapped and the entry free: nothing leaks over any number of cycles.
NothingLeft ==
  (\A u \in User : stage[u] \in Between) /\ Holders = {} => ldt = NoPage /\ mapped = {}

\* "shared LDT. only the last user can free.": the page is unmapped and the
\* entry cleared only when no user is left.
OnlyLastUserFrees ==
  [][\A u \in User : Unmap(u) \/ ClearEntry(u) => Holders = {}]_ldtVars

-----------------------------------------------------------------------------
(* The inductive invariant for calls that do not overlap. *)

\* Users whose ldt_fs_t names a page.
Users == {u \in User : seg[u] # NoPage}

\* At most one user is inside a call.
OneCall == \A u, v \in User : stage[u] \notin Between /\ stage[v] \notin Between => u = v

\* What the location of a call says about its user's page.
PageByLocation ==
  \A u \in User :
    /\ stage[u] \in {"null", "map", "share", "clear"} => u \notin Users
    /\ stage[u] \in {"install", "publish", "uncount", "unmap"} => u \in Users
    /\ stage[u] \in {"map", "clear"} => Users = {}
    /\ stage[u] \in {"install", "publish", "unmap"} => count = 0
    /\ stage[u] = "share" => Users # {}
    /\ stage[u] = "uncount" => count # 0

\* The count is the number of users besides the first.
CountIsUsers == count = IF Users = {} THEN 0 ELSE Cardinality(Users) - 1

\* All users name one page: the only one mapped, and the one in the entry but
\* while the entry is being installed or cleared.
OnePage ==
  /\ Users = {} => mapped = {}
  /\ Users = {} /\ (\A u \in User : stage[u] # "clear") => ldt = NoPage
  /\ \A u \in Users : mapped = {seg[u]}
  /\ \A u \in Users : ldt = IF stage[u] = "install" THEN NoPage ELSE seg[u]
  /\ Users # {} /\ (\A u \in User : stage[u] \notin {"install", "publish"}) => global = ldt

SerialInv == LdtTypeOK /\ OneCall /\ PageByLocation /\ CountIsUsers /\ OnePage
=============================================================================
