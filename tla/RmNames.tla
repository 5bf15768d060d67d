------------------------------ MODULE RmNames ------------------------------
(***************************************************************************)
(* The resource-manager namespace of one firmware run: Ledger of           *)
(* src/gsp_rm_names.zig.  Clients reserve a root name with a range of      *)
(* object names; dynamic children take further ranges of the same counter. *)
(* Names are burned: counters never go back.  An uncertain owner is        *)
(* retained, and only a proven device reset lets a retained child go.      *)
(*                                                                         *)
(* Callers may present any lease they were ever given, so every operation  *)
(* is enabled for all leases of the histories issued and issuedKids.       *)
(***************************************************************************)
EXTENDS Naturals

CONSTANTS MaxClients,     \* max_clients: root slots
          MaxClientNames, \* client_mask + 1
          Table,          \* child slots of the bootstrap table
          Residents,      \* caller-owned ResidentChildren nodes
          ObjectFirst,    \* object_first
          ObjectEnd,      \* object_end
          Counts          \* range sizes callers ask for (u16, never 0)

ClientSlots == 0 .. MaxClients - 1
Places == Table \cup Residents

ASSUME NamesAssumption ==
    /\ MaxClients \in Nat \ {0} /\ MaxClientNames \in Nat
    /\ ObjectFirst \in Nat \ {0} /\ ObjectEnd \in Nat /\ ObjectFirst <= ObjectEnd
    /\ Counts \subseteq Nat \ {0}
    /\ Table \subseteq Nat /\ Table \cap Residents = {}

VARIABLES next_client, next_object,
          entries,        \* root slots
          children,       \* child table and resident tree
          quiescent,      \* the reset owner has proved the device quiescent
          issued,         \* history: every root lease ever handed out
          issuedKids,     \* history: every child lease ever handed out
          retired         \* history: every lease, root or child, ever retired

vars == <<next_client, next_object, entries, children, quiescent,
          issued, issuedKids, retired>>

Leases == [slot : ClientSlots, client : Nat, first : Nat, count : Nat]
NoLease == [slot |-> 0, client |-> 0, first |-> 0, count |-> 0]
Kids == [place : Places, parent : Leases, first : Nat, count : Nat]
NoKid == [place |-> 0, parent |-> NoLease, first |-> 0, count |-> 0]
Entry(lease) == [lease |-> lease, retained |-> FALSE]

Init ==
    /\ next_client = 0 /\ next_object = ObjectFirst
    /\ entries = [s \in ClientSlots |-> Entry(NoLease)]
    /\ children = [p \in Places |-> Entry(NoKid)]
    /\ quiescent = FALSE
    /\ issued = {} /\ issuedKids = {} /\ retired = {}

(* The range checks shared by all reservations. *)
Room(count) == next_object < ObjectEnd /\ count <= ObjectEnd - next_object

(* The first free slot of a table. *)
FirstFree(slot, free) == slot \in free /\ \A s \in free : slot <= s

Reserve(count, slot) ==
    /\ next_client < MaxClientNames /\ Room(count)
    /\ FirstFree(slot, {s \in ClientSlots : entries[s].lease = NoLease})
    /\ LET lease == [slot |-> slot, client |-> next_client, first |-> next_object,
                     count |-> count]
       IN /\ entries' = [entries EXCEPT ![slot] = Entry(lease)]
          /\ issued' = issued \cup {lease}
    /\ next_client' = next_client + 1
    /\ next_object' = next_object + count
    /\ UNCHANGED <<children, quiescent, issuedKids, retired>>

(* lookup(), validate(), requireNoChildren() *)
Lookup(lease) == entries[lease.slot].lease = lease
Validate(lease) == Lookup(lease) /\ ~entries[lease.slot].retained
RequireNoChildren(lease) ==
    Validate(lease) /\ \A p \in Places : children[p].lease # NoKid => children[p].lease.parent # lease

\* Mutant: children are not looked for.
RetireUnchecked(lease) ==
    /\ Validate(lease)
    /\ entries' = [entries EXCEPT ![lease.slot] = Entry(NoLease)]
    /\ retired' = retired \cup {lease}
    /\ UNCHANGED <<next_client, next_object, children, quiescent, issued, issuedKids>>

\* Mutant: retiring a lease gives its names back.
RetireRewinding(lease) ==
    /\ RequireNoChildren(lease)
    /\ entries' = [entries EXCEPT ![lease.slot] = Entry(NoLease)]
    /\ retired' = retired \cup {lease}
    /\ next_client' = lease.client /\ next_object' = lease.first
    /\ UNCHANGED <<children, quiescent, issued, issuedKids>>

Retire(lease) ==
    /\ RequireNoChildren(lease)
    /\ entries' = [entries EXCEPT ![lease.slot] = Entry(NoLease)]
    /\ retired' = retired \cup {lease}
    /\ UNCHANGED <<next_client, next_object, children, quiescent, issued, issuedKids>>

Retain(lease) ==
    /\ Lookup(lease)
    /\ entries' = [entries EXCEPT ![lease.slot].retained = TRUE]
    /\ UNCHANGED <<next_client, next_object, children, quiescent, issued, issuedKids, retired>>

(* reserveChildren() takes the first free table slot;                      *)
(* reserveResidentChildren() takes the caller's unused node.               *)
ReserveChildren(parent, count, place) ==
    /\ Validate(parent) /\ Room(count)
    /\ \/ FirstFree(place, {p \in Table : children[p].lease = NoKid})
       \/ place \in Residents /\ children[place].lease = NoKid
    /\ LET kid == [place |-> place, parent |-> parent, first |-> next_object, count |-> count]
       IN /\ children' = [children EXCEPT ![place] = Entry(kid)]
          /\ issuedKids' = issuedKids \cup {kid}
    /\ next_object' = next_object + count
    /\ UNCHANGED <<next_client, entries, quiescent, issued, retired>>

LookupChildren(kid) == Lookup(kid.parent) /\ children[kid.place].lease = kid
ValidateChildren(kid) ==
    Validate(kid.parent) /\ LookupChildren(kid) /\ ~children[kid.place].retained

RemoveChildren(kid) ==
    /\ children' = [children EXCEPT ![kid.place] = Entry(NoKid)]
    /\ retired' = retired \cup {kid}
    /\ UNCHANGED <<next_client, next_object, entries, quiescent, issued, issuedKids>>

RetireChildren(kid) == ValidateChildren(kid) /\ RemoveChildren(kid)

(* retainChildren() retains the parent too. *)
RetainChildren(kid) ==
    /\ LookupChildren(kid)
    /\ children' = [children EXCEPT ![kid.place].retained = TRUE]
    /\ entries' = [entries EXCEPT ![kid.parent.slot].retained = TRUE]
    /\ UNCHANGED <<next_client, next_object, quiescent, issued, issuedKids, retired>>

RetireChildrenAfterReset(kid) ==
    /\ quiescent /\ LookupChildren(kid)
    /\ RemoveChildren(kid)

(* The reset owner proves quiescence for this run, once. *)
ProveQuiescent ==
    /\ ~quiescent /\ quiescent' = TRUE
    /\ UNCHANGED <<next_client, next_object, entries, children, issued, issuedKids, retired>>

Next ==
    \/ \E count \in Counts, slot \in ClientSlots : Reserve(count, slot)
    \/ \E lease \in issued :
        \/ Retire(lease) \/ Retain(lease)
        \/ \E count \in Counts, place \in Places : ReserveChildren(lease, count, place)
    \/ \E kid \in issuedKids :
        RetireChildren(kid) \/ RetainChildren(kid) \/ RetireChildrenAfterReset(kid)
    \/ ProveQuiescent

Spec == Init /\ [][Next]_vars

-----------------------------------------------------------------------------
(* Counters and tables stay in range; no name reaches object_end. *)
TypeOK ==
    /\ next_client \in 0 .. MaxClientNames
    /\ next_object \in ObjectFirst .. ObjectEnd
    /\ entries \in [ClientSlots -> [lease : Leases, retained : BOOLEAN]]
    /\ children \in [Places -> [lease : Kids \cup {NoKid}, retained : BOOLEAN]]
    /\ quiescent \in BOOLEAN
    /\ issued \subseteq Leases /\ issuedKids \subseteq Kids
    /\ retired \subseteq issued \cup issuedKids

Disjoint(a, b) == a.first + a.count <= b.first \/ b.first + b.count <= a.first

(* No object name is issued twice in a run: any two leases ever handed out *)
(* by reserve(), reserveChildren() or reserveResidentChildren() have       *)
(* disjoint ranges, also when one of them was retired long before.         *)
NamesNeverReissued ==
    \A a, b \in issued \cup issuedKids : a # b => Disjoint(a, b)

(* A retired lease never validates again, although its slot is reused. *)
StaleNeverValid ==
    /\ \A lease \in issued \cap retired : ~Lookup(lease)
    /\ \A kid \in issuedKids \cap retired : ~LookupChildren(kid)

(* Names and leases are used up by use: neither the range nor the lease of  *)
(* a retired graph comes back (reserve, retire, lookup).                    *)
NamesSpent == NamesNeverReissued /\ StaleNeverValid

(* A child range always has its live parent: retire() cannot take the root *)
(* of a client whose children the firmware may still hold, and an          *)
(* uncertain child keeps its whole client from being retired.              *)
NoOrphans ==
    \A p \in Places : children[p].lease # NoKid =>
        /\ Lookup(children[p].lease.parent)
        /\ children[p].retained => entries[children[p].lease.parent.slot].retained

(* There is no way back from retention: a retained root stays for the rest *)
(* of the run, a retained child until a reset was proved.                  *)
RetentionKept ==
    [][/\ \A s \in ClientSlots : entries[s].retained => entries'[s] = entries[s]
       /\ \A p \in Places : children[p].retained /\ ~quiescent => children'[p] = children[p]]_vars
=============================================================================
