---------------------------------- MODULE Acpi ---------------------------------
(***************************************************************************)
(* How acpi::init finds the reset register in the firmware's tables: the   *)
(* chain of checks from the RSDP over the XSDT to the FADT in              *)
(* src/src/acpi.rs.  It only reads, so it is a set of operators over a     *)
(* firmware; the reboot that uses the result is in Kernel.                 *)
(*                                                                         *)
(* A table is its bytes, in units of which a header, the first part of the *)
(* RSDP and the FADT up to the reset value have a few; the fields init     *)
(* reads are given beside them.  A pointer leads to a table or to memory   *)
(* that is not mapped.  An Option is a set of at most one element.         *)
(***************************************************************************)
EXTENDS Integers, Sequences, Functions

CONSTANTS RSDP_V1,      \* size of RsdpV1
          SDT_HEADER,   \* size_of::<SdtHeader>()
          RESET_END,    \* RESET_VALUE_OFFSET + 1
          Firmwares     \* what the boot loader may find

\* A firmware: rsdp, an Option of [signature, revision, length, xsdt, bytes];
\* xsdt, [signature, length, entries]; and tables, address -> table, where
\* a table is [signature, length, bytes, space, address, value].  Address 0 is
\* the null pointer.
ASSUME AcpiAssumption ==
    /\ RSDP_V1 \in Nat /\ SDT_HEADER \in Nat /\ RESET_END \in Nat
    /\ \A f \in Firmwares :
        /\ f.xsdt.length \in Nat
        /\ \A r \in f.rsdp : r.length <= Len(r.bytes) /\ RSDP_V1 <= Len(r.bytes)
        /\ \A a \in DOMAIN f.tables : f.tables[a].length <= Len(f.tables[a].bytes)
        /\ 0 \notin DOMAIN f.tables

checksum_valid(bytes, n) == SumFunctionOnSet(bytes, 1 .. n) % 256 = 0

\* The checks of init before the XSDT is looked at.
RsdpAccepted(r) ==
    /\ r.signature = "RSD PTR "
    /\ checksum_valid(r.bytes, RSDP_V1)
    /\ r.revision >= 2
    /\ checksum_valid(r.bytes, r.length)

\* Faulty: the last entry is not looked at.
entry_count_short(x) == IF x.length < SDT_HEADER + 1 THEN 0 ELSE x.length - SDT_HEADER - 1
entry_count(x) == IF x.length < SDT_HEADER THEN 0 ELSE x.length - SDT_HEADER

\* The entries find_fadt dereferences: up to the first FADT, null ones skipped.
Visited(f) ==
    {i \in 1 .. entry_count(f.xsdt) :
        /\ f.xsdt.entries[i] # 0
        /\ \A j \in 1 .. i - 1 :
            f.xsdt.entries[j] \in DOMAIN f.tables =>
                f.tables[f.xsdt.entries[j]].signature # "FACP"}

\* init reads memory that is not mapped.
ReadsUnmapped(f) ==
    \E r \in f.rsdp :
        /\ RsdpAccepted(r)
        /\ \/ ~r.xsdt
           \/ /\ f.xsdt.signature = "XSDT"
              /\ \E i \in Visited(f) : f.xsdt.entries[i] \notin DOMAIN f.tables

\* The table find_fadt hands to parse_fadt.
find_fadt(f) ==
    IF f.xsdt.signature # "XSDT" THEN {}
    ELSE {a \in {f.xsdt.entries[i] : i \in Visited(f)} \cap DOMAIN f.tables :
            f.tables[a].signature = "FACP"}

\* Faulty: the length is not compared with the end of the reset value.
FadtAccepted_short(t) == checksum_valid(t.bytes, t.length) /\ t.address # 0

\* The checks of parse_fadt.
FadtAccepted(t) ==
    /\ checksum_valid(t.bytes, t.length)
    /\ t.length >= RESET_END
    /\ t.address # 0

\* What init stores in RESET_INFO.
reset_info_of(f) ==
    {[space |-> f.tables[a].space, address |-> f.tables[a].address, value |-> f.tables[a].value] :
        a \in {a \in IF \E r \in f.rsdp : RsdpAccepted(r) THEN find_fadt(f) ELSE {} :
                    FadtAccepted(f.tables[a])}}
================================================================================
