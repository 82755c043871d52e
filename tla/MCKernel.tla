-------------------------------- MODULE MCKernel -------------------------------
(***************************************************************************)
(* The kernel with firmwares that fail each check of acpi.rs in turn.  A   *)
(* table header has two units, the RSDP two or three, the FADT four up to  *)
(* the reset value.                                                        *)
(***************************************************************************)
EXTENDS Kernel, TLC

\* Bytes of n units whose sum is s modulo 256.
Bytes(n, s) == [i \in 1 .. n |-> IF i = 1 THEN (256 + s - (n - 1)) % 256 ELSE 1]

GoodRsdp ==
    [signature |-> "RSD PTR ", revision |-> 2, length |-> 3, xsdt |-> TRUE,
     bytes |-> <<255, 1, 0>>]
GoodXsdt == [signature |-> "XSDT", length |-> 5, entries |-> <<20, 0, 10>>]
GoodFadt ==
    [signature |-> "FACP", length |-> 4, bytes |-> Bytes(4, 0), space |-> 1,
     address |-> 5, value |-> 6]
Other == [GoodFadt EXCEPT !.signature = "APIC", !.address = 0]

FirmwareOf(r, x, t) == [rsdp |-> r, xsdt |-> x, tables |-> (10 :> t) @@ (20 :> Other)]
Good == FirmwareOf({GoodRsdp}, GoodXsdt, GoodFadt)

WithRsdp(r) == FirmwareOf({r}, GoodXsdt, GoodFadt)
WithXsdt(x) == FirmwareOf({GoodRsdp}, x, GoodFadt)
WithFadt(t) == FirmwareOf({GoodRsdp}, GoodXsdt, t)

OddFirmwares ==
    {FirmwareOf({}, GoodXsdt, GoodFadt)}
    \cup {WithRsdp(r) : r \in
            {[GoodRsdp EXCEPT !.signature = "bad"], [GoodRsdp EXCEPT !.revision = 0],
             [GoodRsdp EXCEPT !.bytes = <<255, 2, 255>>], [GoodRsdp EXCEPT !.bytes = <<255, 1, 1>>],
             [GoodRsdp EXCEPT !.xsdt = FALSE]}}
    \cup {WithXsdt(x) : x \in
            {[GoodXsdt EXCEPT !.signature = "bad"], [GoodXsdt EXCEPT !.length = 1],
             [GoodXsdt EXCEPT !.length = 4],
             [GoodXsdt EXCEPT !.entries = <<20, 30, 10>>], [GoodXsdt EXCEPT !.entries = <<20, 10, 30>>]}}
    \cup {WithFadt(t) : t \in
            {[GoodFadt EXCEPT !.length = 3, !.bytes = Bytes(3, 0) \o <<1>>],
             [GoodFadt EXCEPT !.bytes = Bytes(4, 1)], [GoodFadt EXCEPT !.address = 0],
             [GoodFadt EXCEPT !.space = 0], [GoodFadt EXCEPT !.address = 9]}}

MCFirmwares == {Good} \cup OddFirmwares

\* Two keys, so that a command finds what another has changed; the odd firmwares
\* matter to one command only.
MCMachines ==
    {[build |-> "kernel", firmware |-> Good, keys |-> 2], [build |-> "test", firmware |-> Good, keys |-> 1]}
    \cup {[build |-> "kernel", firmware |-> f, keys |-> 1] : f \in OddFirmwares}
KernelOnly == {[build |-> "kernel", firmware |-> Good, keys |-> 1]}
================================================================================
