----------------------------- MODULE MCHIDDevice -----------------------------
(* Devices at the boundaries of every check of HIDDevice, for TLC.         *)
EXTENDS HIDDevice

Keyboard ==
    [vendor |-> 4617, product |-> 4095, interface |-> 1,
     descriptor |-> "raw", count |-> 8, length |-> 9]

Products == {[Keyboard EXCEPT !.product = 4096]}
    \cup {[Keyboard EXCEPT !.vendor = 5824, !.product = p] :
             p \in {1503, 10200, 10201, 10203, 10205}}
Interfaces == {[Keyboard EXCEPT !.interface = i] : i \in {-1, 0}}
OtherDescriptors == {[Keyboard EXCEPT !.descriptor = d] : d \in Descriptor \ {"raw"}}
Counts == {[Keyboard EXCEPT !.count = c, !.length = (1 + c) % Modulus] :
              c \in {0, 5, 6, 15, 16, Modulus - 1}}
Lengths == {[Keyboard EXCEPT !.length = l] : l \in {8, 10}}

MCDevices ==
    {Keyboard} \cup Products \cup Interfaces \cup OtherDescriptors
        \cup Counts \cup Lengths
=============================================================================
