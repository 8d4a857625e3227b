------------------------------ MODULE Padding ------------------------------
(***************************************************************************)
(* padding() of src/src/wireguard/workers.rs: the length a transport       *)
(* payload is padded to before encryption.                                 *)
(***************************************************************************)
EXTENDS Naturals

CONSTANT MESSAGE_PADDING_MULTIPLE

ASSUME MESSAGE_PADDING_MULTIPLE \in Nat \ {0}

\* The branch-free `const fn min` nested in padding: m is (a < b) as usize.
min(a, b) ==
    LET m == IF a < b THEN 1 ELSE 0
    IN  a * m + (1 - m) * b

\* Fault: the outer `% pad` dropped, so aligned sizes grow by a whole block.
paddingNoWrap(size, mtu) ==
    LET pad == MESSAGE_PADDING_MULTIPLE
    IN  min(mtu, size + (pad - (size % pad)))

\* Fault: rounding down to the multiple instead of up.
paddingRoundDown(size, mtu) ==
    LET pad == MESSAGE_PADDING_MULTIPLE
    IN  min(mtu, size - (size % pad))

\* Round size up to a multiple of the padding multiple, but never past mtu.
padding(size, mtu) ==
    LET pad == MESSAGE_PADDING_MULTIPLE
    IN  min(mtu, size + ((pad - (size % pad)) % pad))

\* Reference definition (spec.md 4.3): the least multiple of the padding
\* multiple that is at least size, or mtu when that is smaller.
RefPadding(size, mtu) ==
    LET multiples == {x \in size..(size + MESSAGE_PADDING_MULTIPLE) :
                         x % MESSAGE_PADDING_MULTIPLE = 0}
        least == CHOOSE x \in multiples : \A y \in multiples : x <= y
    IN  IF mtu < least THEN mtu ELSE least

=============================================================================
