---------------------------- MODULE MCController ----------------------------
(***************************************************************************)
(* Instances of Controller for TLC.  Hellos of 1 and 2 bytes; datagrams of *)
(* up to three TLVs, well formed or not.                                   *)
(***************************************************************************)
EXTENDS Controller, TLC

CONSTANTS l1, l2

MCLocal == {l1, l2}

\* TLVs of every known type, of lengths the handlers take and refuse, ...
MCKnown ==
  {<<0>>, <<1, 1, 0>>, <<2, 1, 0>>, <<2, 2, 0, 0>>, <<2, 0>>, <<3, 2, 0, 0>>,
   <<4, 1, 6>>, <<4, 0>>, <<5, 1, 0>>, <<6, 1, 2>>, <<6, 0>>, <<7, 2, 0, 8>>}

\* ... of an unknown type, and cut short.
MCOdd == {<<8, 1, 0>>, <<9>>, <<4, 3, 0>>, <<2>>}

MCTwo(S, T) == {[bytes |-> s \o t, starts |-> <<0, Len(s)>>] : s \in S, t \in T}

MCDatagram ==
  {[bytes |-> s, starts |-> <<0>>] : s \in MCKnown \cup MCOdd}
    \cup MCTwo(MCKnown, {<<2, 1, 0>>})
    \cup MCTwo({<<2, 2, 0, 0>>, <<6, 1, 2>>}, {<<4, 1, 6>>, <<3, 2, 0, 0>>})
    \cup {[bytes |-> <<2, 1, 0>> \o s \o t, starts |-> <<0, 3, 3 + Len(s)>>] :
            s \in {<<4, 1, 6>>, <<3, 2, 0, 0>>}, t \in {<<5, 1, 0>>, <<6, 1, 2>>}}
    \cup MCTwo(MCOdd, {<<2, 1, 0>>})

=============================================================================
