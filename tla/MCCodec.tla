------------------------------ MODULE MCCodec ------------------------------
(* Instances of Codec and MessageStream for TLC. *)
EXTENDS MessageStream

Y == Basic(Code.y, <<1>>)
N == Basic(Code.n, <<2, 0>>)
U == Basic(Code.u, <<3, 0, 0, 0>>)
T == Basic(Code.t, <<4, 0, 0, 0, 0, 0, 0, 5>>)
S == Basic(Code.s, <<6, 7>>)
NoString == Basic(Code.s, <<>>)
OneS == Basic(Code.s, <<8>>)
G == Basic(Code.g, <<Code.a, Code.y>>)
OneG == Basic(Code.g, <<Code.y>>)

ArrayT == ArrayOf(T.sig, <<T>>)
NoT == ArrayOf(T.sig, <<>>)
TwoS == ArrayOf(S.sig, <<S, NoString>>)
StructYT == StructOf(<<Y, T>>)
StructSY == StructOf(<<S, Y>>)
MapYS == MapOf(Y.sig, S.sig, << <<Y, S>>, <<Basic(Code.y, <<2>>), NoString>> >>)
MapST == MapOf(S.sig, T.sig, << <<S, T>> >>)
VariantT == VariantOf(T)

Some ==
  {Y, N, U, T, S, OneS, G, OneG, ArrayT, NoT, TwoS, StructYT, StructSY, MapYS, MapST, VariantT}

\* What is in what.
Nested ==
  {ArrayOf(ArrayT.sig, <<NoT, ArrayT>>), ArrayOf(TwoS.sig, <<TwoS, TwoS>>),
   ArrayOf(StructYT.sig, <<StructYT, StructYT>>), ArrayOf(VariantT.sig, <<VariantT, VariantOf(S)>>),
   ArrayOf(VariantT.sig, <<VariantOf(Y), VariantOf(U)>>), ArrayOf(MapYS.sig, <<MapYS>>),
   ArrayOf(ArrayT.sig, <<>>),
   StructOf(<<Y, StructSY>>), StructOf(<<StructSY, N>>), StructOf(<<Y, ArrayT>>),
   MapOf(Y.sig, ArrayT.sig, << <<Y, ArrayT>> >>), MapOf(S.sig, VariantT.sig, <<>>),
   VariantOf(StructYT), VariantOf(StructOf(<<StructSY, N>>)), VariantOf(ArrayOf(StructSY.sig, <<StructSY>>)),
   VariantOf(VariantT), VariantOf(MapST)}

\* Values that cannot be encoded.
Bad == {NoSignature, VariantOf(NoSignature), StructOf(<<Y, VariantOf(NoSignature)>>)}

\* Names of every length up to a multiple of 8, and the messages they make.
NameOf(n) == [i \in 1..n |-> 60 + i]
MCConstructed ==
  {NewMethodCall(NameOf(n), NameOf(1), NameOf(2), NameOf(5)) : n \in 1..8}
  \union {NewMethodCall(<<>>, NameOf(3), <<>>, NameOf(n)) : n \in {4, 7}}
  \union {From(NameOf(4), NewSignal(NameOf(6), NameOf(8), NameOf(n))) : n \in {2, 5}}
  \union {From(NameOf(n), NewMethodReturn(259, NameOf(4))) : n \in {1, 6}}
  \union {NewError(1, <<>>, NameOf(n)) : n \in {3, 8}}

MCSent == {S, ArrayT}

\* All that can be sent with up to two arguments.
ArgsOf == {<<>>} \union {<<v>> : v \in MCSent} \union (MCSent \X MCSent)
MCMessages ==
  {[type |-> m.type, serial |-> serial,
    fields |-> [m.fields EXCEPT !.sig = FlattenSeq([i \in DOMAIN list |-> list[i].sig])],
    body |-> FoldLeft(AppendValue, <<>>, list)] : m \in MCConstructed, serial \in 1..2, list \in ArgsOf}
MCValues == Some \union Nested \union Bad
=============================================================================
