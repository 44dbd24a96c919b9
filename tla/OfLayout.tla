------------------------------ MODULE OfLayout ------------------------------
(***************************************************************************)
(* How rofl-common lays OpenFlow structures out on the wire.  A codec class *)
(* (cofmsg_*, cofaction_*, cofport, ...) has three functions: length(),     *)
(* pack() and unpack().  pack() and unpack() cast the buffer to a C struct  *)
(* of one of the openflow headers and copy members to or from its fields,   *)
(* then hand the rest of the buffer to the objects the class contains.      *)
(* This module has the vocabulary in which both are written down: C structs *)
(* as the offsets and widths of their fields, and codecs as the fields they *)
(* put and get and the parts they contain.  Values are abstracted to where  *)
(* their octets come from, which is all that a layout can get wrong.        *)
(***************************************************************************)
EXTENDS Integers, Sequences, FiniteSets, TLC
LOCAL INSTANCE SequencesExt
LOCAL INSTANCE FiniteSetsExt

-----------------------------------------------------------------------------
(* C structs: a type is its size, its alignment and the place of its fields. *)

Scalar(n) == [size |-> n, align |-> n, at |-> <<>>]
U8  == Scalar(1)
U16 == Scalar(2)
U32 == Scalar(4)
U64 == Scalar(8)

Arr(T, n) == [size |-> T.size * n, align |-> T.align, at |-> <<>>]

RoundUp(n, a) == ((n + a - 1) \div a) * a

(* Fields <<name, type>> one after the other, each aligned by its type (or by *)
(* `cap', which a packed struct sets to 1); the whole by the widest of them.   *)
StructOf(fields, cap) ==
    LET n        == Len(fields)
        align(i) == IF fields[i][2].align < cap THEN fields[i][2].align ELSE cap
        end[i \in 0..n] ==
            IF i = 0 THEN 0
            ELSE ((end[i - 1] + align(i) - 1) \div align(i)) * align(i) + fields[i][2].size
        whole    == Max({1} \cup {align(i) : i \in 1..n})
    IN  [size  |-> RoundUp(end[n], whole),
         align |-> whole,
         at    |-> [f \in {fields[i][1] : i \in 1..n} |->
                       LET i == CHOOSE i \in 1..n : fields[i][1] = f
                       IN  <<end[i] - fields[i][2].size, fields[i][2].size>>]]

Struct(fields) == StructOf(fields, 8)
Packed(fields) == StructOf(fields, 1)       \* __attribute__((packed))

Size(S) == S.size

-----------------------------------------------------------------------------
(* Codecs.  A codec record says what one class does for one version:        *)
(*   fixed  octets before the first part that length() adds up               *)
(*   pad    length() is rounded up to a multiple of 8                        *)
(*   need   octets below which unpack() gives up                             *)
(*   quiet  it gives up by returning instead of throwing                     *)
(*   put    the fields pack() stores, in order                               *)
(*   get    the fields unpack() loads, in order                              *)
(*   parts  the contained objects, in order                                  *)
(* A field has an offset, the width of the struct field, the member and the  *)
(* width the member is converted with (htobe16, htobe32, ...).               *)

Field(S, f, m, w) == [at |-> S.at[f][1], width |-> S.at[f][2], member |-> m, conv |-> w]
FieldAs(S, f, m)  == Field(S, f, m, S.at[f][2])
Fields(S, fs)     == [i \in 1..Len(fs) |-> FieldAs(S, fs[i], fs[i])]

Room(n) == [fixed |-> n, pad |-> FALSE, need |-> n, quiet |-> FALSE,
            put |-> <<>>, get |-> <<>>, parts |-> <<>>]

(* The members named like the fields of struct S are stored and loaded. *)
RecIn(n, S, fs) == [Room(n) EXCEPT !.put = Fields(S, fs), !.get = Fields(S, fs)]
Rec(S, fs)      == RecIn(S.size, S, fs)

(* Fields of S holding members of another name: pairs <<field, member>>. *)
Pairs(S, ps)    == [i \in 1..Len(ps) |-> FieldAs(S, ps[i][1], ps[i][2])]
Store(c, S, ps) == [c EXCEPT !.put = @ \o Pairs(S, ps)]
Load(c, S, ps)  == [c EXCEPT !.get = @ \o Pairs(S, ps)]
As(c, S, ps)    == Load(Store(c, S, ps), S, ps)

(* The struct S n octets further in the buffer. *)
Shift(S, n) == [S EXCEPT !.at = [f \in DOMAIN S.at |-> <<S.at[f][1] + n, S.at[f][2]>>]]

(* Fields that pack() computes (lengths) and unpack() does not keep. *)
Fill(c, S, fs) == [c EXCEPT !.put = @ \o Fields(S, fs)]

(* A field stored and loaded through a conversion of w octets. *)
Conv(c, S, f, w) ==
    [c EXCEPT !.put = Append(@, Field(S, f, f, w)), !.get = Append(@, Field(S, f, f, w))]

Need(c, n)  == [c EXCEPT !.need = n]
Quiet(c)    == [c EXCEPT !.quiet = TRUE]
Padded(c)   == [c EXCEPT !.pad = TRUE]

(* A derived class calls its base class's pack() and unpack() first. *)
Over(base, c) == [c EXCEPT !.put = base.put \o @, !.get = base.get \o @,
                           !.need = IF base.need > @ THEN base.need ELSE @]

(* A contained object: the lengths it may have and the least it accepts; at *)
(* is -1 when it follows what precedes it, gap octets away; count says how   *)
(* many octets unpack() hands to it: the rest of the buffer, as many as the  *)
(* object's length field asks for, or a number.                              *)
Part(n, z, at, gap, count) ==
    [name |-> n, sizes |-> z.sizes, need |-> z.need, raw |-> z.raw, at |-> at, gap |-> gap, count |-> count]
Rest == -1
Own  == -2

AddPart(c, p)          == [c EXCEPT !.parts = Append(@, p)]
Body(c, n, z)          == AddPart(c, Part(n, z, -1, 0, Rest))
OwnBody(c, n, z)       == AddPart(c, Part(n, z, -1, 0, Own))
GapBody(c, n, z, gap)  == AddPart(c, Part(n, z, -1, gap, Rest))
InnerAt(c, n, at, k)   == AddPart(c, Part(n, [sizes |-> {k}, need |-> k, raw |-> FALSE], at, 0, k))
Inner(c, n, S, f, k)   == InnerAt(c, n, S.at[f][1], k)

For(vs, c) == [v \in vs |-> c]

(* Lengths of contained objects: octet strings, which keep whatever they are *)
(* handed (raw), words, lists of elements of 8 or 16 octets, and OXM TLVs.   *)
Octets  == [sizes |-> {0, 5, 8}, need |-> 0, raw |-> TRUE]
Words   == [sizes |-> {0, 4, 8}, need |-> 0, raw |-> TRUE]
Lists   == [sizes |-> {0, 8, 24}, need |-> 0, raw |-> FALSE]
Lists16 == [sizes |-> {0, 16}, need |-> 0, raw |-> FALSE]
Oxms    == [sizes |-> {0, 8, 13}, need |-> 0, raw |-> FALSE]
Oxm     == [sizes |-> {5, 8, 20}, need |-> 4, raw |-> FALSE]

(* A part that recognises the padding behind it and skips it. *)
Skipped(z) == [z EXCEPT !.raw = FALSE]

Ceil8(c, n) == IF c.pad THEN RoundUp(n, 8) ELSE n
Follows(p)   == p.at = -1

(* The lengths the parts of a codec may have, one per part. *)
PartSizes(c) ==
    {z \in [1..Len(c.parts) -> UNION {p.sizes : p \in Range(c.parts)}] :
        \A i \in DOMAIN z : z[i] \in c.parts[i].sizes}

(* Octets of the first k parts that follow the fixed ones. *)
BodyLength(c, z, k) ==
    LET sum[i \in 0..k] ==
            IF i = 0 THEN 0
            ELSE sum[i - 1] + (IF Follows(c.parts[i]) THEN z[i] + c.parts[i].gap ELSE 0)
    IN  sum[k]

(* length() of a class whose parts have the lengths z. *)
Length(c, z) == Ceil8(c, c.fixed + BodyLength(c, z, Len(c.parts)))

(* Where part i starts when the parts before it take the lengths z. *)
PartAt(c, z, i) ==
    IF Follows(c.parts[i]) THEN c.fixed + BodyLength(c, z, i - 1) + c.parts[i].gap
    ELSE c.parts[i].at

(* An object of class c as a part of another: as short as length() gets, and *)
(* with 8 more octets in a part that can grow.                               *)
Of(c) ==
    LET ls == {Length(c, z) : z \in PartSizes(c)}
    IN  [sizes |-> {Min(ls)} \cup {l \in ls : l = Min(ls) + 8}, need |-> c.need, raw |-> FALSE]

=============================================================================
