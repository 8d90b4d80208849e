------------------------ MODULE HidReportParser_proofs ------------------------
(***************************************************************************)
(* Theorems about HidReportParser for descriptors of any bytes and length. *)
(***************************************************************************)
EXTENDS HidReportParser, TLAPS

-----------------------------------------------------------------------------
(* The inductive invariant.                                                *)

\* The data of an item, or of none.
Datum == {Unset} \cup {ItemData(p) : p \in Items}
Entry == [at : Items, fields : [Field -> Datum]]
ReportType ==
    [usage_page : Datum, usage : Datum,
     input : Seq(Entry), output : Seq(Entry), feature : Seq(Entry)]

Types ==
    /\ descriptor \in Descriptors
    /\ pos \in 0 .. Size + 257
    /\ pos < Size => pos \in Items
    /\ calling \in BOOLEAN /\ initial \in BOOLEAN
    /\ usage_page_found \in BOOLEAN /\ usage_pair_ready \in BOOLEAN /\ collection \in BOOLEAN
    /\ tmp \in [Field -> Datum]
    /\ hid_report \in ReportType
    /\ ret \in {-1, 0, 1, NoReturn}
    /\ outcome \in {"none", "reported", "malformed"}

\* The fields t hold the local items in scope at q; other fields than the usage
\* only when c, inside of a collection.
FieldsAt(t, c, q) ==
    \A f \in Field, p \in Items :
        t[f] = ItemData(p) <=> InScope(p, f, q) /\ (f = "usage" \/ c)

\* An entry of the report has the fields that are in scope at its item.
EntryOf(k, e) == At(e.at, k) /\ FieldsAt(e.fields, TRUE, e.at)

Entries == \A k \in Kind : \A i \in 1 .. Len(hid_report[k]) : EntryOf(k, hid_report[k][i])

\* A collection that is open at q, and the halves of a pair.
OpenAt(c, q) == c < q /\ At(c, "collection") /\ ~EndBetween(c, q)
HasUse(x, q) == \E u \in Items : x = ItemData(u) /\ InScope(u, "usage", q)
HasPage(x, q) == \E p \in Items : x = ItemData(p) /\ CurrentPage(p, q)

\* What the flags and the report of the first call tell of the items before q:
\* ready is set by the pair of a collection that is open, and no pair is closed.
FlagsAt(c, found, ready, page, usage, q) ==
    /\ c <=> InCollection(q)
    /\ found => HasPage(page, q)
    /\ ~found => \A p \in Items : ~CurrentPage(p, q)
    /\ ready => \E k \in Items : OpenAt(k, q) /\ HasUse(usage, k) /\ HasPage(page, k)
    /\ \A k \in Items : OpenAt(k, q) /\ PairAt(k) => ready
    /\ ~ready => usage = Unset
    /\ \A k \in Items : At(k, "collection") /\ PairAt(k) => ~EndBetween(k, q)

FirstCall ==
    calling /\ initial =>
        /\ FieldsAt(tmp, collection, pos)
        /\ FlagsAt(collection, usage_page_found, usage_pair_ready,
                   hid_report.usage_page, hid_report.usage, pos)

\* What a call has found that returned 0 at q.
Found(page, usage, q) ==
    /\ q < Size => /\ At(q, "end")
                   /\ \E c \in Items : OpenAt(c, q) /\ HasUse(usage, c) /\ HasPage(page, c)
    /\ q >= Size => /\ \E u \in Items : InScope(u, "usage", Size)
                    /\ HasPage(page, Size)
                    /\ \/ usage = Unset
                       \/ \E c \in Items : At(c, "collection") /\ ~Closed(c) /\ HasUse(usage, c)

NoPair == ~ClosedPair /\ ~TopLevelPair

Returned ==
    /\ calling => outcome = "none" /\ ret \notin {0, -1}
    /\ calling /\ ~initial => pos >= Size /\ ret = 1
    /\ ~calling /\ ret = NoReturn => pos = 0
    /\ ret # -1 /\ outcome # "malformed"
    /\ ret = 0 => Found(hid_report.usage_page, hid_report.usage, pos)
    /\ ret = 1 => pos >= Size /\ NoPair
    /\ outcome = "reported" => ret = 0

Inv == Types /\ Entries /\ FirstCall /\ Returned
-----------------------------------------------------------------------------
(* The bytes and the items of a descriptor.                                *)

\* A descriptor is what DescriptorsAssumption says of it.
LEMMA DescriptorType ==
    ASSUME descriptor \in Descriptors
    PROVE  /\ descriptor.bytes \in Seq(0 .. 255)
           /\ Size \in Nat
           /\ Items \subseteq 0 .. Size - 1
           /\ ItemsAreAt(descriptor.bytes, Items)
           /\ descriptor \in [bytes : Seq(0 .. 255), items : SUBSET (0 .. Size - 1)]
<1>1. descriptor \in [bytes : Seq(0 .. 255), items : SUBSET Nat]
  BY DescriptorsAssumption
<1>2. ItemsAreAt(descriptor.bytes, descriptor.items)
  BY DescriptorsAssumption
<1>3. descriptor.bytes \in Seq(0 .. 255) /\ Size \in Nat
  BY <1>1 DEF Size
<1>4. Items \subseteq 0 .. Size - 1
  BY <1>2 DEF ItemsAreAt, Items, Size
<1> QED BY <1>1, <1>2, <1>3, <1>4 DEF Items

LEMMA ElementType == ASSUME NEW S, NEW b \in Seq(S), NEW i \in 1 .. Len(b) PROVE b[i] \in S
OBVIOUS

\* An item of the descriptor has a key.
LEMMA KeyType ==
    ASSUME descriptor \in Descriptors, NEW p \in Nat, p < Size
    PROVE  Key(p) \in 0 .. 255 /\ SizeCode(p) \in 0 .. 3
<1>1. descriptor.bytes \in Seq(0 .. 255) /\ Size \in Nat
  BY DescriptorType
<1>2. p + 1 \in 1 .. Len(descriptor.bytes)
  BY <1>1 DEF Size
<1>3. Key(p) \in 0 .. 255
  BY <1>1, <1>2, ElementType DEF Key
<1> QED BY <1>3 DEF SizeCode

\* The length of its data, and of what stands before it.
LEMMA LengthType ==
    ASSUME descriptor \in Descriptors, NEW p \in Nat, p < Size
    PROVE  DataLen(p) \in 0 .. 255 /\ KeySize(p) \in {1, 3}
<1>1. descriptor.bytes \in Seq(0 .. 255) /\ Size \in Nat
  BY DescriptorType
<1>2. CASE IsLong(p)
  <2>1. p + 2 \in 1 .. Len(descriptor.bytes)
    BY <1>1, <1>2 DEF IsLong, Size
  <2>2. descriptor.bytes[p + 2] \in 0 .. 255
    BY <1>1, <2>1, ElementType
  <2> QED BY <1>2, <2>2 DEF DataLen, KeySize
<1>3. CASE ~IsLong(p)
  BY <1>3, KeyType DEF DataLen, KeySize
<1> QED BY <1>2, <1>3

\* get_hid_item_size knows the size of every item, as the key has two bits for it.
LEMMA AlwaysValid ==
    ASSUME descriptor \in Descriptors, NEW p \in Nat, p < Size
    PROVE  Valid(p)
BY KeyType DEF Valid

\* r stands behind the item at q, with no other item between.
Follows(r, q) == q \in Items /\ \A k \in Items : k < r <=> k < q \/ k = q

\* The size that is skipped is the length of the item, unless the item is a long
\* one that is cut short, behind which the descriptor ends either way.
LEMMA SkipItem ==
    ASSUME Types, HasItem, Skip
    PROVE  /\ Size' = Size
           /\ pos \in Nat /\ pos < Size
           /\ pos' \in Nat /\ pos' >= pos + 1 /\ pos' \in 0 .. Size + 257
           /\ Follows(pos', pos)
           /\ pos' < Size => pos' \in Items
<1> DEFINE b == descriptor.bytes
<1>1. descriptor \in Descriptors /\ pos \in Nat /\ pos < Size /\ pos \in Items /\ Size \in Nat
  BY DescriptorType DEF Types, HasItem
<1>2. ItemsAreAt(b, Items) /\ Items \subseteq 0 .. Size - 1 /\ Len(b) = Size
  BY <1>1, DescriptorType DEF Size
<1>3. PICK p \in Nat, len \in Nat :
          p = pos /\ len = DataLen(pos) + KeySize(pos) /\ 1 <= len /\ len <= 258
  BY <1>1, LengthType
<1>4. pos' = p + len
  <2>1. PICK x \in Nat, y \in Nat : x = DataLen(pos) /\ y = KeySize(pos)
    BY <1>1, LengthType
  <2> QED BY <1>3, <2>1 DEF Skip
<1>5. PICK n : n = p + ItemLength(b, p)
  OBVIOUS
<1>6. (n < Size => n \in Items) /\ \A q \in Items : q <= p \/ n <= q
  BY <1>1, <1>2, <1>3, <1>5 DEF ItemsAreAt
<1>7. pos' = n \/ (p = Size - 1 /\ pos' >= Size)
  <2>1. CASE IsLong(p)
    <3>1. ItemLength(b, p) = 3 + b[p + 2]
      BY <1>2, <2>1 DEF ItemLength, IsLong, Key
    <3>2. len = b[p + 2] + 3 /\ b[p + 2] \in Int
      <4>1. DataLen(p) = b[p + 2] /\ KeySize(p) = 3
        BY <2>1 DEF DataLen, KeySize
      <4>2. DataLen(p) \in Int
        BY <1>1, <1>3, LengthType
      <4> QED BY <1>3, <4>1, <4>2
    <3> QED BY <1>4, <1>5, <3>1, <3>2
  <2>2. CASE ~IsLong(p) /\ Key(p) >= 240
    <3>1. ~(p + 1 < Size)
      BY <2>2 DEF IsLong
    <3> QED BY <1>1, <1>3, <1>4, <3>1
  <2>3. CASE ~(Key(p) >= 240)
    <3>1. SizeCode(p) \in 0 .. 3
      BY <1>1, <1>3, KeyType
    <3>2. ItemLength(b, p) = IF SizeCode(p) = 3 THEN 5 ELSE 1 + SizeCode(p)
      BY <2>3 DEF ItemLength, Key, SizeCode
    <3>3. DataLen(p) = (IF SizeCode(p) = 3 THEN 4 ELSE SizeCode(p)) /\ KeySize(p) = 1
      BY <2>3 DEF DataLen, KeySize, IsLong
    <3> QED BY <1>3, <1>4, <1>5, <3>1, <3>2, <3>3
  <2> QED BY <2>1, <2>2, <2>3
<1>8. pos' < Size => pos' \in Items
  BY <1>1, <1>3, <1>4, <1>6, <1>7
<1>9. ASSUME NEW k \in Items PROVE k < pos' <=> k < p \/ k = p
  <2>1. k \in Nat /\ k <= Size - 1
    BY <1>1, <1>2
  <2>2. k <= p \/ n <= k
    BY <1>6
  <2> QED BY <1>1, <1>3, <1>4, <1>7, <2>1, <2>2
<1>10. Follows(pos', pos)
  BY <1>1, <1>3, <1>9 DEF Follows
<1>11. Size' = Size
  BY DEF Skip, Size
<1> QED BY <1>1, <1>3, <1>4, <1>8, <1>10, <1>11

\* An item has one tag.
LEMMA OneTag ==
    ASSUME NEW p, NEW s \in DOMAIN KeyCmd, NEW t \in DOMAIN KeyCmd, At(p, s), At(p, t)
    PROVE  s = t
<1>1. KeyCmd[s] = KeyCmd[t]
  BY DEF At
<1> QED BY <1>1 DEF KeyCmd

LEMMA Tags ==
    /\ Field \subseteq DOMAIN KeyCmd /\ Main \subseteq DOMAIN KeyCmd
    /\ Field \cap Main = {} /\ "usage_page" \in DOMAIN KeyCmd
    /\ "usage_page" \notin Field /\ "usage_page" \notin Main
    /\ "end" \in Main /\ "collection" \in Main /\ Kind \subseteq Main
    /\ "end" \notin Kind /\ "collection" \notin Kind /\ "usage" \in Field
BY DEF KeyCmd, Field, Main, Kind

\* The data of an item tells which item it is from.
LEMMA DatumType ==
    ASSUME descriptor \in Descriptors
    PROVE  /\ Unset \in Datum
           /\ \A p \in Items : ItemData(p) \in Datum /\ ItemData(p) # Unset
           /\ \A x \in Datum : x = Unset \/ \E p \in Items : x = ItemData(p)
           /\ \A p, q \in Items : ItemData(p) = ItemData(q) => p = q
           /\ Datum \subseteq Data
<1>1. Size \in Nat /\ Items \subseteq 0 .. Size - 1
  BY DescriptorType
<1>2. ASSUME NEW p \in Items
      PROVE  ItemData(p) \in Data /\ ItemData(p) # Unset /\ ItemData(p).item = p + 1
  <2>1. p \in Nat /\ p + 1 \in 0 .. Size /\ p + 1 # 0
    BY <1>1
  <2>2. PICK r \in BOOLEAN : ItemData(p) = [item |-> p + 1, read |-> r]
    BY DEF ItemData
  <2> QED BY <2>1, <2>2 DEF Data, Unset
<1>3. Unset \in Data
  BY <1>1 DEF Unset, Data
<1>4. \A p, q \in Items : ItemData(p) = ItemData(q) => p = q
  <2>1. TAKE p, q \in Items
  <2>2. HAVE ItemData(p) = ItemData(q)
  <2>3. p \in Nat /\ q \in Nat
    BY <1>1
  <2> QED BY <1>2, <2>2, <2>3
<1> QED BY <1>2, <1>3, <1>4 DEF Datum
-----------------------------------------------------------------------------
(* What is said of the items before q, and before r that follows it.       *)

IsMain(q) == \E tag \in Main : At(q, tag)

LEMMA EndNext ==
    ASSUME NEW q \in Nat, NEW r \in Nat, Follows(r, q), NEW p \in Nat
    PROVE  EndBetween(p, r) <=> EndBetween(p, q) \/ (p < q /\ At(q, "end"))
<1>1. q \in Items /\ \A k \in Items : k < r <=> k < q \/ k = q
  BY DEF Follows
<1> QED BY <1>1 DEF EndBetween, Between

LEMMA MainNext ==
    ASSUME NEW q \in Nat, NEW r \in Nat, Follows(r, q), NEW p \in Nat
    PROVE  MainBetween(p, r) <=> MainBetween(p, q) \/ (p < q /\ IsMain(q))
<1>1. q \in Items /\ \A k \in Items : k < r <=> k < q \/ k = q
  BY DEF Follows
<1> QED BY <1>1 DEF MainBetween, Between, IsMain

\* An item hides the ones before it that have the same tag, and a Main item all
\* the local ones.
LEMMA ScopeNext ==
    ASSUME descriptor \in Descriptors, NEW q \in Nat, NEW r \in Nat, Follows(r, q),
           NEW p \in Items, NEW tag
    PROVE  InScope(p, tag, r) <=> \/ p = q /\ At(q, tag)
                                  \/ InScope(p, tag, q) /\ ~At(q, tag) /\ ~IsMain(q)
<1>1. q \in Items /\ \A k \in Items : k < r <=> k < q \/ k = q
  BY DEF Follows
<1>2. p \in Nat
  BY DescriptorType
<1>3. CASE p = q
  <2>1. ~MainBetween(q, r) /\ \A k \in Between(q, r) : FALSE
    BY <1>1 DEF MainBetween, Between
  <2>2. q < r /\ ~(p < q)
    BY <1>1, <1>3
  <2> QED BY <1>3, <2>1, <2>2 DEF InScope
<1>4. CASE p < q
  <2>1. p < r /\ (MainBetween(p, r) <=> MainBetween(p, q) \/ IsMain(q))
    BY <1>1, <1>2, <1>4, MainNext
  <2>2. (\A k \in Between(p, r) : ~At(k, tag)) <=>
            (\A k \in Between(p, q) : ~At(k, tag)) /\ ~At(q, tag)
    BY <1>1, <1>4 DEF Between
  <2>3. p # q
    BY <1>2, <1>4
  <2> QED BY <1>4, <2>1, <2>2, <2>3 DEF InScope
<1>5. CASE ~(p < q) /\ p # q
  BY <1>1, <1>5 DEF InScope
<1> QED BY <1>3, <1>4, <1>5

LEMMA CollectionNext ==
    ASSUME descriptor \in Descriptors, NEW q \in Nat, NEW r \in Nat, Follows(r, q)
    PROVE  InCollection(r) <=> At(q, "collection") \/ (InCollection(q) /\ ~At(q, "end"))
<1>1. q \in Items /\ \A k \in Items : k < r <=> k < q \/ k = q
  BY DEF Follows
<1>2. Items \subseteq Nat
  BY DescriptorType
<1>3. ~(At(q, "collection") /\ At(q, "end"))
  BY OneTag, Tags
<1>4. ~EndBetween(q, r)
  BY <1>1 DEF EndBetween, Between
<1>5. ASSUME NEW c \in Items, c < q
      PROVE  EndBetween(c, r) <=> EndBetween(c, q) \/ At(q, "end")
  BY <1>2, <1>5, EndNext
<1>6. ASSUME At(q, "collection") PROVE InCollection(r)
  BY <1>1, <1>4, <1>6 DEF InCollection
<1>7. ASSUME InCollection(q), ~At(q, "end") PROVE InCollection(r)
  BY <1>1, <1>5, <1>7 DEF InCollection
<1>8. ASSUME InCollection(r), ~At(q, "collection") PROVE InCollection(q) /\ ~At(q, "end")
  <2>1. PICK c \in Items : c < r /\ At(c, "collection") /\ ~EndBetween(c, r)
    BY <1>8 DEF InCollection
  <2>2. c < q
    BY <1>1, <1>8, <2>1
  <2> QED BY <1>5, <2>1, <2>2 DEF InCollection
<1> QED BY <1>6, <1>7, <1>8

\* A usage page that counts.
PageAt(q) == At(q, "usage_page") /\ ~InCollection(q)

LEMMA PageNext ==
    ASSUME descriptor \in Descriptors, NEW q \in Nat, NEW r \in Nat, Follows(r, q),
           NEW p \in Items
    PROVE  CurrentPage(p, r) <=> (p = q /\ PageAt(q)) \/ (CurrentPage(p, q) /\ ~PageAt(q))
<1>1. q \in Items /\ \A k \in Items : k < r <=> k < q \/ k = q
  BY DEF Follows
<1>2. p \in Nat
  BY DescriptorType
<1>3. CASE p = q
  <2>1. \A k \in Between(q, r) : FALSE
    BY <1>1 DEF Between
  <2>2. q < r /\ ~(p < q)
    BY <1>1, <1>3
  <2> QED BY <1>3, <2>1, <2>2 DEF CurrentPage, PageAt
<1>4. CASE p < q
  <2>1. p < r /\ p # q
    BY <1>1, <1>2, <1>4
  <2>2. (\A k \in Between(p, r) : At(k, "usage_page") => InCollection(k)) <=>
            (\A k \in Between(p, q) : At(k, "usage_page") => InCollection(k)) /\ ~PageAt(q)
    BY <1>1, <1>4 DEF Between, PageAt
  <2> QED BY <1>4, <2>1, <2>2 DEF CurrentPage
<1>5. CASE ~(p < q) /\ p # q
  BY <1>1, <1>5 DEF CurrentPage
<1> QED BY <1>3, <1>4, <1>5

LEMMA OpenNext ==
    ASSUME descriptor \in Descriptors, NEW q \in Nat, NEW r \in Nat, Follows(r, q),
           NEW c \in Items
    PROVE  OpenAt(c, r) <=> \/ c = q /\ At(q, "collection")
                            \/ OpenAt(c, q) /\ ~At(q, "end")
<1>1. q \in Items /\ \A k \in Items : k < r <=> k < q \/ k = q
  BY DEF Follows
<1>2. c \in Nat
  BY DescriptorType
<1>3. c = q => ~EndBetween(c, r) /\ ~(c < q) /\ c < r
  BY <1>1 DEF EndBetween, Between
<1>4. EndBetween(c, r) <=> EndBetween(c, q) \/ (c < q /\ At(q, "end"))
  BY <1>2, EndNext
<1> QED BY <1>1, <1>3, <1>4 DEF OpenAt

\* Before the first item there is nothing, and behind the last one everything.
LEMMA AtStart ==
    ASSUME descriptor \in Descriptors
    PROVE  /\ ~InCollection(0)
           /\ \A p \in Items : ~CurrentPage(p, 0) /\ ~OpenAt(p, 0) /\ ~EndBetween(p, 0)
           /\ \A p \in Items : \A tag : ~InScope(p, tag, 0)
<1>1. \A p \in Items : p \in Nat /\ ~(p < 0)
  BY DescriptorType
<1> QED BY <1>1 DEF InCollection, CurrentPage, OpenAt, EndBetween, Between, InScope

LEMMA AtEnd ==
    ASSUME descriptor \in Descriptors, NEW q \in Nat, q >= Size, NEW p \in Items
    PROVE  /\ EndBetween(p, Size) <=> EndBetween(p, q)
           /\ CurrentPage(p, Size) <=> CurrentPage(p, q)
           /\ \A tag : InScope(p, tag, Size) <=> InScope(p, tag, q)
           /\ p < q
<1>1. \A k \in Items : k < Size /\ k < q
  BY DescriptorType
<1>2. Between(p, Size) = Between(p, q)
  BY <1>1 DEF Between
<1> QED BY <1>1, <1>2 DEF EndBetween, CurrentPage, InScope, MainBetween
-----------------------------------------------------------------------------
(* How the fields and the flags follow the items.                          *)

\* An item that is no Main item gives its data to the field of its tag, if that
\* counts.
LEMMA FieldsNext ==
    ASSUME descriptor \in Descriptors, NEW q \in Nat, NEW r \in Nat, Follows(r, q),
           NEW t, NEW u, NEW c \in BOOLEAN, FieldsAt(t, c, q), ~IsMain(q),
           \A f \in Field : u[f] = IF At(q, f) /\ (f = "usage" \/ c) THEN ItemData(q) ELSE t[f]
    PROVE  FieldsAt(u, c, r)
<1>1. SUFFICES ASSUME NEW f \in Field, NEW p \in Items
               PROVE  u[f] = ItemData(p) <=> InScope(p, f, r) /\ (f = "usage" \/ c)
  BY DEF FieldsAt
<1>2. t[f] = ItemData(p) <=> InScope(p, f, q) /\ (f = "usage" \/ c)
  BY DEF FieldsAt
<1>3. InScope(p, f, r) <=> (p = q /\ At(q, f)) \/ (InScope(p, f, q) /\ ~At(q, f))
  BY ScopeNext
<1>4. q \in Items /\ (ItemData(q) = ItemData(p) <=> p = q)
  BY DatumType DEF Follows
<1>5. u[f] = IF At(q, f) /\ (f = "usage" \/ c) THEN ItemData(q) ELSE t[f]
  OBVIOUS
<1> QED BY <1>2, <1>3, <1>4, <1>5

\* A Main item leaves no local item behind.
LEMMA FieldsEmpty ==
    ASSUME descriptor \in Descriptors, NEW q \in Nat, NEW r \in Nat, Follows(r, q),
           NEW c \in BOOLEAN, NEW tag \in Main, At(q, tag)
    PROVE  FieldsAt(Empty, c, r)
<1>1. SUFFICES ASSUME NEW f \in Field, NEW p \in Items
               PROVE  Empty[f] # ItemData(p) /\ ~InScope(p, f, r)
  BY DEF FieldsAt
<1>2. Empty[f] = Unset
  BY DEF Empty
<1>3. ~At(q, f) /\ IsMain(q)
  BY OneTag, Tags DEF IsMain
<1> QED BY <1>2, <1>3, DatumType, ScopeNext

\* The flags do not change with an item that is neither a Collection nor its end,
\* nor a usage page that counts.
LEMMA FlagsKept ==
    ASSUME descriptor \in Descriptors, NEW q \in Nat, NEW r \in Nat, Follows(r, q),
           NEW c \in BOOLEAN, NEW found \in BOOLEAN, NEW ready \in BOOLEAN, NEW page, NEW usage,
           FlagsAt(c, found, ready, page, usage, q),
           ~At(q, "end"), ~At(q, "collection"), ~PageAt(q)
    PROVE  FlagsAt(c, found, ready, page, usage, r)
<1>1. InCollection(r) <=> InCollection(q)
  BY CollectionNext
<1>2. \A p \in Items : CurrentPage(p, q) => CurrentPage(p, r)
  BY PageNext
<1>3. \A p \in Items : CurrentPage(p, r) => CurrentPage(p, q)
  BY PageNext
<1>4. \A k \in Items : OpenAt(k, r) <=> OpenAt(k, q)
  BY OpenNext
<1>5. \A k \in Items : EndBetween(k, r) <=> EndBetween(k, q)
  <2>1. Items \subseteq Nat
    BY DescriptorType
  <2> QED BY <2>1, EndNext
<1>6. HasPage(page, q) => HasPage(page, r)
  BY <1>2 DEF HasPage
<1> QED BY <1>1, <1>3, <1>4, <1>5, <1>6 DEF FlagsAt

\* A pair is ready only inside of a collection.
LEMMA ReadyIsInside ==
    ASSUME NEW c, NEW found, NEW ready, NEW page, NEW usage, NEW q,
           FlagsAt(c, found, ready, page, usage, q), ready
    PROVE  InCollection(q)
BY DEF FlagsAt, OpenAt, InCollection

\* A usage page outside of any collection becomes the current one.
LEMMA FlagsOfPage ==
    ASSUME descriptor \in Descriptors, NEW q \in Nat, NEW r \in Nat, Follows(r, q),
           NEW found \in BOOLEAN, NEW ready \in BOOLEAN, NEW page, NEW usage,
           FlagsAt(FALSE, found, ready, page, usage, q), At(q, "usage_page")
    PROVE  FlagsAt(FALSE, TRUE, ready, ItemData(q), usage, r)
<1>1. ~At(q, "end") /\ ~At(q, "collection")
  BY OneTag, Tags
<1>2. ~InCollection(q) /\ ~InCollection(r)
  BY <1>1, CollectionNext DEF FlagsAt
<1>3. q \in Items /\ CurrentPage(q, r)
  BY <1>2, PageNext DEF PageAt, Follows
<1>4. ~ready
  BY <1>2, ReadyIsInside
<1>5. \A k \in Items : ~OpenAt(k, r)
  BY <1>2 DEF OpenAt, InCollection
<1>6. \A k \in Items : EndBetween(k, r) => EndBetween(k, q)
  <2>1. Items \subseteq Nat
    BY DescriptorType
  <2> QED BY <1>1, <2>1, EndNext
<1>7. HasPage(ItemData(q), r)
  BY <1>3 DEF HasPage
<1> QED BY <1>2, <1>4, <1>5, <1>6, <1>7 DEF FlagsAt

\* What the fields tell of the usage in scope.
LEMMA UsageInScope ==
    ASSUME descriptor \in Descriptors, NEW t \in [Field -> Datum], NEW c, NEW q,
           FieldsAt(t, c, q)
    PROVE  /\ t["usage"] # Unset => HasUse(t["usage"], q)
           /\ t["usage"] # Unset <=> \E u \in Items : InScope(u, "usage", q)
<1>1. \A p \in Items : t["usage"] = ItemData(p) <=> InScope(p, "usage", q)
  BY Tags DEF FieldsAt
<1>2. t["usage"] \in Datum
  BY Tags
<1>3. t["usage"] = Unset \/ \E p \in Items : t["usage"] = ItemData(p)
  BY <1>2, DatumType
<1>4. \A p \in Items : ItemData(p) # Unset
  BY DatumType
<1> QED BY <1>1, <1>3, <1>4 DEF HasUse

\* A Collection has the pair that the flags and the fields tell of.
LEMMA FlagsOfCollection ==
    ASSUME descriptor \in Descriptors, NEW q \in Nat, NEW r \in Nat, Follows(r, q),
           NEW c \in BOOLEAN, NEW found \in BOOLEAN, NEW ready \in BOOLEAN, NEW page, NEW usage,
           NEW t \in [Field -> Datum], FieldsAt(t, c, q),
           FlagsAt(c, found, ready, page, usage, q), At(q, "collection")
    PROVE  /\ found /\ t["usage"] # Unset => FlagsAt(TRUE, found, TRUE, page, t["usage"], r)
           /\ ~(found /\ t["usage"] # Unset) => FlagsAt(TRUE, found, ready, page, usage, r)
<1> DEFINE pair == found /\ t["usage"] # Unset
           usage2 == IF pair THEN t["usage"] ELSE usage
<1>1. ~At(q, "end") /\ ~PageAt(q)
  BY OneTag, Tags DEF PageAt
<1>2. InCollection(r)
  BY CollectionNext
<1>3. \A p \in Items : CurrentPage(p, r) <=> CurrentPage(p, q)
  BY <1>1, PageNext
<1>4. q \in Items /\ \A k \in Items : OpenAt(k, r) <=> k = q \/ OpenAt(k, q)
  BY <1>1, OpenNext DEF Follows
<1>5. \A k \in Items : EndBetween(k, r) <=> EndBetween(k, q)
  <2>1. Items \subseteq Nat
    BY DescriptorType
  <2> QED BY <1>1, <2>1, EndNext
<1>6. HasPage(page, r) <=> HasPage(page, q)
  BY <1>3 DEF HasPage
<1>7. PairAt(q) <=> pair
  <2>1. found <=> \E p \in Items : CurrentPage(p, q)
    BY DEF FlagsAt, HasPage
  <2> QED BY <2>1, UsageInScope DEF PairAt
<1>8. ASSUME ready \/ pair
      PROVE  \E k \in Items : OpenAt(k, r) /\ HasUse(usage2, k) /\ HasPage(page, k)
  <2>1. CASE pair
    <3>1. HasUse(usage2, q) /\ HasPage(page, q)
      BY <2>1, UsageInScope DEF FlagsAt
    <3> QED BY <1>4, <3>1
  <2>2. CASE ~pair
    <3>1. ready /\ usage2 = usage
      BY <1>8, <2>2
    <3>2. \E k \in Items : OpenAt(k, q) /\ HasUse(usage, k) /\ HasPage(page, k)
      BY <3>1 DEF FlagsAt
    <3> QED BY <1>4, <3>1, <3>2
  <2> QED BY <2>1, <2>2
<1>9. ASSUME NEW k \in Items, OpenAt(k, r), PairAt(k) PROVE ready \/ pair
  BY <1>4, <1>7, <1>9 DEF FlagsAt
<1>10. ~(ready \/ pair) => usage2 = Unset
  BY DEF FlagsAt
<1>11. \A k \in Items : At(k, "collection") /\ PairAt(k) => ~EndBetween(k, r)
  BY <1>5 DEF FlagsAt
<1>12. (found => HasPage(page, r)) /\ (~found => \A p \in Items : ~CurrentPage(p, r))
  BY <1>3, <1>6 DEF FlagsAt
<1>13. FlagsAt(TRUE, found, ready \/ pair, page, usage2, r)
  BY <1>2, <1>8, <1>9, <1>10, <1>11, <1>12 DEF FlagsAt
<1>14. CASE pair
  BY <1>13, <1>14
<1>15. CASE ~pair
  <2>1. (ready \/ pair) = ready /\ usage2 = usage
    BY <1>15
  <2> QED BY <1>13, <1>15, <2>1
<1> QED BY <1>14, <1>15

\* The end of a collection without a pair closes none.
LEMMA FlagsOfEnd ==
    ASSUME descriptor \in Descriptors, NEW q \in Nat, NEW r \in Nat, Follows(r, q),
           NEW c \in BOOLEAN, NEW found \in BOOLEAN, NEW ready \in BOOLEAN, NEW page, NEW usage,
           FlagsAt(c, found, ready, page, usage, q), At(q, "end"), ~(c /\ ready)
    PROVE  FlagsAt(FALSE, found, FALSE, page, usage, r)
<1>1. ~At(q, "collection") /\ ~PageAt(q)
  BY OneTag, Tags DEF PageAt
<1>2. ~ready /\ usage = Unset
  BY ReadyIsInside DEF FlagsAt
<1>3. ~InCollection(r)
  BY <1>1, CollectionNext
<1>4. \A p \in Items : CurrentPage(p, r) <=> CurrentPage(p, q)
  BY <1>1, PageNext
<1>5. \A k \in Items : ~OpenAt(k, r)
  BY <1>1, OpenNext
<1>6. ASSUME NEW k \in Items, At(k, "collection"), PairAt(k) PROVE ~EndBetween(k, r)
  <2>1. ~EndBetween(k, q) /\ (OpenAt(k, q) => ready)
    BY <1>6 DEF FlagsAt
  <2>2. EndBetween(k, r) => EndBetween(k, q) \/ k < q
    BY DescriptorType, EndNext
  <2> QED BY <1>2, <1>6, <2>1, <2>2 DEF OpenAt
<1>7. (found => HasPage(page, r)) /\ (~found => \A p \in Items : ~CurrentPage(p, r))
  BY <1>4 DEF FlagsAt, HasPage
<1> QED BY <1>2, <1>3, <1>5, <1>6, <1>7 DEF FlagsAt
-----------------------------------------------------------------------------
(* What a step leaves alone.                                               *)

\* The descriptor is never changed: what is said of it stays.
LEMMA Same ==
    ASSUME descriptor' = descriptor
    PROVE  /\ Size' = Size /\ Items' = Items
           /\ Datum' = Datum /\ Entry' = Entry /\ ReportType' = ReportType
           /\ NoPair' <=> NoPair
           /\ \A k, e : EntryOf(k, e)' <=> EntryOf(k, e)
           /\ \A t, c, q : FieldsAt(t, c, q)' <=> FieldsAt(t, c, q)
           /\ \A c, found, ready, page, usage, q :
                 FlagsAt(c, found, ready, page, usage, q)' <=>
                     FlagsAt(c, found, ready, page, usage, q)
           /\ \A page, usage, q : Found(page, usage, q)' <=> Found(page, usage, q)
<1>1. Size' = Size /\ Items' = Items
  BY DEF Size, Items
<1>2. ASSUME NEW p PROVE ItemData(p)' = ItemData(p)
  BY <1>1 DEF ItemData, DataLen, IsLong, SizeCode, Key
<1>3. Datum' = Datum /\ Entry' = Entry /\ ReportType' = ReportType
  <2>1. Datum' = Datum
    BY <1>1, <1>2 DEF Datum
  <2>2. Entry' = Entry
    BY <1>1, <2>1 DEF Entry
  <2> QED BY <2>1, <2>2 DEF ReportType
<1>4. ASSUME NEW p, NEW tag PROVE At(p, tag)' <=> At(p, tag)
  BY DEF At, SizeCode, Key
<1>5. ASSUME NEW p, NEW q PROVE Between(p, q)' = Between(p, q)
  BY <1>1 DEF Between
<1>6. ASSUME NEW p, NEW q PROVE EndBetween(p, q)' <=> EndBetween(p, q)
  BY <1>4, <1>5 DEF EndBetween
<1>7. ASSUME NEW p, NEW q PROVE MainBetween(p, q)' <=> MainBetween(p, q)
  BY <1>4, <1>5 DEF MainBetween
<1>8. ASSUME NEW p, NEW tag, NEW q PROVE InScope(p, tag, q)' <=> InScope(p, tag, q)
  BY <1>4, <1>5, <1>7 DEF InScope
<1>9. ASSUME NEW p PROVE InCollection(p)' <=> InCollection(p)
  BY <1>1, <1>4, <1>6 DEF InCollection
<1>10. ASSUME NEW p, NEW q PROVE CurrentPage(p, q)' <=> CurrentPage(p, q)
  BY <1>4, <1>5, <1>9 DEF CurrentPage
<1>11. ASSUME NEW q PROVE PairAt(q)' <=> PairAt(q)
  BY <1>1, <1>8, <1>10 DEF PairAt
<1>12. ASSUME NEW c PROVE Closed(c)' <=> Closed(c)
  <2>1. PICK n : n = Size
    OBVIOUS
  <2>2. EndBetween(c, n)' <=> EndBetween(c, n)
    BY <1>6
  <2> QED BY <1>1, <2>1, <2>2 DEF Closed
<1>13. NoPair' <=> NoPair
  <2>1. PICK n : n = Size
    OBVIOUS
  <2>2. PairAt(n)' <=> PairAt(n)
    BY <1>11
  <2>3. ClosedPair' <=> ClosedPair
    BY <1>1, <1>4, <1>11, <1>12 DEF ClosedPair
  <2>4. TopLevelPair' <=> TopLevelPair
    BY <1>1, <2>1, <2>2 DEF TopLevelPair
  <2> QED BY <2>3, <2>4 DEF NoPair
<1>14. ASSUME NEW t, NEW c, NEW q PROVE FieldsAt(t, c, q)' <=> FieldsAt(t, c, q)
  BY <1>1, <1>2, <1>8 DEF FieldsAt
<1>15. ASSUME NEW k, NEW e PROVE EntryOf(k, e)' <=> EntryOf(k, e)
  BY <1>4, <1>14 DEF EntryOf
<1>16. ASSUME NEW x, NEW q PROVE HasUse(x, q)' <=> HasUse(x, q)
  BY <1>1, <1>2, <1>8 DEF HasUse
<1>17. ASSUME NEW x, NEW q PROVE HasPage(x, q)' <=> HasPage(x, q)
  BY <1>1, <1>2, <1>10 DEF HasPage
<1>18. ASSUME NEW c, NEW q PROVE OpenAt(c, q)' <=> OpenAt(c, q)
  BY <1>4, <1>6 DEF OpenAt
<1>19. ASSUME NEW c, NEW found, NEW ready, NEW page, NEW usage, NEW q
       PROVE  FlagsAt(c, found, ready, page, usage, q)' <=>
                  FlagsAt(c, found, ready, page, usage, q)
  BY <1>1, <1>4, <1>6, <1>9, <1>10, <1>11, <1>16, <1>17, <1>18 DEF FlagsAt
<1>20. ASSUME NEW page, NEW usage, NEW q
       PROVE  Found(page, usage, q)' <=> Found(page, usage, q)
  <2>1. PICK n : n = Size
    OBVIOUS
  <2>2. HasPage(page, n)' <=> HasPage(page, n)
    BY <1>17
  <2>3. ASSUME NEW u PROVE InScope(u, "usage", n)' <=> InScope(u, "usage", n)
    BY <1>8
  <2> QED BY <1>1, <1>4, <1>12, <1>16, <1>17, <1>18, <2>1, <2>2, <2>3 DEF Found
<1> QED BY <1>1, <1>3, <1>13, <1>14, <1>15, <1>19, <1>20
-----------------------------------------------------------------------------
(* Every step preserves the invariant.                                     *)

\* Only the first call sees an item.
LEMMA OnlyFirst ==
    ASSUME Inv, HasItem
    PROVE  /\ initial /\ ret = NoReturn /\ outcome = "none"
           /\ FieldsAt(tmp, collection, pos)
           /\ FlagsAt(collection, usage_page_found, usage_pair_ready,
                      hid_report.usage_page, hid_report.usage, pos)
<1>1. descriptor \in Descriptors /\ pos \in Nat /\ Size \in Nat /\ pos < Size /\ calling
  BY DescriptorType DEF Inv, Types, HasItem
<1>2. ~(pos >= Size)
  BY <1>1
<1>3. initial /\ ret \notin {-1, 0, 1} /\ outcome = "none"
  BY <1>1, <1>2 DEF Inv, Returned
<1>4. ret = NoReturn
  BY <1>3 DEF Inv, Types
<1> QED BY <1>1, <1>3, <1>4 DEF Inv, FirstCall

\* A step to the next item, by which the fields, the flags and the report follow.
LEMMA SkipInv ==
    ASSUME Inv, HasItem, Skip,
           usage_page_found' \in BOOLEAN, usage_pair_ready' \in BOOLEAN, collection' \in BOOLEAN,
           tmp' \in [Field -> Datum], hid_report' \in ReportType,
           \A k \in Kind : \A i \in 1 .. Len(hid_report'[k]) : EntryOf(k, hid_report'[k][i]),
           FieldsAt(tmp', collection', pos'),
           FlagsAt(collection', usage_page_found', usage_pair_ready',
                   hid_report'.usage_page, hid_report'.usage, pos')
    PROVE  Inv'
<1>1. UNCHANGED <<descriptor, calling, initial, ret, reports, outcome>>
  BY DEF Skip
<1>2. /\ Size' = Size /\ Datum' = Datum /\ ReportType' = ReportType /\ Items' = Items
  BY <1>1, Same
<1>3. pos' \in 0 .. Size + 257 /\ (pos' < Size => pos' \in Items)
  BY SkipItem DEF Inv
<1>4. Types'
  <2>1. /\ descriptor' \in Descriptors
        /\ calling' \in BOOLEAN /\ initial' \in BOOLEAN
        /\ ret' \in {-1, 0, 1, NoReturn} /\ outcome' \in {"none", "reported", "malformed"}
    BY <1>1 DEF Inv, Types
  <2> QED BY <1>2, <1>3, <2>1 DEF Types
<1>5. Entries'
  <2>1. ASSUME NEW k \in Kind, NEW i \in 1 .. Len(hid_report'[k])
        PROVE  EntryOf(k, hid_report[k][i])'
    <3>1. PICK e : e = hid_report'[k][i]
      OBVIOUS
    <3>2. EntryOf(k, e)
      BY <3>1
    <3>3. EntryOf(k, e)'
      BY <1>1, <3>2, Same
    <3> QED BY <3>1, <3>3
  <2> QED BY <2>1 DEF Entries
<1>6. FirstCall'
  <2>1. PICK t, c, q, found, ready, page, usage :
            /\ t = tmp' /\ c = collection' /\ q = pos' /\ found = usage_page_found'
            /\ ready = usage_pair_ready' /\ page = hid_report'.usage_page
            /\ usage = hid_report'.usage
    OBVIOUS
  <2>2. FieldsAt(t, c, q) /\ FlagsAt(c, found, ready, page, usage, q)
    BY <2>1
  <2>3. FieldsAt(t, c, q)' /\ FlagsAt(c, found, ready, page, usage, q)'
    BY <1>1, <2>2, Same
  <2> QED BY <2>1, <2>3 DEF FirstCall
<1>7. Returned'
  <2>1. calling /\ initial /\ ret = NoReturn /\ outcome = "none"
    BY OnlyFirst DEF HasItem
  <2>2. calling' /\ initial' /\ ret' = NoReturn /\ outcome' = "none"
    BY <1>1, <2>1
  <2> QED BY <2>2 DEF Returned, NoReturn
<1> QED BY <1>4, <1>5, <1>6, <1>7 DEF Inv

\* What the types say of the item at pos.
LEMMA ItemTypes ==
    ASSUME Inv, HasItem, Skip
    PROVE  /\ descriptor \in Descriptors /\ pos \in Nat /\ pos' \in Nat /\ pos \in Items
           /\ Follows(pos', pos)
           /\ ItemData(pos) \in Datum
           /\ usage_page_found \in BOOLEAN /\ usage_pair_ready \in BOOLEAN
           /\ collection \in BOOLEAN /\ tmp \in [Field -> Datum] /\ hid_report \in ReportType
           /\ \A k \in Kind : \A i \in 1 .. Len(hid_report[k]) : EntryOf(k, hid_report[k][i])
<1>1. pos \in Nat /\ pos' \in Nat /\ Follows(pos', pos)
  BY SkipItem DEF Inv
<1>2. pos \in Items
  BY <1>1 DEF Follows
<1>3. descriptor \in Descriptors
  BY DEF Inv, Types
<1>4. ItemData(pos) \in Datum
  BY <1>2, <1>3, DatumType
<1>5. \A k \in Kind : \A i \in 1 .. Len(hid_report[k]) : EntryOf(k, hid_report[k][i])
  BY DEF Inv, Entries
<1> QED BY <1>1, <1>2, <1>3, <1>4, <1>5 DEF Inv, Types

LEMMA UsagePageInv == ASSUME Inv, UsagePage PROVE Inv'
<1>1. HasItem /\ Skip /\ At(pos, "usage_page")
  BY DEF UsagePage, Item
<1>2. UNCHANGED <<usage_pair_ready, collection, tmp>>
  BY DEF UsagePage
<1>3. /\ descriptor \in Descriptors /\ pos \in Nat /\ pos' \in Nat /\ Follows(pos', pos)
      /\ ItemData(pos) \in Datum
      /\ usage_page_found \in BOOLEAN /\ usage_pair_ready \in BOOLEAN
      /\ collection \in BOOLEAN /\ tmp \in [Field -> Datum] /\ hid_report \in ReportType
      /\ \A k \in Kind : \A i \in 1 .. Len(hid_report[k]) : EntryOf(k, hid_report[k][i])
  BY <1>1, ItemTypes
<1>4. /\ FieldsAt(tmp, collection, pos)
      /\ FlagsAt(collection, usage_page_found, usage_pair_ready,
                 hid_report.usage_page, hid_report.usage, pos)
  BY <1>1, OnlyFirst
<1>5. ~IsMain(pos) /\ ~At(pos, "end") /\ ~At(pos, "collection")
      /\ \A f \in Field : ~At(pos, f)
  BY <1>1, OneTag, Tags DEF IsMain
<1>6. FieldsAt(tmp', collection', pos')
  BY <1>2, <1>3, <1>4, <1>5, FieldsNext
<1>7. CASE collection
  <2>1. UNCHANGED <<hid_report, usage_page_found>>
    BY <1>7 DEF UsagePage
  <2>2. ~PageAt(pos)
    BY <1>4, <1>7 DEF PageAt, FlagsAt
  <2>3. FlagsAt(collection, usage_page_found, usage_pair_ready,
                hid_report.usage_page, hid_report.usage, pos')
    BY <1>3, <1>4, <1>5, <2>2, FlagsKept
  <2> QED BY <1>1, <1>2, <1>3, <1>6, <2>1, <2>3, SkipInv
<1>8. CASE ~collection
  <2>1. /\ hid_report' = [hid_report EXCEPT !.usage_page = ItemData(pos)]
        /\ usage_page_found' = TRUE /\ collection = FALSE
    BY <1>3, <1>8 DEF UsagePage
  <2>2. /\ hid_report' \in ReportType /\ hid_report'.usage = hid_report.usage
        /\ hid_report'.usage_page = ItemData(pos)
        /\ \A k \in Kind : hid_report'[k] = hid_report[k]
    BY <1>3, <2>1 DEF ReportType, Kind
  <2>3. FlagsAt(FALSE, TRUE, usage_pair_ready, ItemData(pos), hid_report.usage, pos')
    BY <1>1, <1>3, <1>4, <2>1, FlagsOfPage
  <2>4. FlagsAt(collection', usage_page_found', usage_pair_ready',
                hid_report'.usage_page, hid_report'.usage, pos')
    BY <1>2, <2>1, <2>2, <2>3
  <2>5. \A k \in Kind : \A i \in 1 .. Len(hid_report'[k]) : EntryOf(k, hid_report'[k][i])
    BY <1>3, <2>2
  <2> QED BY <1>1, <1>2, <1>3, <1>6, <2>1, <2>2, <2>4, <2>5, SkipInv
<1> QED BY <1>7, <1>8

LEMMA LocalItemInv == ASSUME Inv, NEW h \in Field, LocalItem(h) PROVE Inv'
<1>1. HasItem /\ Skip /\ At(pos, h)
  BY DEF LocalItem, Item
<1>2. UNCHANGED <<hid_report, usage_page_found, usage_pair_ready, collection>>
  BY DEF LocalItem
<1>3. /\ descriptor \in Descriptors /\ pos \in Nat /\ pos' \in Nat /\ Follows(pos', pos)
      /\ ItemData(pos) \in Datum
      /\ usage_page_found \in BOOLEAN /\ usage_pair_ready \in BOOLEAN
      /\ collection \in BOOLEAN /\ tmp \in [Field -> Datum] /\ hid_report \in ReportType
      /\ \A k \in Kind : \A i \in 1 .. Len(hid_report[k]) : EntryOf(k, hid_report[k][i])
  BY <1>1, ItemTypes
<1>4. /\ FieldsAt(tmp, collection, pos)
      /\ FlagsAt(collection, usage_page_found, usage_pair_ready,
                 hid_report.usage_page, hid_report.usage, pos)
  BY <1>1, OnlyFirst
<1>5. /\ ~IsMain(pos) /\ ~At(pos, "end") /\ ~At(pos, "collection") /\ ~PageAt(pos)
      /\ \A f \in Field : At(pos, f) <=> f = h
  BY <1>1, OneTag, Tags DEF IsMain, PageAt
<1>6. tmp' = IF h = "usage" \/ collection THEN [tmp EXCEPT ![h] = ItemData(pos)] ELSE tmp
  BY DEF LocalItem
<1>7. tmp' \in [Field -> Datum]
  BY <1>3, <1>6
<1>8. \A f \in Field : tmp'[f] = IF At(pos, f) /\ (f = "usage" \/ collection)
                                 THEN ItemData(pos) ELSE tmp[f]
  BY <1>3, <1>5, <1>6
<1>9. FieldsAt(tmp', collection, pos')
  BY <1>3, <1>4, <1>5, <1>8, FieldsNext
<1>10. FlagsAt(collection, usage_page_found, usage_pair_ready,
               hid_report.usage_page, hid_report.usage, pos')
  BY <1>3, <1>4, <1>5, FlagsKept
<1> QED BY <1>1, <1>2, <1>3, <1>7, <1>9, <1>10, SkipInv

LEMMA OtherItemInv == ASSUME Inv, OtherItem PROVE Inv'
<1>1. HasItem /\ Skip /\ \A tag \in DOMAIN KeyCmd : ~At(pos, tag)
  BY DEF OtherItem
<1>2. UNCHANGED <<hid_report, tmp, usage_page_found, usage_pair_ready, collection>>
  BY DEF OtherItem
<1>3. /\ descriptor \in Descriptors /\ pos \in Nat /\ pos' \in Nat /\ Follows(pos', pos)
      /\ usage_page_found \in BOOLEAN /\ usage_pair_ready \in BOOLEAN
      /\ collection \in BOOLEAN /\ tmp \in [Field -> Datum] /\ hid_report \in ReportType
      /\ \A k \in Kind : \A i \in 1 .. Len(hid_report[k]) : EntryOf(k, hid_report[k][i])
  BY <1>1, ItemTypes
<1>4. /\ FieldsAt(tmp, collection, pos)
      /\ FlagsAt(collection, usage_page_found, usage_pair_ready,
                 hid_report.usage_page, hid_report.usage, pos)
  BY <1>1, OnlyFirst
<1>5. /\ ~IsMain(pos) /\ ~At(pos, "end") /\ ~At(pos, "collection") /\ ~PageAt(pos)
      /\ \A f \in Field : ~At(pos, f)
  BY <1>1, Tags DEF IsMain, PageAt
<1>6. FieldsAt(tmp, collection, pos')
  BY <1>3, <1>4, <1>5, FieldsNext
<1>7. FlagsAt(collection, usage_page_found, usage_pair_ready,
              hid_report.usage_page, hid_report.usage, pos')
  BY <1>3, <1>4, <1>5, FlagsKept
<1> QED BY <1>1, <1>2, <1>3, <1>6, <1>7, SkipInv

LEMMA EmptyType ==
    ASSUME descriptor \in Descriptors
    PROVE  Empty \in [Field -> Datum] /\ NoReport \in ReportType
<1>1. Unset \in Datum
  BY DatumType
<1>2. <<>> \in Seq(Entry)
  OBVIOUS
<1> QED BY <1>1, <1>2 DEF Empty, NoReport, ReportType

LEMMA CollectionInv == ASSUME Inv, Collection PROVE Inv'
<1>1. HasItem /\ Skip /\ At(pos, "collection")
  BY DEF Collection, Item
<1>2. tmp' = Empty /\ UNCHANGED usage_page_found /\ collection' = TRUE
  BY DEF Collection
<1>3. /\ descriptor \in Descriptors /\ pos \in Nat /\ pos' \in Nat /\ Follows(pos', pos)
      /\ usage_page_found \in BOOLEAN /\ usage_pair_ready \in BOOLEAN
      /\ collection \in BOOLEAN /\ tmp \in [Field -> Datum] /\ hid_report \in ReportType
      /\ \A k \in Kind : \A i \in 1 .. Len(hid_report[k]) : EntryOf(k, hid_report[k][i])
  BY <1>1, ItemTypes
<1>4. /\ FieldsAt(tmp, collection, pos)
      /\ FlagsAt(collection, usage_page_found, usage_pair_ready,
                 hid_report.usage_page, hid_report.usage, pos)
  BY <1>1, OnlyFirst
<1>5. FieldsAt(tmp', collection', pos') /\ tmp' \in [Field -> Datum]
  BY <1>1, <1>2, <1>3, FieldsEmpty, EmptyType, Tags
<1>6. /\ usage_page_found /\ HasUsage =>
            FlagsAt(TRUE, usage_page_found, TRUE, hid_report.usage_page, tmp["usage"], pos')
      /\ ~(usage_page_found /\ HasUsage) =>
            FlagsAt(TRUE, usage_page_found, usage_pair_ready, hid_report.usage_page,
                    hid_report.usage, pos')
  BY <1>1, <1>3, <1>4, FlagsOfCollection DEF HasUsage
<1>7. CASE usage_page_found /\ HasUsage
  <2>1. /\ hid_report' = [hid_report EXCEPT !.usage = tmp["usage"]]
        /\ usage_pair_ready' = TRUE
    BY <1>7 DEF Collection
  <2>2. tmp["usage"] \in Datum
    BY <1>3, Tags
  <2>3. /\ hid_report' \in ReportType /\ hid_report'.usage_page = hid_report.usage_page
        /\ hid_report'.usage = tmp["usage"]
        /\ \A k \in Kind : hid_report'[k] = hid_report[k]
    BY <1>3, <2>1, <2>2 DEF ReportType, Kind
  <2>4. FlagsAt(TRUE, usage_page_found, TRUE, hid_report.usage_page, tmp["usage"], pos')
    BY <1>6, <1>7
  <2>5. FlagsAt(collection', usage_page_found', usage_pair_ready',
                hid_report'.usage_page, hid_report'.usage, pos')
    BY <1>2, <2>1, <2>3, <2>4
  <2>6. \A k \in Kind : \A i \in 1 .. Len(hid_report'[k]) : EntryOf(k, hid_report'[k][i])
    BY <1>3, <2>3
  <2> QED BY <1>1, <1>2, <1>3, <1>5, <2>1, <2>3, <2>5, <2>6, SkipInv
<1>8. CASE ~(usage_page_found /\ HasUsage)
  <2>1. UNCHANGED <<hid_report, usage_pair_ready>>
    BY <1>8 DEF Collection
  <2>2. FlagsAt(TRUE, usage_page_found, usage_pair_ready, hid_report.usage_page,
                hid_report.usage, pos')
    BY <1>6, <1>8
  <2> QED BY <1>1, <1>2, <1>3, <1>5, <2>1, <2>2, SkipInv
<1> QED BY <1>7, <1>8

\* An Input, Output or Feature copies the fields in scope.
LEMMA DataItemInv == ASSUME Inv, NEW h \in Kind, DataItem(h) PROVE Inv'
<1>1. HasItem /\ Skip /\ At(pos, h)
  BY DEF DataItem, Item
<1>2. tmp' = Empty /\ UNCHANGED <<usage_page_found, usage_pair_ready, collection>>
  BY DEF DataItem
<1>3. /\ descriptor \in Descriptors /\ pos \in Nat /\ pos' \in Nat /\ Follows(pos', pos)
      /\ pos \in Items
      /\ usage_page_found \in BOOLEAN /\ usage_pair_ready \in BOOLEAN
      /\ collection \in BOOLEAN /\ tmp \in [Field -> Datum] /\ hid_report \in ReportType
      /\ \A k \in Kind : \A i \in 1 .. Len(hid_report[k]) : EntryOf(k, hid_report[k][i])
  BY <1>1, ItemTypes
<1>4. /\ FieldsAt(tmp, collection, pos)
      /\ FlagsAt(collection, usage_page_found, usage_pair_ready,
                 hid_report.usage_page, hid_report.usage, pos)
  BY <1>1, OnlyFirst
<1>5. ~At(pos, "end") /\ ~At(pos, "collection") /\ ~PageAt(pos)
  BY <1>1, OneTag, Tags DEF PageAt
<1>6. FieldsAt(tmp', collection', pos') /\ tmp' \in [Field -> Datum]
  BY <1>1, <1>2, <1>3, FieldsEmpty, EmptyType, Tags
<1>7. FlagsAt(collection, usage_page_found, usage_pair_ready,
              hid_report.usage_page, hid_report.usage, pos')
  BY <1>3, <1>4, <1>5, FlagsKept
<1>8. CASE collection
  <2>1. PICK e : e = [at |-> pos, fields |-> tmp]
    OBVIOUS
  <2>2. e \in Entry /\ e.at = pos /\ e.fields = tmp
    BY <1>3, <2>1 DEF Entry
  <2>3. EntryOf(h, e)
    <3>1. FieldsAt(tmp, TRUE, pos)
      BY <1>3, <1>4, <1>8
    <3> QED BY <1>1, <2>2, <3>1 DEF EntryOf
  <2>4. PICK s \in Seq(Entry) : s = hid_report[h]
    BY <1>3 DEF ReportType, Kind
  <2>5. hid_report' = [hid_report EXCEPT ![h] = Append(s, e)]
    BY <1>8, <2>1, <2>4 DEF DataItem
  <2>6. Append(s, e) \in Seq(Entry)
    BY <2>2, <2>4
  <2>7. PICK s2 \in Seq(Entry) : s2 = Append(s, e)
    BY <2>6
  <2>8. /\ hid_report' \in ReportType
        /\ hid_report'.usage_page = hid_report.usage_page
        /\ hid_report'.usage = hid_report.usage
        /\ \A k \in Kind : hid_report'[k] = IF k = h THEN s2 ELSE hid_report[k]
    BY <1>3, <2>5, <2>7 DEF ReportType, Kind
  <2>9. ASSUME NEW k \in Kind, NEW i \in 1 .. Len(hid_report'[k])
        PROVE  EntryOf(k, hid_report'[k][i])
    <3>1. CASE k # h
      BY <1>3, <2>8, <2>9, <3>1
    <3>2. CASE k = h
      <4>1. hid_report'[k] = s2 /\ i \in 1 .. Len(s2)
        BY <2>8, <2>9, <3>2
      <4>2. s2[i] = IF i = Len(s) + 1 THEN e ELSE s[i]
        BY <2>2, <2>4, <2>7, <4>1
      <4>3. i = Len(s) + 1 \/ i \in 1 .. Len(s)
        BY <2>2, <2>4, <2>7, <4>1
      <4>4. i \in 1 .. Len(s) /\ i # Len(s) + 1 => EntryOf(h, s[i])
        BY <1>3, <2>4
      <4> QED BY <2>3, <3>2, <4>1, <4>2, <4>3, <4>4
    <3> QED BY <3>1, <3>2
  <2> QED BY <1>1, <1>2, <1>3, <1>6, <1>7, <2>8, <2>9, SkipInv
<1>9. CASE ~collection
  <2>1. hid_report' = hid_report
    BY <1>9 DEF DataItem
  <2> QED BY <1>1, <1>2, <1>3, <1>6, <1>7, <2>1, SkipInv
<1> QED BY <1>8, <1>9

LEMMA EndWithoutPairInv == ASSUME Inv, EndWithoutPair PROVE Inv'
<1>1. HasItem /\ Skip /\ At(pos, "end") /\ ~(collection /\ usage_pair_ready)
  BY DEF EndWithoutPair, Item
<1>2. /\ tmp' = Empty /\ collection' = FALSE /\ usage_pair_ready' = FALSE
      /\ UNCHANGED <<hid_report, usage_page_found>>
  BY DEF EndWithoutPair
<1>3. /\ descriptor \in Descriptors /\ pos \in Nat /\ pos' \in Nat /\ Follows(pos', pos)
      /\ usage_page_found \in BOOLEAN /\ usage_pair_ready \in BOOLEAN
      /\ collection \in BOOLEAN /\ hid_report \in ReportType
      /\ \A k \in Kind : \A i \in 1 .. Len(hid_report[k]) : EntryOf(k, hid_report[k][i])
  BY <1>1, ItemTypes
<1>4. FlagsAt(collection, usage_page_found, usage_pair_ready,
              hid_report.usage_page, hid_report.usage, pos)
  BY <1>1, OnlyFirst
<1>5. FieldsAt(tmp', collection', pos') /\ tmp' \in [Field -> Datum]
  BY <1>1, <1>2, <1>3, FieldsEmpty, EmptyType, Tags
<1>6. FlagsAt(FALSE, usage_page_found, FALSE, hid_report.usage_page, hid_report.usage, pos')
  BY <1>1, <1>3, <1>4, FlagsOfEnd
<1> QED BY <1>1, <1>2, <1>3, <1>5, <1>6, SkipInv

\* A call is the first one if nothing has been returned, and otherwise begins
\* behind the last item.
LEMMA CallInv == ASSUME Inv, Call PROVE Inv'
<1>1. /\ calling' = TRUE /\ initial' = (pos = 0) /\ usage_page_found' = FALSE
      /\ usage_pair_ready' = FALSE /\ collection' = FALSE /\ tmp' = Empty
      /\ hid_report' = NoReport /\ UNCHANGED <<descriptor, pos, ret, reports, outcome>>
      /\ ~calling /\ outcome = "none" /\ ret # 0 /\ ret # -1
  BY DEF Call
<1>2. descriptor \in Descriptors
  BY DEF Inv, Types
<1>3. Size' = Size /\ Datum' = Datum /\ ReportType' = ReportType /\ Items' = Items
      /\ (NoPair' <=> NoPair)
  BY <1>1, Same
<1>4. Types'
  <2>1. tmp' \in [Field -> Datum] /\ hid_report' \in ReportType
    BY <1>1, <1>2, EmptyType
  <2>2. /\ pos' \in 0 .. Size + 257 /\ (pos' < Size => pos' \in Items)
        /\ initial' \in BOOLEAN
        /\ ret' \in {-1, 0, 1, NoReturn} /\ outcome' \in {"none", "reported", "malformed"}
    BY <1>1 DEF Inv, Types
  <2> QED BY <1>1, <1>2, <1>3, <2>1, <2>2 DEF Types
<1>5. Entries'
  BY <1>1 DEF Entries, NoReport, Kind
<1>6. FirstCall'
  <2>1. ASSUME initial' PROVE pos' = 0
    BY <1>1, <2>1
  <2>2. FieldsAt(Empty, FALSE, 0)
    BY <1>2, AtStart, DatumType DEF FieldsAt, Empty
  <2>3. FlagsAt(FALSE, FALSE, FALSE, Unset, Unset, 0)
    BY <1>2, AtStart DEF FlagsAt
  <2>4. PICK t, x, z : t = Empty /\ x = Unset /\ z = 0
    OBVIOUS
  <2>5. FieldsAt(t, FALSE, z) /\ FlagsAt(FALSE, FALSE, FALSE, x, x, z)
    BY <2>2, <2>3, <2>4
  <2>6. FieldsAt(t, FALSE, z)' /\ FlagsAt(FALSE, FALSE, FALSE, x, x, z)'
    BY <1>1, <2>5, Same
  <2>7. hid_report'.usage_page = x /\ hid_report'.usage = x /\ tmp' = t
    BY <1>1, <2>4 DEF NoReport
  <2> QED BY <1>1, <2>1, <2>4, <2>6, <2>7 DEF FirstCall
<1>7. Returned'
  <2>1. ret = NoReturn \/ ret = 1
    BY <1>1 DEF Inv, Types
  <2>2. ret = NoReturn => pos = 0
    BY <1>1 DEF Inv, Returned
  <2>3. ret = 1 => pos >= Size /\ NoPair
    BY DEF Inv, Returned
  <2> QED BY <1>1, <1>3, <2>1, <2>2, <2>3 DEF Returned, NoReturn
<1> QED BY <1>4, <1>5, <1>6, <1>7 DEF Inv
-----------------------------------------------------------------------------
(* What a call returns.                                                    *)

\* A step that touches neither the item nor the report.
LEMMA Stays ==
    ASSUME Inv, UNCHANGED <<descriptor, pos, local, hid_report>>, calling' => calling,
           calling' \in BOOLEAN, ret' \in {-1, 0, 1, NoReturn},
           outcome' \in {"none", "reported", "malformed"}
    PROVE  /\ Types' /\ Entries' /\ FirstCall'
           /\ Size' = Size /\ (NoPair' <=> NoPair)
           /\ Found(hid_report.usage_page, hid_report.usage, pos)' <=>
                  Found(hid_report.usage_page, hid_report.usage, pos)
<1>1. Size' = Size /\ Datum' = Datum /\ ReportType' = ReportType /\ Items' = Items
      /\ (NoPair' <=> NoPair)
  BY Same
<1>2. Types'
  BY <1>1 DEF Inv, Types, local
<1>3. Entries'
  <2>1. ASSUME NEW k \in Kind, NEW i \in 1 .. Len(hid_report[k])
        PROVE  EntryOf(k, hid_report[k][i])'
    <3>1. PICK e : e = hid_report[k][i]
      OBVIOUS
    <3>2. EntryOf(k, e)
      BY <3>1 DEF Inv, Entries
    <3>3. EntryOf(k, e)'
      BY <3>2, Same
    <3> QED BY <3>1, <3>3
  <2> QED BY <2>1 DEF Entries
<1>4. PICK t, c, q, found, ready, page, usage :
          /\ t = tmp /\ c = collection /\ q = pos /\ found = usage_page_found
          /\ ready = usage_pair_ready /\ page = hid_report.usage_page
          /\ usage = hid_report.usage
  OBVIOUS
<1>5. /\ t = tmp' /\ c = collection' /\ q = pos' /\ found = usage_page_found'
      /\ ready = usage_pair_ready' /\ page = hid_report'.usage_page
      /\ usage = hid_report'.usage /\ initial' = initial
  BY <1>4 DEF local
<1>6. /\ FieldsAt(t, c, q)' <=> FieldsAt(t, c, q)
      /\ FlagsAt(c, found, ready, page, usage, q)' <=> FlagsAt(c, found, ready, page, usage, q)
      /\ Found(page, usage, q)' <=> Found(page, usage, q)
  BY Same
<1>7. FirstCall'
  <2>1. calling' /\ initial' => FieldsAt(t, c, q) /\ FlagsAt(c, found, ready, page, usage, q)
    BY <1>4, <1>5 DEF Inv, FirstCall
  <2> QED BY <1>5, <1>6, <2>1 DEF FirstCall
<1>8. Found(hid_report.usage_page, hid_report.usage, pos)' <=>
          Found(hid_report.usage_page, hid_report.usage, pos)
  BY <1>4, <1>5, <1>6
<1> QED BY <1>1, <1>2, <1>3, <1>7, <1>8

LEMMA ReturnInv ==
    ASSUME Inv, calling, NEW value \in {0, 1}, Return(value),
           value = 0 => Found(hid_report.usage_page, hid_report.usage, pos),
           value = 1 => pos >= Size /\ NoPair
    PROVE  Inv'
<1>1. UNCHANGED <<descriptor, pos, local, hid_report, outcome>> /\ calling' = FALSE /\ ret' = value
  BY DEF Return
<1>2. outcome = "none" /\ outcome' \in {"none", "reported", "malformed"}
  BY <1>1 DEF Inv, Types, Returned
<1>3. /\ Types' /\ Entries' /\ FirstCall'
      /\ Size' = Size /\ (NoPair' <=> NoPair)
      /\ Found(hid_report.usage_page, hid_report.usage, pos)' <=>
             Found(hid_report.usage_page, hid_report.usage, pos)
  BY <1>1, <1>2, Stays
<1>4. Returned'
  BY <1>1, <1>2, <1>3 DEF Returned, NoReturn
<1> QED BY <1>3, <1>4 DEF Inv

LEMMA EndWithPairInv == ASSUME Inv, EndWithPair PROVE Inv'
<1>1. HasItem /\ At(pos, "end") /\ usage_pair_ready /\ Return(0)
  BY DEF EndWithPair, Item
<1>2. calling /\ pos < Size
  BY <1>1 DEF HasItem
<1>3. \E k \in Items : /\ OpenAt(k, pos) /\ HasUse(hid_report.usage, k)
                       /\ HasPage(hid_report.usage_page, k)
  BY <1>1, OnlyFirst DEF FlagsAt
<1>4. ~(pos >= Size)
  BY <1>2, DescriptorType DEF Inv, Types
<1>5. Found(hid_report.usage_page, hid_report.usage, pos)
  BY <1>1, <1>3, <1>4 DEF Found
<1> QED BY <1>1, <1>2, <1>5, ReturnInv

\* The loop ends at the end of the descriptor only.
LEMMA LoopEnds ==
    ASSUME Inv, calling, ~HasItem
    PROVE  descriptor \in Descriptors /\ pos \in Nat /\ pos >= Size /\ ~(pos < Size)
<1>1. descriptor \in Descriptors /\ pos \in Nat /\ Size \in Nat
  BY DescriptorType DEF Inv, Types
<1>2. ~(pos < Size)
  BY <1>1, AlwaysValid DEF HasItem
<1> QED BY <1>1, <1>2

LEMMA EndOfLoopInv == ASSUME Inv, EndOfLoop PROVE Inv'
<1>1. calling /\ descriptor \in Descriptors /\ pos \in Nat /\ pos >= Size /\ ~(pos < Size)
  BY LoopEnds DEF EndOfLoop
<1>2. /\ \A p \in Items : EndBetween(p, Size) <=> EndBetween(p, pos)
      /\ \A p \in Items : CurrentPage(p, Size) <=> CurrentPage(p, pos)
      /\ \A p \in Items : InScope(p, "usage", Size) <=> InScope(p, "usage", pos)
      /\ \A p \in Items : p < pos
  BY <1>1, AtEnd
<1>3. CASE initial
  <2>1. /\ FieldsAt(tmp, collection, pos)
        /\ FlagsAt(collection, usage_page_found, usage_pair_ready,
                   hid_report.usage_page, hid_report.usage, pos)
    BY <1>1, <1>3 DEF Inv, FirstCall
  <2>2. tmp \in [Field -> Datum]
    BY DEF Inv, Types
  <2>3. HasUsage <=> \E u \in Items : InScope(u, "usage", pos)
    BY <1>1, <2>1, <2>2, UsageInScope DEF HasUsage
  <2>4. CASE usage_page_found /\ HasUsage
    <3>1. HasPage(hid_report.usage_page, Size)
      BY <1>2, <2>1, <2>4 DEF FlagsAt, HasPage
    <3>2. \E u \in Items : InScope(u, "usage", Size)
      BY <1>2, <2>3, <2>4
    <3>3. \/ hid_report.usage = Unset
          \/ \E c \in Items : At(c, "collection") /\ ~Closed(c) /\ HasUse(hid_report.usage, c)
      <4>1. CASE usage_pair_ready
        <5>1. PICK c \in Items : OpenAt(c, pos) /\ HasUse(hid_report.usage, c)
          BY <2>1, <4>1 DEF FlagsAt
        <5> QED BY <1>2, <5>1 DEF OpenAt, Closed
      <4>2. CASE ~usage_pair_ready
        BY <2>1, <4>2 DEF FlagsAt
      <4> QED BY <4>1, <4>2
    <3>4. Found(hid_report.usage_page, hid_report.usage, pos)
      BY <1>1, <3>1, <3>2, <3>3 DEF Found
    <3>5. Return(0)
      BY <1>1, <1>3, <2>4 DEF EndOfLoop
    <3> QED BY <1>1, <3>4, <3>5, ReturnInv
  <2>5. CASE ~(usage_page_found /\ HasUsage)
    <3>1. ~TopLevelPair
      BY <1>2, <2>1, <2>3, <2>5 DEF TopLevelPair, PairAt, FlagsAt
    <3>2. ~ClosedPair
      BY <1>2, <2>1 DEF ClosedPair, Closed, FlagsAt
    <3>3. Return(1)
      BY <1>1, <2>5 DEF EndOfLoop
    <3> QED BY <1>1, <3>1, <3>2, <3>3, ReturnInv DEF NoPair
  <2> QED BY <2>4, <2>5
<1>4. CASE ~initial
  <2>1. ret = 1 /\ NoPair
    BY <1>1, <1>4 DEF Inv, Returned
  <2>2. Return(1)
    BY <1>1, <1>4 DEF EndOfLoop
  <2> QED BY <1>1, <2>1, <2>2, ReturnInv
<1> QED BY <1>3, <1>4

LEMMA KeepInv == ASSUME Inv, Keep \/ UNCHANGED vars PROVE Inv'
<1>1. UNCHANGED <<descriptor, pos, local, hid_report, calling, ret>>
  BY DEF Keep, vars
<1>2. outcome' \in {"none", "reported", "malformed"}
  BY DEF Keep, vars, Inv, Types
<1>3. /\ Types' /\ Entries' /\ FirstCall'
      /\ Size' = Size /\ (NoPair' <=> NoPair)
      /\ Found(hid_report.usage_page, hid_report.usage, pos)' <=>
             Found(hid_report.usage_page, hid_report.usage, pos)
  <2>1. calling' \in BOOLEAN /\ ret' \in {-1, 0, 1, NoReturn} /\ (calling' => calling)
    BY <1>1 DEF Inv, Types
  <2> QED BY <1>1, <1>2, <2>1, Stays
<1>4. /\ calling => outcome' = "none"
      /\ outcome' = "reported" => ret = 0
      /\ outcome' # "malformed"
  BY DEF Keep, vars, Inv, Returned
<1>5. initial' = initial
  BY <1>1 DEF local
<1>6. Returned'
  BY <1>1, <1>3, <1>4, <1>5 DEF Inv, Returned
<1> QED BY <1>3, <1>6 DEF Inv

LEMMA InitInv == ASSUME Init PROVE Inv
<1>1. descriptor \in Descriptors
  BY DEF Init
<1>2. Size \in Nat /\ (0 < Size => 0 \in Items)
  <2>1. ItemsAreAt(descriptor.bytes, Items) /\ descriptor.bytes \in Seq(0 .. 255) /\ Size \in Nat
    BY <1>1, DescriptorType
  <2>2. descriptor.bytes = <<>> => Size = 0
    BY DEF Size
  <2> QED BY <2>1, <2>2 DEF ItemsAreAt
<1>3. Types
  <2>1. tmp \in [Field -> Datum] /\ hid_report \in ReportType
    BY <1>1, EmptyType DEF Init
  <2>2. pos \in 0 .. Size + 257 /\ (pos < Size => pos \in Items)
    BY <1>2 DEF Init
  <2> QED BY <1>1, <2>1, <2>2 DEF Init, Types
<1>4. Entries
  BY DEF Init, Entries, NoReport, Kind
<1>5. FirstCall /\ Returned
  BY DEF Init, FirstCall, Returned, NoReturn
<1> QED BY <1>3, <1>4, <1>5 DEF Inv

LEMMA NextInv == ASSUME Inv, [Next]_vars PROVE Inv'
<1>1. ASSUME NEW f \in Field, LocalItem(f) PROVE Inv'
  BY <1>1, LocalItemInv
<1>2. ASSUME NEW k \in Kind, DataItem(k) PROVE Inv'
  BY <1>2, DataItemInv
<1> QED BY <1>1, <1>2, CallInv, UsagePageInv, CollectionInv, EndWithPairInv, EndWithoutPairInv,
           OtherItemInv, EndOfLoopInv, KeepInv DEF Next, Parse

LEMMA Invariant == Spec => []Inv
<1>1. Init => Inv
  BY InitInv
<1>2. Inv /\ [Next]_vars => Inv'
  BY NextInv
<1> QED BY <1>1, <1>2, PTL DEF Spec
-----------------------------------------------------------------------------
(* The theorems.                                                           *)

\* Every field is what an item of the descriptor holds or not set, and the
\* position stays below the end and the longest item, whatever is cut short.
THEOREM TypeCorrect == Spec => []TypeOK
<1>1. ASSUME Inv PROVE TypeOK
  <2>1. Types /\ descriptor \in Descriptors
    BY <1>1 DEF Inv, Types
  <2>2. Size \in Nat /\ descriptor \in [bytes : Seq(0 .. 255), items : SUBSET (0 .. Size - 1)]
        /\ Items \subseteq 0 .. Size - 1
    BY <2>1, DescriptorType
  <2>3. Datum \subseteq Data
    BY <2>1, DatumType
  <2>4. Items \subseteq 0 .. Size
    BY <2>2
  <2>5. tmp \in [Field -> Data]
    BY <2>1, <2>3 DEF Types
  <2>6. {hid_report.usage_page, hid_report.usage} \subseteq Data
    BY <2>1, <2>3 DEF Types, ReportType
  <2>7. ASSUME NEW k \in Kind
        PROVE  hid_report[k] \in Seq([at : 0 .. Size, fields : [Field -> Data]])
    <3>1. hid_report[k] \in Seq(Entry)
      BY <2>1 DEF Types, ReportType, Kind
    <3>2. PICK S : S = [at : 0 .. Size, fields : [Field -> Data]]
      OBVIOUS
    <3>3. Entry \subseteq S
      BY <2>3, <2>4, <3>2 DEF Entry
    <3>4. hid_report[k] \in Seq(S)
      BY <3>1, <3>3
    <3> QED BY <3>2, <3>4
  <2>8. {calling, initial, usage_page_found, usage_pair_ready, collection} \subseteq BOOLEAN
    BY <2>1 DEF Types
  <2> QED BY <2>1, <2>2, <2>5, <2>6, <2>7, <2>8 DEF Types, TypeOK
<1> QED BY <1>1, Invariant, PTL

\* The fields of an Input, Output or Feature are the items since the Main item
\* before it: all of them, the last one of each tag, and none from further back.
THEOREM FieldsAreOfOneItem == Spec => []LocalItemsConsumed
<1>1. ASSUME Inv PROVE LocalItemsConsumed
  <2>1. SUFFICES ASSUME NEW k \in Kind, NEW e \in Range(hid_report[k])
                 PROVE  /\ e.at \in Items /\ At(e.at, k)
                        /\ \A f \in Field, p \in Items :
                              InScope(p, f, e.at) <=> e.fields[f] = ItemData(p)
    BY DEF LocalItemsConsumed
  <2>2. hid_report[k] \in Seq(Entry)
    BY <1>1 DEF Inv, Types, ReportType, Kind
  <2>3. PICK i \in 1 .. Len(hid_report[k]) : e = hid_report[k][i]
    BY <2>2 DEF Range
  <2>4. e \in Entry
    BY <2>2, <2>3, ElementType
  <2>5. EntryOf(k, e)
    BY <1>1, <2>3 DEF Inv, Entries
  <2>6. e.at \in Items
    BY <2>4 DEF Entry
  <2> QED BY <2>5, <2>6 DEF EntryOf, FieldsAt
<1> QED BY <1>1, Invariant, PTL

\* A call returns 0 only for a pair of the descriptor, of which a report that is
\* returned at an End Collection has both halves and one that is returned at the end
\* of the descriptor the Usage Page; and 1 only if there is no such pair.
THEOREM PairsAreExact == Spec => []ReturnTellsOfPair
<1>1. ASSUME Inv PROVE ReturnTellsOfPair
  <2>1. (ret = 0 => Found(hid_report.usage_page, hid_report.usage, pos)) /\ (ret = 1 => NoPair)
    BY <1>1 DEF Inv, Returned
  <2>2. ASSUME ret = 0, pos < Size
        PROVE  /\ At(pos, "end")
               /\ \E c \in Items : OpenAt(c, pos) /\ HasUse(hid_report.usage, c)
                                                  /\ HasPage(hid_report.usage_page, c)
    BY <2>1, <2>2 DEF Found
  <2>3. ASSUME ret = 0, pos >= Size
        PROVE  /\ \E u \in Items : InScope(u, "usage", Size)
               /\ HasPage(hid_report.usage_page, Size)
               /\ \/ hid_report.usage = Unset
                  \/ \E c \in Items : /\ At(c, "collection") /\ ~Closed(c)
                                      /\ HasUse(hid_report.usage, c)
    BY <2>1, <2>3 DEF Found
  <2>4. ASSUME ret = 0, pos < Size
        PROVE  \E c \in Items :
                  /\ c < pos /\ At(c, "collection") /\ ~EndBetween(c, pos)
                  /\ \E u \in Items : hid_report.usage = ItemData(u) /\ InScope(u, "usage", c)
                  /\ \E p \in Items : hid_report.usage_page = ItemData(p) /\ CurrentPage(p, c)
    BY <2>2, <2>4 DEF OpenAt, HasUse, HasPage
  <2>5. ASSUME ret = 0, pos >= Size
        PROVE  /\ \E p \in Items : hid_report.usage_page = ItemData(p) /\ CurrentPage(p, Size)
               /\ \/ hid_report.usage = Unset
                  \/ \E c \in Items :
                        /\ At(c, "collection") /\ ~Closed(c)
                        /\ \E u \in Items : /\ hid_report.usage = ItemData(u)
                                            /\ InScope(u, "usage", c)
    BY <2>3, <2>5 DEF HasUse, HasPage
  <2> QED BY <2>1, <2>2, <2>3, <2>4, <2>5 DEF ReturnTellsOfPair, NoPair
<1> QED BY <1>1, Invariant, PTL

\* init_reports leaves its loop only for a descriptor with a pair, and then with a
\* report: without one, "finished processing" is never an end of the loop.
THEOREM OnlyPairsEnd ==
    Spec => [](outcome # "none" => outcome = "reported" /\ (ClosedPair \/ TopLevelPair))
<1>1. ASSUME Inv PROVE outcome # "none" => outcome = "reported" /\ (ClosedPair \/ TopLevelPair)
  <2>1. SUFFICES ASSUME outcome # "none"
                 PROVE  outcome = "reported" /\ (ClosedPair \/ TopLevelPair)
    OBVIOUS
  <2>2. outcome = "reported" /\ Found(hid_report.usage_page, hid_report.usage, pos)
    BY <1>1, <2>1 DEF Inv, Types, Returned
  <2>3. descriptor \in Descriptors /\ pos \in Nat /\ (pos < Size => pos \in Items)
        /\ Size \in Nat /\ Items \subseteq 0 .. Size - 1
    BY <1>1, DescriptorType DEF Inv, Types
  <2>4. CASE pos < Size
    <3>1. At(pos, "end") /\ pos \in Items
      BY <2>2, <2>3, <2>4 DEF Found
    <3>2. PICK c \in Items : OpenAt(c, pos) /\ HasUse(hid_report.usage, c)
                                            /\ HasPage(hid_report.usage_page, c)
      BY <2>2, <2>4 DEF Found
    <3>3. Closed(c)
      BY <2>4, <3>1, <3>2 DEF Closed, EndBetween, Between, OpenAt
    <3>4. PairAt(c) /\ At(c, "collection")
      BY <3>2 DEF PairAt, OpenAt, HasUse, HasPage
    <3> QED BY <2>2, <3>3, <3>4 DEF ClosedPair
  <2>5. CASE pos >= Size
    BY <2>2, <2>5 DEF Found, HasPage, TopLevelPair, PairAt
  <2> QED BY <2>3, <2>4, <2>5
<1> QED BY <1>1, Invariant, PTL

\* -1 is never returned, for whatever bytes: the size code of a short item has two
\* bits, and a long item without its length byte is taken for a short one.
THEOREM NothingIsMalformed ==
    Spec => []((calling /\ pos < Size => Valid(pos)) /\ ret # -1 /\ outcome # "malformed")
<1>1. ASSUME Inv
      PROVE  (calling /\ pos < Size => Valid(pos)) /\ ret # -1 /\ outcome # "malformed"
  <2>1. descriptor \in Descriptors /\ pos \in Nat
    BY <1>1, DescriptorType DEF Inv, Types
  <2> QED BY <1>1, <2>1, AlwaysValid DEF Inv, Returned
<1> QED BY <1>1, Invariant, PTL

\* A step of a call returns or moves on by the size of an item, which is never 0,
\* within the descriptor: a call ends after as many steps as there are bytes.
THEOREM CallsAdvance ==
    Spec => [][calling => ~calling' \/ (pos < Size /\ pos' >= pos + 1)]_vars
<1>1. ASSUME Inv, [Next]_vars
      PROVE  [calling => ~calling' \/ (pos < Size /\ pos' >= pos + 1)]_vars
  <2>1. ASSUME HasItem, Skip PROVE pos < Size /\ pos' >= pos + 1
    BY <1>1, <2>1, SkipItem DEF Inv
  <2>2. Call => ~calling
    BY DEF Call
  <2>3. Parse => (HasItem /\ Skip) \/ calling' = FALSE
    BY DEF Parse, Item, UsagePage, LocalItem, Collection, DataItem, EndWithPair, EndWithoutPair,
           OtherItem, EndOfLoop, Return
  <2>4. Keep => ~calling
    <3>1. Inv => (calling => outcome = "none" /\ ret \notin {0, -1})
      BY DEF Inv, Returned
    <3> QED BY <1>1, <3>1 DEF Keep
  <2> QED BY <1>1, <2>1, <2>2, <2>3, <2>4 DEF Next
<1> QED BY <1>1, Invariant, PTL DEF Spec
=============================================================================
