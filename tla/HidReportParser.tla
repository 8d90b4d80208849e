--------------------------- MODULE HidReportParser ---------------------------
(***************************************************************************)
(* LinuxHIDDevice::init_reports and the parser of report descriptors it    *)
(* calls (get_next_hid_usage), byte by byte.  The parser copies the data   *)
(* of an item and never looks at it, so the data of an item is its place   *)
(* in the descriptor: a field of the result tells which item it is from.   *)
(***************************************************************************)
EXTENDS Integers, Sequences, Functions

CONSTANT Descriptors  \* the report descriptors a device may have

Field == {"usage", "minimum", "maximum", "size", "count"}
Kind == {"input", "output", "feature"}
Main == Kind \cup {"collection", "end"}

\* The items the parser knows: their prefix without the two bits of the size.
KeyCmd == [usage_page |-> 4, usage |-> 8, minimum |-> 20, maximum |-> 36,
           size |-> 116, input |-> 128, output |-> 144, count |-> 148,
           collection |-> 160, feature |-> 176, end |-> 192]

\* The length of the item at position p (6.2.2.2 and 6.2.2.3 of the HID
\* specification, which the comments of get_hid_item_size cite).
ItemLength(bytes, p) ==
    IF bytes[p + 1] >= 240
    THEN 3 + (IF p + 1 < Len(bytes) THEN bytes[p + 2] ELSE 0)
    ELSE IF bytes[p + 1] % 4 = 3 THEN 5 ELSE 1 + (bytes[p + 1] % 4)

\* The positions of the items: they begin where the one before them ends.
ItemsAreAt(bytes, items) ==
    /\ items \subseteq 0 .. Len(bytes) - 1
    /\ bytes # <<>> => 0 \in items
    /\ \A p \in items :
          LET next == p + ItemLength(bytes, p)
          IN  /\ next < Len(bytes) => next \in items
              /\ \A q \in items : q <= p \/ next <= q

ASSUME DescriptorsAssumption ==
    /\ Descriptors \subseteq [bytes : Seq(0 .. 255), items : SUBSET Nat]
    /\ \A d \in Descriptors : ItemsAreAt(d.bytes, d.items)

VARIABLES
    descriptor,        \* its bytes, and where its items are (for the properties)
    pos,               \* the position of the next item
    calling,           \* get_next_hid_usage is being executed
    initial,           \* this call began at the start of the descriptor
    usage_page_found, usage_pair_ready, collection,  \* its local flags
    tmp,               \* its HIDCollection under construction
    hid_report,        \* the HIDReport it fills
    ret,               \* what the last call has returned
    reports,           \* what init_reports has collected
    outcome            \* how init_reports ended

local == <<initial, usage_page_found, usage_pair_ready, collection, tmp>>
vars == <<descriptor, pos, calling, local, hid_report, ret, reports, outcome>>

NoReturn == 2

Size == Len(descriptor.bytes)

\* What a field holds: the data of the item in that place (counted from 1), if
\* it could be read.  A field that is not set is 0, and has_usage and so on of it
\* are false.
Data == [item : 0 .. Size, read : BOOLEAN]
Unset == [item |-> 0, read |-> FALSE]
Empty == [f \in Field |-> Unset]
NoReport == [usage_page |-> Unset, usage |-> Unset,
             input |-> <<>>, output |-> <<>>, feature |-> <<>>]

TypeOK ==
    /\ descriptor \in [bytes : Seq(0 .. 255), items : SUBSET (0 .. Size - 1)]
    /\ pos \in 0 .. Size + 257
    /\ {calling, initial, usage_page_found, usage_pair_ready, collection} \subseteq BOOLEAN
    /\ tmp \in [Field -> Data]
    /\ {hid_report.usage_page, hid_report.usage} \subseteq Data
    /\ \A k \in Kind : hid_report[k] \in Seq([at : 0 .. Size, fields : [Field -> Data]])
    /\ ret \in {-1, 0, 1, NoReturn}
    /\ outcome \in {"none", "reported", "malformed"}

Init ==
    /\ descriptor \in Descriptors
    /\ pos = 0
    /\ calling = FALSE
    /\ initial = FALSE
    /\ usage_page_found = FALSE
    /\ usage_pair_ready = FALSE
    /\ collection = FALSE
    /\ tmp = Empty
    /\ hid_report = NoReport
    /\ ret = NoReturn
    /\ reports = <<>>
    /\ outcome = "none"
-----------------------------------------------------------------------------
(* get_hid_item_size and get_hid_report_bytes.                             *)

Key(p) == descriptor.bytes[p + 1]
SizeCode(p) == Key(p) % 4

\* A long item that lacks its length byte falls through to the short items.
IsLong(p) == Key(p) >= 240 /\ p + 1 < Size
Valid(p) == IsLong(p) \/ SizeCode(p) \in 0 .. 3

\* Mutant of KeySize: it returns for the long item without its length byte.
KeySizeWithoutFallThrough(p) == IF Key(p) >= 240 THEN (IF IsLong(p) THEN 3 ELSE 0) ELSE 1

KeySize(p) == IF IsLong(p) THEN 3 ELSE 1
DataLen(p) ==
    IF IsLong(p) THEN descriptor.bytes[p + 2]
    ELSE IF SizeCode(p) = 3 THEN 4 ELSE SizeCode(p)

\* Mutant of ItemData: the data is read behind the end of the descriptor.
ItemDataUnchecked(p) == [item |-> p + 1 + DataLen(p), read |-> DataLen(p) > 0]

\* An item without data, or with data that is cut short, reads as 0.
ItemData(p) ==
    [item |-> p + 1, read |-> DataLen(p) > 0 /\ p + DataLen(p) < Size]

At(p, tag) == Key(p) - SizeCode(p) = KeyCmd[tag]
-----------------------------------------------------------------------------
(* init_reports and get_next_hid_usage.                                    *)

\* One iteration of the loop in init_reports.
Call ==
    /\ ~calling
    /\ outcome = "none"
    /\ ret # 0 /\ ret # -1
    /\ calling' = TRUE
    /\ initial' = (pos = 0)
    /\ usage_page_found' = FALSE
    /\ usage_pair_ready' = FALSE
    /\ collection' = FALSE
    /\ tmp' = Empty
    /\ hid_report' = NoReport
    /\ UNCHANGED <<descriptor, pos, ret, reports, outcome>>

Return(value) ==
    /\ calling' = FALSE
    /\ ret' = value
    /\ UNCHANGED <<descriptor, pos, local, hid_report, reports, outcome>>

\* The loop goes on with the item at pos ...
HasItem == calling /\ pos < Size /\ Valid(pos)

Item(tag) == HasItem /\ At(pos, tag)

\* ... and moves on behind it.
Skip ==
    /\ pos' = pos + DataLen(pos) + KeySize(pos)
    /\ UNCHANGED <<descriptor, calling, initial, ret, reports, outcome>>

\* Mutant of UsagePage: a usage page inside of a collection counts as well.
UsagePageAnywhere ==
    /\ Item("usage_page")
    /\ hid_report' = [hid_report EXCEPT !.usage_page = ItemData(pos)]
    /\ usage_page_found' = TRUE
    /\ UNCHANGED <<usage_pair_ready, collection, tmp>>
    /\ Skip

UsagePage ==
    /\ Item("usage_page")
    /\ IF collection
       THEN UNCHANGED <<hid_report, usage_page_found>>
       ELSE /\ hid_report' = [hid_report EXCEPT !.usage_page = ItemData(pos)]
            /\ usage_page_found' = TRUE
    /\ UNCHANGED <<usage_pair_ready, collection, tmp>>
    /\ Skip

\* A Usage counts anywhere, the other fields only inside of a collection.
LocalItem(f) ==
    /\ Item(f)
    /\ tmp' = IF f = "usage" \/ collection
              THEN [tmp EXCEPT ![f] = ItemData(pos)] ELSE tmp
    /\ UNCHANGED <<hid_report, usage_page_found, usage_pair_ready, collection>>
    /\ Skip

HasUsage == tmp["usage"] # Unset

\* Every Main item consumes the local items before it.
Collection ==
    /\ Item("collection")
    /\ collection' = TRUE
    /\ IF usage_page_found /\ HasUsage
       THEN /\ hid_report' = [hid_report EXCEPT !.usage = tmp["usage"]]
            /\ usage_pair_ready' = TRUE
       ELSE UNCHANGED <<hid_report, usage_pair_ready>>
    /\ tmp' = Empty
    /\ UNCHANGED usage_page_found
    /\ Skip

\* Mutant of DataItem: the local items stay for the next Main item.
DataItemKeepsLocals(k) ==
    /\ Item(k)
    /\ hid_report' = IF collection
                     THEN [hid_report EXCEPT ![k] = Append(@, [at |-> pos, fields |-> tmp])] ELSE hid_report
    /\ UNCHANGED <<tmp, usage_page_found, usage_pair_ready, collection>>
    /\ Skip

\* A report copies the local items; at is where its item is, for the properties.
DataItem(k) ==
    /\ Item(k)
    /\ hid_report' = IF collection
                     THEN [hid_report EXCEPT ![k] = Append(@, [at |-> pos, fields |-> tmp])] ELSE hid_report
    /\ tmp' = Empty
    /\ UNCHANGED <<usage_page_found, usage_pair_ready, collection>>
    /\ Skip

\* The pair is returned at the end of the collection, which is not skipped.
EndWithPair ==
    /\ Item("end")
    /\ collection /\ usage_pair_ready
    /\ Return(0)

EndWithoutPair ==
    /\ Item("end")
    /\ ~(collection /\ usage_pair_ready)
    /\ collection' = FALSE
    /\ usage_pair_ready' = FALSE
    /\ tmp' = Empty
    /\ UNCHANGED <<hid_report, usage_page_found>>
    /\ Skip

OtherItem ==
    /\ HasItem
    /\ \A tag \in DOMAIN KeyCmd : ~At(pos, tag)
    /\ UNCHANGED <<hid_report, tmp, usage_page_found, usage_pair_ready, collection>>
    /\ Skip

\* Mutant of EndOfLoop: only collections have a pair.
EndOfLoopWithoutPair ==
    /\ calling
    /\ ~HasItem
    /\ Return(IF pos < Size THEN -1 ELSE 1)

\* The loop ends with an item whose size is invalid, or with the descriptor.  A
\* descriptor without any collection may still be a pair.
EndOfLoop ==
    /\ calling
    /\ ~HasItem
    /\ Return(IF pos < Size THEN -1
              ELSE IF initial /\ usage_page_found /\ HasUsage THEN 0 ELSE 1)

\* init_reports keeps the report of a call that returned 0, and then leaves its
\* loop; it goes on with another call when 1 was returned.
Keep ==
    /\ ~calling
    /\ outcome = "none"
    /\ ret \in {0, -1}
    /\ reports' = IF ret = 0 THEN Append(reports, hid_report) ELSE reports
    /\ outcome' = IF ret = 0 THEN "reported" ELSE "malformed"
    /\ UNCHANGED <<descriptor, pos, calling, local, hid_report, ret>>

Parse ==
    \/ UsagePage
    \/ \E f \in Field : LocalItem(f)
    \/ Collection
    \/ \E k \in Kind : DataItem(k)
    \/ EndWithPair
    \/ EndWithoutPair
    \/ OtherItem
    \/ EndOfLoop

Next == Call \/ Parse \/ Keep

Spec == Init /\ [][Next]_vars /\ WF_vars(Next)
-----------------------------------------------------------------------------
(* Properties.  What the parser returns is compared with the descriptor.   *)

\* Items of the descriptor, in the order in which they stand in it.
Items == descriptor.items
Between(p, q) == {k \in Items : p < k /\ k < q}
MainBetween(p, q) == \E k \in Between(p, q), tag \in Main : At(k, tag)
EndBetween(p, q) == \E k \in Between(p, q) : At(k, "end")

\* The item at p is the last one of its tag among those since the Main item
\* before q: it is in scope at q.
InScope(p, tag, q) ==
    /\ p < q /\ At(p, tag) /\ ~MainBetween(p, q)
    /\ \A k \in Between(p, q) : ~At(k, tag)

\* The fields of an Input, Output or Feature are the local items since the Main
\* item before it, each of them and no older one (hid-report-desc.cc lines 137
\* and 251-260).
LocalItemsConsumed ==
    \A k \in Kind : \A e \in Range(hid_report[k]) :
        /\ e.at \in Items /\ At(e.at, k)
        /\ \A f \in Field, p \in Items :
              InScope(p, f, e.at) <=> e.fields[f] = ItemData(p)

\* Lines 134-137 return "the current Usage Page/Usage pair whenever a new Collection
\* is found and a Usage Local Item is currently in scope".  The code departs from
\* that in three ways, each of which has a name here.  A
\* Usage Page inside of a collection is not the current one (line 173) ...
InCollection(p) ==
    \E c \in Items : c < p /\ At(c, "collection") /\ ~EndBetween(c, p)

CurrentPage(p, q) ==
    /\ p < q /\ At(p, "usage_page") /\ ~InCollection(p)
    /\ \A k \in Between(p, q) : At(k, "usage_page") => InCollection(k)

\* ... the pair is returned at the next End Collection, and not at all when
\* there is none (line 242) ...
Closed(c) == EndBetween(c, Size)

\* ... and at the end of the descriptor the Usage is looked for, but not stored
\* (line 268, against lines 134 and 266): see ReturnTellsOfPair.
PairAt(q) ==
    /\ \E u \in Items : InScope(u, "usage", q)
    /\ \E p \in Items : CurrentPage(p, q)

ClosedPair == \E c \in Items : At(c, "collection") /\ Closed(c) /\ PairAt(c)
TopLevelPair == PairAt(Size)

\* A call that returns 0 has found a pair: at an End Collection, the pair of a
\* Collection that it is the first to close, both of its halves; at the end of the
\* descriptor, the current Usage Page, where the descriptor also has a Usage that
\* no Main item has consumed.  With that Usage the report is not filled: what it
\* has is nothing, or the Usage of a Collection that is never closed.  A call that
\* returns 1 has left no pair behind, but for the departures named above.
ReturnTellsOfPair ==
    /\ ret = 0 /\ pos < Size =>
           /\ At(pos, "end")
           /\ \E c \in Items :
                 /\ c < pos /\ At(c, "collection") /\ ~EndBetween(c, pos)
                 /\ \E u \in Items : hid_report.usage = ItemData(u) /\ InScope(u, "usage", c)
                 /\ \E p \in Items : hid_report.usage_page = ItemData(p) /\ CurrentPage(p, c)
    /\ ret = 0 /\ pos >= Size =>
           /\ \E u \in Items : InScope(u, "usage", Size)
           /\ \E p \in Items : hid_report.usage_page = ItemData(p) /\ CurrentPage(p, Size)
           /\ \/ hid_report.usage = Unset
              \/ \E c \in Items :
                    /\ At(c, "collection") /\ ~Closed(c)
                    /\ \E u \in Items : hid_report.usage = ItemData(u) /\ InScope(u, "usage", c)
    /\ ret = 1 => ~ClosedPair /\ ~TopLevelPair

\* Every call returns, whatever the sizes of the items: the position moves on
\* behind each of them, also behind one that is cut short (lines 54-104 and 263).
CallReturns == calling ~> ~calling

\* A descriptor with a pair is reported, and the report has both halves of the
\* pair of a collection.  Of a pair at the top level it has the Usage Page only,
\* although lines 134, 146 and 266-267 speak of both (line 268 does not store the
\* Usage).
PairIsReported ==
    /\ ClosedPair ~> /\ outcome = "reported"
                     /\ reports[1].usage_page # Unset /\ reports[1].usage # Unset
    /\ TopLevelPair ~> outcome = "reported" /\ reports[1].usage_page # Unset

\* Lines 142-147: the function "can be called repeatedly until it returns
\* non-0", and returns 1 when it has "finished processing descriptor".
FinishedProcessing == <>(outcome # "none")

\* Lines 72 and 148: a long item that lacks its length byte is a "malformed
\* report", for which -1 is returned.
TruncatedIsMalformed ==
    ~calling /\ Size - 1 \in Items /\ Key(Size - 1) >= 240 /\ pos >= Size => ret = -1
=============================================================================
