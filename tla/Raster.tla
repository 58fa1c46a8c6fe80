------------------------------- MODULE Raster -------------------------------
(***************************************************************************)
(* The two walkers of a PWG or URF raster document: parseRasterInfo        *)
(* (src/documents/raster-info.ts) skips the compressed lines to count the  *)
(* pages a job reports as its impressions, decodeRasterPages               *)
(* (src/documents/raster-decode.ts) decodes them to the pages it prints.   *)
(* Both have to find the same page headers.                                *)
(*                                                                         *)
(* A document grows as a client encodes it, run by run.  A page header   *)
(* is HeaderLen elements, the first of which stands for all of its fields: *)
(* 255 + k for the k-th of Headers; every other element is a byte.  A      *)
(* walker that has lost the page boundary reads a header made of whatever  *)
(* is there: Garbage.                                                      *)
(*                                                                         *)
(* A walker is three nested loops; each is a function from the state at    *)
(* the head of the loop to the next, iterated until it stays the same.     *)
(*                                                                         *)
(* What colors become as pixels is left out: a decoded row is the sequence *)
(* of its color values, the bytes of one pixel (or of eight 1-bit pixels). *)
(* The page it belongs to is a buffer of its full height, all of it 0 to   *)
(* begin with; a row of it to which nothing was decoded is Blank.          *)
(***************************************************************************)
EXTENDS Integers, Sequences, SequencesExt, Lists

CONSTANTS
  Headers,    \* the page headers clients send, a sequence
  Bytes,      \* the bytes color values are made of
  Repeats,    \* how often a line is repeated
  HeaderLen,  \* the length of a page header
  MaxPages    \* bound on the pages of a document

PageHeaders == [width: Nat, height: Nat, bitsPerPixel: Nat, bitsPerColor: Nat,
                bytesPerLine: Nat]

\* A header is consistent: its page has pixels of a depth both walkers know,
\* and a line as many bytes as its pixels take.
WellFormed(h) ==
  /\ h.width > 0 /\ h.height > 0
  /\ h.bitsPerPixel \in {1, 8, 16, 24, 32, 48}
  /\ h.bitsPerPixel = 1 => h.bitsPerColor = 1
  /\ h.bitsPerPixel # 1 => 8 * h.bytesPerLine = h.width * h.bitsPerPixel

ASSUME RasterAssumption ==
  /\ HeaderLen \in Nat \ {0} /\ MaxPages \in Nat
  /\ Repeats \subseteq 1..256 /\ Bytes \subseteq 0..255
  /\ Headers \in Seq(PageHeaders)
  /\ \A k \in DOMAIN Headers : WellFormed(Headers[k])

VARIABLES
  format,    \* "PWG", or "URF" whose file header declares MaxPages pages
  encoding,  \* whose control bytes the client writes: "decode" or "info"
  doc,       \* the document after its file header
  pages,     \* the rows the client has encoded so far
  line       \* the line it is encoding, or NoLine

vars == <<format, encoding, doc, pages, line>>

(***************************************************************************)
(* Page geometry: the bytes of a color value and the pixels it stands for. *)
(***************************************************************************)
Garbage == [width |-> 0, height |-> 0, bitsPerPixel |-> 0, bitsPerColor |-> 0,
            bytesPerLine |-> 0]

CeilDiv(a, b) == (a + b - 1) \div b
Rounded(a, b) == (2 * a + b) \div (2 * b)

\* Fault: a 1-bit page is not packed.
FaultyPwgGeometry(h) ==
  LET byLine == IF h.width > 0 THEN Rounded(h.bytesPerLine, h.width) ELSE 0
  IN  [groupBytes |-> IF byLine > 0 THEN byLine ELSE 1, pixelsPerGroup |-> 1]

\* PWG: the two walkers have the same rules.
PwgGeometry(h) ==
  IF h.bitsPerColor = 1 /\ h.bitsPerPixel <= 1
  THEN [groupBytes |-> 1, pixelsPerGroup |-> 8]
  ELSE LET byLine == IF h.width > 0 /\ h.bytesPerLine > 0
                     THEN Rounded(h.bytesPerLine, h.width) ELSE 0
           byPixel == CeilDiv(h.bitsPerPixel, 8)
       IN  [groupBytes |-> IF byLine > 0 THEN byLine
                           ELSE IF byPixel > 0 THEN byPixel ELSE 1,
            pixelsPerGroup |-> 1]

\* URF: an absent depth counts as 8.  raster-info.ts rounds the depth up ...
UrfInfoGeometry(h) ==
  LET bpp == IF h.bitsPerPixel = 0 THEN 8 ELSE h.bitsPerPixel
  IN  IF bpp <= 1 THEN [groupBytes |-> 1, pixelsPerGroup |-> 8]
      ELSE [groupBytes |-> CeilDiv(bpp, 8), pixelsPerGroup |-> 1]

\* ... and raster-decode.ts takes the greatest depth it knows below it.
UrfDecodeGeometry(h) ==
  LET bpp == IF h.bitsPerPixel = 0 THEN 8 ELSE h.bitsPerPixel
      known == {<<8, 1>>, <<16, 2>>, <<24, 3>>, <<32, 4>>, <<48, 6>>}
      fits == {k \in known : k[1] <= bpp}
  IN  IF bpp <= 1 THEN [groupBytes |-> 1, pixelsPerGroup |-> 8]
      ELSE [groupBytes |-> Max({k[2] : k \in fits} \cup {1}), pixelsPerGroup |-> 1]

InfoGeometry(fmt, h)   == IF fmt = "PWG" THEN PwgGeometry(h) ELSE UrfInfoGeometry(h)
DecodeGeometry(fmt, h) == IF fmt = "PWG" THEN PwgGeometry(h) ELSE UrfDecodeGeometry(h)

GroupsPerRow(h, g) == CeilDiv(h.width, g.pixelsPerGroup)

(***************************************************************************)
(* raster-info.ts.  "next" is the position of the next element to read;    *)
(* Short stands for undefined, the data ran out.  "left" are the color     *)
(* values missing in a row, or the lines missing on a page.                *)
(***************************************************************************)
Short == 0

AsByte(d, p) == IF d[p] <= 255 THEN d[p] ELSE 0

SkipStates == [next : Nat, left : Int]

\* A control byte up to 127 repeats one color value, any other precedes as
\* many literal ones.
SkipRun(d, g) == [s \in SkipStates |->
  IF s.next = Short \/ s.left <= 0 THEN s
  ELSE IF s.next > Len(d) THEN [s EXCEPT !.next = Short]
  ELSE LET control == AsByte(d, s.next)
           run     == IF control <= 127 THEN control + 1 ELSE 257 - control
           values  == IF control <= 127 THEN 1 ELSE run
           after   == s.next + 1 + g.groupBytes * values
       IN  [next |-> IF after > Len(d) + 1 THEN Short ELSE after, left |-> s.left - run]]

SkipRow(d, p, groups, g) == Iterate(SkipRun(d, g), [next |-> p, left |-> groups], groups).next

SkipLine(d, groups, g) == [s \in SkipStates |->
  IF s.next = Short \/ s.left <= 0 THEN s
  ELSE IF s.next > Len(d) THEN [s EXCEPT !.next = Short]
  ELSE [next |-> SkipRow(d, s.next + 1, groups, g),
        left |-> s.left - (AsByte(d, s.next) + 1)]]

SkipLines(d, p, lines, groups, g) ==
  Iterate(SkipLine(d, groups, g), [next |-> p, left |-> lines], lines).next

\* Fault: the last line of a page is not skipped.
FaultySkipRasterData(fmt, d, p, h) ==
  LET g == InfoGeometry(fmt, h) IN
  IF h.width = 0 \/ h.height = 0 THEN Short
  ELSE SkipLines(d, p, h.height - 1, GroupsPerRow(h, g), g)

SkipRasterData(fmt, d, p, h) ==
  LET g == InfoGeometry(fmt, h) IN
  IF h.width = 0 \/ h.height = 0 THEN Short
  ELSE SkipLines(d, p, h.height, GroupsPerRow(h, g), g)

HeaderAt(d, p) == IF d[p] > 255 THEN Headers[d[p] - 255] ELSE Garbage

\* The walk of both: a URF document has no more pages than it declares.
MorePages(fmt, d, p, count) ==
  p + HeaderLen <= Len(d) + 1 /\ (fmt = "URF" => count < MaxPages)

CountPage(fmt, d) == [s \in [next : Nat, pages : Seq(PageHeaders)] |->
  IF s.next = Short \/ ~ MorePages(fmt, d, s.next, Len(s.pages)) THEN s
  ELSE LET h == HeaderAt(d, s.next)
       IN  [next |-> SkipRasterData(fmt, d, s.next + HeaderLen, h), pages |-> Append(s.pages, h)]]

ParseRasterInfo(fmt, d) ==
  Iterate(CountPage(fmt, d), [next |-> 1, pages |-> <<>>], Len(d)).pages

(***************************************************************************)
(* raster-decode.ts.  The same, but a control byte up to 127 precedes      *)
(* literal color values and any other repeats one, and a run is clamped to *)
(* the row.  A row goes to the page once it is whole: one cut short leaves *)
(* nothing there, the rows before it are kept and those after it are 0.    *)
(***************************************************************************)
Colored == Seq(Nat)    \* the bytes of a color value
Rows == Seq(Seq(Colored))

\* Fault: bytes behind the end of the data are read as zeros.
FaultyDecodeRun(d, groups, size) == [s \in [next : Nat, row : Seq(Colored)] |->
  IF s.next = Short \/ Len(s.row) >= groups THEN s
  ELSE IF s.next > Len(d) THEN [s EXCEPT !.next = Short]
  ELSE LET control  == AsByte(d, s.next)
           literal  == control <= 127
           run      == IF literal THEN control + 1 ELSE 257 - control
           wanted   == IF run <= groups - Len(s.row) THEN run ELSE groups - Len(s.row)
           byte(p)  == IF p <= Len(d) THEN AsByte(d, p) ELSE 0
           value(k) == LET from == s.next + 1 + (IF literal THEN size * (k - 1) ELSE 0)
                       IN  [b \in 1..size |-> byte(from + b - 1)]
       IN  [next |-> s.next + 1 + size * (IF literal THEN wanted ELSE 1),
            row |-> s.row \o [k \in 1..wanted |-> value(k)]]]

DecodeRun(d, groups, size) == [s \in [next : Nat, row : Seq(Colored)] |->
  IF s.next = Short \/ Len(s.row) >= groups THEN s
  ELSE IF s.next > Len(d) THEN [s EXCEPT !.next = Short]
  ELSE LET control  == AsByte(d, s.next)
           literal  == control <= 127
           run      == IF literal THEN control + 1 ELSE 257 - control
           wanted   == IF run <= groups - Len(s.row) THEN run ELSE groups - Len(s.row)
           after    == s.next + 1 + size * (IF literal THEN wanted ELSE 1)
           value(k) == LET from == s.next + 1 + (IF literal THEN size * (k - 1) ELSE 0)
                       IN  [b \in 1..size |-> AsByte(d, from + b - 1)]
       IN  IF after > Len(d) + 1 THEN [s EXCEPT !.next = Short]
           ELSE [next |-> after, row |-> s.row \o [k \in 1..wanted |-> value(k)]]]

DecodeRow(d, p, groups, size) ==
  Iterate(DecodeRun(d, groups, size), [next |-> p, row |-> <<>>], groups)

DecodeLine(d, height, groups, size) == [s \in [next : Nat, rows : Rows] |->
  IF s.next = Short \/ Len(s.rows) >= height THEN s
  ELSE IF s.next > Len(d) THEN [s EXCEPT !.next = Short]
  ELSE LET decoded == DecodeRow(d, s.next + 1, groups, size)
           repeat  == AsByte(d, s.next) + 1
           left    == height - Len(s.rows)
           copies  == [k \in 1..(IF repeat <= left THEN repeat ELSE left) |-> decoded.row]
       IN  [next |-> decoded.next,
            rows |-> IF decoded.next = Short THEN s.rows ELSE s.rows \o copies]]

\* A row of zeros: no color value of the document is in it.
Blank == <<>>

\* The buffer of a page of that height, with these rows written to it.
Padded(rows, height) == [k \in 1..height |-> IF k <= Len(rows) THEN rows[k] ELSE Blank]

DecodePage(fmt, d, p, h) ==
  LET g == DecodeGeometry(fmt, h)
      written == Iterate(DecodeLine(d, h.height, GroupsPerRow(h, g), g.groupBytes),
                         [next |-> p, rows |-> <<>>], h.height)
  IN  IF h.width = 0 \/ h.height = 0 THEN [next |-> Short, rows |-> <<>>]
      ELSE [next |-> written.next, rows |-> Padded(written.rows, h.height)]

Pages == Seq([header : PageHeaders, rows : Rows])

DecodeNextPage(fmt, d) == [s \in [next : Nat, pages : Pages] |->
  IF s.next = Short \/ ~ MorePages(fmt, d, s.next, Len(s.pages)) THEN s
  ELSE LET h    == HeaderAt(d, s.next)
           page == DecodePage(fmt, d, s.next + HeaderLen, h)
       IN  [next |-> page.next, pages |-> Append(s.pages, [header |-> h, rows |-> page.rows])]]

DecodeRasterPages(fmt, d) ==
  Iterate(DecodeNextPage(fmt, d), [next |-> 1, pages |-> <<>>], Len(d)).pages

(***************************************************************************)
(* The client: it encodes pages of its choice, a line at a time, each line *)
(* as runs of its choice.  The tests of the two walkers write the control  *)
(* bytes the way the walker they test reads them; "encoding" says which.   *)
(***************************************************************************)
Colors(h) ==
  {[b \in 1..CeilDiv(h.bitsPerPixel, 8) |-> byte] : byte \in Bytes}

\* A row of 1-bit pixels is packed eight to the byte, padded at its end.
ColorsPerRow(h) == IF h.bitsPerPixel = 1 THEN CeilDiv(h.width, 8) ELSE h.width

MaxRun == 128  \* the longest run both kinds of control byte can tell

\* The control byte of a run of n; a single value is 0 in both encodings.
RepeatControl(n)  == IF encoding = "decode" /\ n > 1 THEN 257 - n ELSE n - 1
LiteralControl(n) == IF encoding = "info" /\ n > 1 THEN 257 - n ELSE n - 1

\* One run: a repetition where all its values are equal, or literal.
RunBytes(values) ==
  LET n == Len(values)
      literal == <<LiteralControl(n)>> \o FlattenSeq(values)
      repeat  == <<RepeatControl(n)>> \o values[1]
  IN  IF \A k \in 1..n : values[k] = values[1] THEN {literal, repeat} ELSE {literal}

NoLine == [repeat |-> 0, row |-> <<>>]

Unfinished ==
  pages # <<>> /\ Len(Last(pages).rows) < Last(pages).header.height

StartPage(k) ==
  /\ ~ Unfinished
  /\ Len(pages) < MaxPages
  /\ doc' = doc \o [n \in 1..HeaderLen |-> IF n = 1 THEN 255 + k ELSE 0]
  /\ pages' = Append(pages, [header |-> Headers[k], rows |-> <<>>])
  /\ UNCHANGED <<format, encoding, line>>

StartLine(repeat) ==
  /\ Unfinished /\ line = NoLine
  /\ Len(Last(pages).rows) + repeat <= Last(pages).header.height
  /\ doc' = Append(doc, repeat - 1)
  /\ line' = [repeat |-> repeat, row |-> <<>>]
  /\ UNCHANGED <<format, encoding, pages>>

\* The row is encoded once, however often the line is repeated.
EncodeRun(values) ==
  LET row   == line.row \o values
      whole == Len(row) = ColorsPerRow(Last(pages).header)
  IN  /\ \E bytes \in RunBytes(values) : doc' = doc \o bytes
      /\ line' = IF whole THEN NoLine ELSE [line EXCEPT !.row = row]
      /\ pages' = IF whole
                  THEN [pages EXCEPT ![Len(pages)].rows = @ \o [k \in 1..line.repeat |-> row]]
                  ELSE pages
      /\ UNCHANGED <<format, encoding>>

EncodeRow ==
  /\ line # NoLine
  /\ LET h == Last(pages).header IN
     \E n \in 1..MaxRun :
       /\ n <= ColorsPerRow(h) - Len(line.row)
       /\ \E values \in [1..n -> Colors(h)] : EncodeRun(values)

Init ==
  /\ format \in {"PWG", "URF"}
  /\ encoding \in {"decode", "info"}
  /\ doc = <<>>
  /\ pages = <<>>
  /\ line = NoLine

Next ==
  \/ \E k \in DOMAIN Headers : StartPage(k)
  \/ \E repeat \in Repeats : StartLine(repeat)
  \/ EncodeRow

Spec == Init /\ [][Next]_vars

(***************************************************************************)
(* Properties.                                                             *)
(***************************************************************************)

\* What was encoded the way raster-decode.ts reads control bytes is decoded
\* to the same pages and rows, whatever runs, repeated lines, packed 1-bit
\* rows and page boundaries the client chose, also of a page still incomplete,
\* whose last line may break off between two runs: it comes out at its full
\* height, the rows that are not whole yet blank.
DecodesWhatWasEncoded ==
  encoding = "decode" =>
    DecodeRasterPages(format, doc) =
      [k \in 1..Len(pages) |-> [header |-> pages[k].header,
                                rows |-> Padded(pages[k].rows, pages[k].header.height)]]

\* What was encoded the way raster-info.ts reads control bytes is skipped to
\* the very next page header: the pages counted are those encoded.
CountsWhatWasEncoded ==
  encoding = "info" =>
    ParseRasterInfo(format, doc) = [k \in 1..Len(pages) |-> pages[k].header]

\* Damage is local: of a document cut off anywhere, each decoded page has the
\* size it has in the whole document, and the same rows from the first one on up
\* to some row, all those after it blank; no row is made up from missing bytes,
\* and only the last page loses rows.
DamageIsLocal ==
  LET whole == DecodeRasterPages(format, doc) IN
  \A cut \in 0..Len(doc) :
    LET part == DecodeRasterPages(format, SubSeq(doc, 1, cut)) IN
    /\ Len(part) <= Len(whole)
    /\ \A k \in 1..Len(part) :
         /\ part[k].header = whole[k].header
         /\ \E n \in 0..Len(whole[k].rows) :
              part[k].rows = Padded(SubSeq(whole[k].rows, 1, n), Len(whole[k].rows))
    /\ \A k \in 1..(Len(part) - 1) : part[k] = whole[k]

(***************************************************************************)
(* What the sources say and the program does not keep.                     *)
(***************************************************************************)

\* raster-info.ts: both walkers must size each line identically, or they
\* disagree on where the next page header begins; so they find the same pages.
WalkersAgree == Len(ParseRasterInfo(format, doc)) = Len(DecodeRasterPages(format, doc))
=============================================================================
