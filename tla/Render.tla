------------------------------- MODULE Render -------------------------------
(***************************************************************************)
(* What a job leaves on disk: IppPrinter.renderRaster                      *)
(* (src/printer/ipp-printer.ts), with the renderer of raster documents     *)
(* (src/documents/raster-render.ts) and the one that calls Ghostscript     *)
(* (src/documents/gs-raster.ts).                                           *)
(*                                                                         *)
(* One job is enough, since its id is part of every file name; ids start   *)
(* again with every process, so a later process writes over the files of   *)
(* the job of that id before it.  A file name <prefix>-d<b>-job<id>-p<n>   *)
(* is <<b, n>>, and <prefix>-job<id>-p<n> is <<0, n>>.                     *)
(*                                                                         *)
(* An image is a grid of pixels; a pixel of a page says where on which     *)
(* page of which document it was, so that colors, depths and the PNG       *)
(* encoding are left out.  Pages have at least one pixel.                  *)
(***************************************************************************)
EXTENDS Lists, Integers, FiniteSets, SequencesExt

CONSTANTS
  Documents,    \* what clients send: see DocumentType
  Templates,    \* the job templates they ask for: see TemplateType
  MaxDocuments, \* bound on the documents sent, in all processes
  MaxRenders,   \* bound on the renderings, in all processes
  MaxFailures   \* bound on what fails in one rendering: writes, starts of gs

\* What a document is: its format, the sizes of the raster pages its bytes
\* decode to and the number of pages Ghostscript finds in them.
DocumentType ==
  [format: {"pdf", "other"}, raster: Seq((Nat \ {0}) \X (Nat \ {0})),
   pages: Nat]

\* What a client asks for; the order of its page ranges tells nothing.
TemplateType ==
  [pageRanges: SUBSET (Int \X Int), numberUp: Int, orientation: Nat,
   draft: BOOLEAN, sides: STRING]

ASSUME RenderAssumption ==
  /\ MaxDocuments \in Nat /\ MaxRenders \in Nat /\ MaxFailures \in Nat
  /\ \A d \in Documents : d \in DocumentType
  /\ \A t \in Templates : t \in TemplateType

VARIABLES
  template,     \* the job's template, as the client sent it
  documents,    \* the job's documents, numbered in the order sent
  impressions,  \* job._impressions
  gsPath,       \* gsPathCache: "unknown", "found" or "absent"
  disk,         \* the files under the output prefix: a function from names
  sent,         \* bounds: the documents sent and the renderings done so far
  renders,
  last          \* history: the latest rendering since the job last grew

vars == <<template, documents, impressions, gsPath, disk, sent, renders, last>>

None == [renders |-> 0]

(***************************************************************************)
(* The template, normalized.                                               *)
(***************************************************************************)
Larger(a, b) == IF a > b THEN a ELSE b

\* Bounds below one are raised to it, inverted ranges dropped.
PageRanges(t) ==
  {r \in {<<Larger(1, asked[1]), asked[2]>> : asked \in t.pageRanges} :
     r[1] <= r[2]}

\* No range at all selects every page.
InSelectedRanges(page, ranges) ==
  ranges = {} \/ \E r \in ranges : page \in r[1]..r[2]

NumberUp(t) == Larger(1, t.numberUp)

SidesTumbles(t) == t.sides = "two-sided-short-edge"

Degrees(t) == CASE t.orientation = 4 -> 90
                [] t.orientation = 5 -> 270
                [] t.orientation = 6 -> 180
                [] OTHER -> 0

(***************************************************************************)
(* Images.                                                                 *)
(***************************************************************************)
White == <<>>

Image(w, h, Pixel(_, _)) ==
  [w |-> w, h |-> h,
   px |-> [p \in (0..(w - 1)) \X (0..(h - 1)) |-> Pixel(p[1], p[2])]]

\* The n-th page of document d, of the given size.
PageImage(d, n, size) ==
  Image(size[1], size[2], LAMBDA x, y : <<d, n, x, y>>)

\* Clockwise.  The source says where a pixel goes, this where it comes from.
RotatePixels(i, degrees) ==
  CASE degrees = 90 ->
         Image(i.h, i.w, LAMBDA x, y : i.px[y, i.h - 1 - x])
    [] degrees = 270 ->
         Image(i.h, i.w, LAMBDA x, y : i.px[i.w - 1 - y, x])
    [] degrees = 180 ->
         Image(i.w, i.h, LAMBDA x, y : i.px[i.w - 1 - x, i.h - 1 - y])
    [] OTHER -> i

\* Nearest neighbor; in range, so the source's Math.min never bites.
Scaled(i, w, h) ==
  Image(w, h, LAMBDA x, y : i.px[(x * i.w) \div w, (y * i.h) \div h])

DownscalePixels(i, draft) ==
  IF draft THEN Scaled(i, Larger(1, i.w \div 2), Larger(1, i.h \div 2)) ELSE i

\* numberUpGrid: cols = ceil(sqrt(n)), rows = ceil(n / cols).
NumberUpGrid(n) ==
  LET cols == CHOOSE c \in 1..n : c * c >= n /\ (c - 1) * (c - 1) < n
  IN  [cols |-> cols, rows |-> (n + cols - 1) \div cols]

\* compositeNUp with blitScaled: cells are as large as the first page.
CompositeNUp(batch, grid) ==
  LET cellW == batch[1].w
      cellH == batch[1].h
      Pixel(x, y) ==
        LET cell == (y \div cellH) * grid.cols + x \div cellW
        IN  IF cell < Len(batch)
            THEN Scaled(batch[cell + 1], cellW, cellH).px[x % cellW, y % cellH]
            ELSE White
  IN  Image(cellW * grid.cols, cellH * grid.rows, Pixel)

(***************************************************************************)
(* The raster documents: renderRasterJob.                                  *)
(***************************************************************************)
\* All raster pages of the job, in order: the counter pageNum of the source
\* is the index in this sequence.
SourcePages(docs) ==
  FlattenSeq([d \in DOMAIN docs |->
    [n \in DOMAIN docs[d].raster |->
       PageImage(docs[d].number, n, docs[d].raster[n])]])

\* Fault: back pages are the even pages of the document, selected or not.
FaultyPrepare(page, index, emitIndex, t) ==
  LET scaled == DownscalePixels(RotatePixels(page, Degrees(t)), t.draft)
  IN  [index |-> index,
       image |-> IF SidesTumbles(t) /\ index % 2 = 0
                 THEN RotatePixels(scaled, 180) ELSE scaled]

\* Orientation, then quality, then the tumble of the even emitted pages.
Prepare(page, index, emitIndex, t) ==
  LET scaled == DownscalePixels(RotatePixels(page, Degrees(t)), t.draft)
  IN  [index |-> index,
       image |-> IF SidesTumbles(t) /\ emitIndex % 2 = 0
                 THEN RotatePixels(scaled, 180) ELSE scaled]

Prepared(docs, t) ==
  LET source == SourcePages(docs)
      chosen == Ascending({i \in DOMAIN source :
                             InSelectedRanges(i, PageRanges(t))}, Len(source))
  IN  [e \in DOMAIN chosen |-> Prepare(source[chosen[e]], chosen[e], e, t)]

\* Fault: a file is numbered by its place among the emitted pages.
FaultyEmitPerPage(prepared) ==
  [n \in DOMAIN prepared |-> prepared[n].image]

\* The files to write, a function from their suffix.
EmitPerPage(prepared) ==
  [n \in {prepared[e].index : e \in DOMAIN prepared} |->
     prepared[CHOOSE e \in DOMAIN prepared : prepared[e].index = n].image]

\* Fault: a last sheet that is not full is forgotten.
FaultyEmitNUp(prepared, n) ==
  [s \in 1..(Len(prepared) \div n) |->
     CompositeNUp([k \in 1..n |-> prepared[(s - 1) * n + k].image],
                  NumberUpGrid(n))]

EmitNUp(prepared, n) ==
  LET start(s) == (s - 1) * n
      size(s) == IF start(s) + n <= Len(prepared)
                 THEN n ELSE Len(prepared) - start(s)
  IN  [s \in 1..((Len(prepared) + n - 1) \div n) |->
         CompositeNUp([k \in 1..size(s) |-> prepared[start(s) + k].image],
                      NumberUpGrid(n))]

RenderRasterJob(docs, t) ==
  LET prepared == Prepared(docs, t)
      n == NumberUp(t)
  IN  IF n <= 1 THEN EmitPerPage(prepared) ELSE EmitNUp(prepared, n)

(***************************************************************************)
(* Ghostscript.                                                            *)
(***************************************************************************)
\* Files, named <<base, suffix>>, written over the ones that are there.
Over(base, pages, files) ==
  LET names == {<<base, n>> : n \in DOMAIN pages}
  IN  [f \in names \union DOMAIN files |->
         IF f \in names THEN pages[f[2]] ELSE files[f]]

\* How many files of a base there are without a gap, from the first.
Probe(base, files) ==
  CHOOSE n \in 0..Cardinality(DOMAIN files) :
    /\ \A i \in 1..n : <<base, i>> \in DOMAIN files
    /\ <<base, n + 1>> \notin DOMAIN files

GsPage(d, n) == PageImage(d.number, n, <<1, 1>>)

\* In place of a number of pages: the process of gs fails to start, or its
\* input cannot be written.
NotStarted == -1

\* Fault: the base is the count of the document before.
FaultyRasterizeNext(sofar, d, produced) ==
  LET files == Over(sofar.gsPages, [n \in 1..produced |-> GsPage(d, n)],
                    sofar.disk)
  IN  IF produced = NotStarted THEN sofar
      ELSE [disk |-> files, gsPages |-> Probe(sofar.gsPages, files)]

\* One document: gs leaves its first "produced" pages, then the files are
\* probed and the pages found are the base of the next document.  If gs cannot
\* be started nothing is probed.
RasterizeNext(sofar, d, produced) ==
  LET files == Over(sofar.gsPages, [n \in 1..produced |-> GsPage(d, n)],
                    sofar.disk)
  IN  IF produced = NotStarted THEN sofar
      ELSE [disk |-> files,
            gsPages |-> sofar.gsPages + Probe(sofar.gsPages, files)]

\* The loop of renderRaster over the documents.
RasterizePdfOrPostScript(docs, produced, files) ==
  LET after[d \in 0..Len(docs)] ==
        IF d = 0 THEN [disk |-> files, gsPages |-> 0]
        ELSE IF docs[d].format = "pdf"
             THEN RasterizeNext(after[d - 1], docs[d], produced[d])
             ELSE after[d - 1]
  IN  after[Len(docs)]

(***************************************************************************)
(* The actions.                                                            *)
(***************************************************************************)
Init ==
  /\ template \in Templates
  /\ documents = <<>> /\ impressions = 0 /\ gsPath = "unknown"
  /\ disk = <<>> /\ sent = 0 /\ renders = 0 /\ last = None

\* A document comes with the job or is added to it; raster pages are counted.
AddDocument(d) ==
  /\ sent < MaxDocuments
  /\ sent' = sent + 1
  /\ documents' = Append(documents,
       [format |-> d.format, raster |-> d.raster, pages |-> d.pages,
        number |-> sent + 1])
  /\ impressions' = impressions + Larger(1, Len(d.raster))
  /\ last' = None
  /\ UNCHANGED <<template, gsPath, disk, renders>>

\* renderRaster.  Each write may fail, and gs may end early on any document;
\* gs is looked for once in the life of a process.
RenderRaster ==
  /\ renders < MaxRenders
  /\ LET pages == RenderRasterJob(documents, template)
         asked == \E d \in DOMAIN documents : documents[d].format = "pdf"
     IN  \E failed \in SUBSET DOMAIN pages,
            path \in IF asked /\ gsPath = "unknown" THEN {"found", "absent"}
                     ELSE {gsPath},
            produced \in [DOMAIN documents ->
                            UNION {NotStarted..d.pages : d \in Documents}] :
           /\ \A d \in DOMAIN documents :
                produced[d] \in IF documents[d].format = "pdf" /\ path = "found"
                                THEN NotStarted..documents[d].pages ELSE {0}
           /\ Cardinality(failed)
                + Cardinality({d \in DOMAIN documents : produced[d] = NotStarted})
                <= MaxFailures
           /\ LET written == [n \in DOMAIN pages \ failed |-> pages[n]]
                  raster  == Over(0, written, disk)
                  gs == IF path = "found"
                        THEN RasterizePdfOrPostScript(documents, produced, raster)
                        ELSE [disk |-> raster, gsPages |-> 0]
              IN  /\ disk' = gs.disk
                  /\ impressions' = IF gs.gsPages > 0 THEN gs.gsPages
                                    ELSE impressions
                  /\ gsPath' = path
                  /\ renders' = renders + 1
                  /\ last' = [renders |-> renders + 1,
                              written |-> DOMAIN written, failed |-> failed,
                              produced |-> produced, before |-> DOMAIN disk]
  /\ UNCHANGED <<template, documents, sent>>

\* The process ends; in the next one, the first job has the same id again.
Restart ==
  /\ documents # <<>>
  /\ documents' = <<>> /\ impressions' = 0 /\ gsPath' = "unknown"
  /\ last' = None
  /\ UNCHANGED <<template, disk, sent, renders>>

Next ==
  \/ \E d \in Documents : AddDocument(d)
  \/ RenderRaster
  \/ Restart

Spec == Init /\ [][Next]_vars

(***************************************************************************)
(* Properties, of the files a rendering has just left.                     *)
(***************************************************************************)
Rendered == last # None
RasterOnly == \A d \in DOMAIN documents : documents[d].format # "pdf"
PdfOnly == \A d \in DOMAIN documents : documents[d].raster = <<>>

\* The job's raster pages, each a document and a page of it.
Labels == FlattenSeq([d \in DOMAIN documents |->
            [n \in DOMAIN documents[d].raster |-> <<documents[d].number, n>>]])

\* The pages the client selected, by what RFC 8011 says of its ranges: a
\* range covers what lies between its bounds, and none that covers something
\* means no restriction.
Wanted ==
  LET covering == {r \in template.pageRanges : \E p \in 1..r[2] : p >= r[1]}
  IN  Ascending({p \in DOMAIN Labels :
                   covering = {} \/ \E r \in covering : r[1] <= p /\ p <= r[2]},
                Len(Labels))

\* The pages in an image, read row by row, each once, by their labels.
Reading(image, labels) ==
  LET size  == image.w * image.h
      At(k) == image.px[(k - 1) % image.w, (k - 1) \div image.w]
      New(k) == /\ At(k) # White
                /\ \A j \in 1..(k - 1) : At(j) # White =>
                     <<At(j)[1], At(j)[2]>> # <<At(k)[1], At(k)[2]>>
      order == Ascending({k \in 1..size : New(k)}, size)
  IN  [i \in DOMAIN order |->
         CHOOSE p \in DOMAIN labels :
           labels[p] = <<At(order[i])[1], At(order[i])[2]>>]

\* Sheets in the order of their suffixes, without those that failed.
Sheets == Ascending(last.written, Len(Labels))

\* Every page the client selected is on exactly one sheet, in order, whatever
\* the ranges, the pages per sheet and the documents the pages come from; all
\* sheets but the last are full; a failed write loses its own sheet only.
EverySelectedPageOnce ==
  Rendered /\ RasterOnly =>
    LET read  == [s \in DOMAIN Sheets |-> Reading(disk[<<0, Sheets[s]>>], Labels)]
        all   == FlattenSeq(read)
        lost  == Len(Wanted) - Len(all)
    IN  /\ \A i, j \in DOMAIN all : i < j => all[i] < all[j]
        /\ ToSet(all) \subseteq ToSet(Wanted)
        /\ lost >= Cardinality(last.failed)
        /\ lost <= Cardinality(last.failed) * NumberUp(template)
        /\ \A s \in DOMAIN read : s < Len(read) =>
             Len(read[s]) = NumberUp(template)

\* Without number-up, a file's suffix is the number of the page on it, among
\* all raster pages of the job, the unselected ones included.
NameTellsThePage ==
  Rendered /\ RasterOnly /\ template.numberUp <= 1 =>
    \A n \in last.written : Reading(disk[<<0, n>>], Labels) = <<n>>

\* The upper left corner of the page in an image, where a page turned by so
\* many degrees has it, and from there its upper edge, clockwise.
Turned(i, degrees) ==
  LET at == CASE degrees = 0   -> [corner |-> <<0, 0>>, step |-> <<1, 0>>]
              [] degrees = 90  -> [corner |-> <<i.w - 1, 0>>, step |-> <<0, 1>>]
              [] degrees = 180 -> [corner |-> <<i.w - 1, i.h - 1>>,
                                   step |-> <<-1, 0>>]
              [] degrees = 270 -> [corner |-> <<0, i.h - 1>>, step |-> <<0, -1>>]
      next == <<at.corner[1] + at.step[1], at.corner[2] + at.step[2]>>
      Place(pixel) == <<pixel[3], pixel[4]>>
  IN  /\ Place(i.px[at.corner]) = <<0, 0>>
      /\ next \in DOMAIN i.px => Place(i.px[next]) = <<1, 0>>

\* By how many degrees the client wants the e-th page of its selection turned:
\* as the orientation says, upright if it is none that there is, and half a
\* turn more for the backs of a job that is flipped on the short edge.
AskedTurn(e, t) ==
  LET back == e % 2 = 0 /\ t.sides = "two-sided-short-edge"
      front == CASE t.orientation = 4 -> 90
                 [] t.orientation = 5 -> 270
                 [] t.orientation = 6 -> 180
                 [] OTHER -> 0
  IN  (front + IF back THEN 180 ELSE 0) % 360

\* At full quality and one page per sheet, fronts lie as the client asked and
\* the backs of a short-edge job are turned over, front and back counted over
\* the pages that are selected.
BacksAreTumbled ==
  Rendered /\ RasterOnly /\ template.numberUp <= 1 /\ ~template.draft =>
    \A e \in DOMAIN Wanted : Wanted[e] \in last.written =>
      Turned(disk[<<0, Wanted[e]>>], AskedTurn(e, template))

\* The documents of a job do not overwrite one another's pages, over whatever
\* files there were, as long as Ghostscript renders all of them.
DocumentsKeepTheirPages ==
  Rendered /\ PdfOnly =>
    \A d \in DOMAIN documents : \A n \in 1..(last.produced[d]) :
      \E f \in DOMAIN disk : disk[f] = GsPage(documents[d], n)

\* Where no file was before, a job of page descriptions is charged for the
\* pages Ghostscript made, all documents together.
ChargedForPagesMade ==
  Rendered /\ PdfOnly /\ last.before = {} /\ DOMAIN disk # {} =>
    impressions = Cardinality(DOMAIN disk)
=============================================================================
