---------------------------- MODULE DocumentText ----------------------------
(***************************************************************************)
(* What the RAG service makes of the bytes of a document: the units the    *)
(* parsers read (infrastructure/document/parsers), the images the          *)
(* extractors find (images/), the units OCR adds to them                   *)
(* (ocr/enrichment.py), the chunks (chunking/) and what an answer will     *)
(* cite for a chunk (schemas/source_locator.py).                           *)
(*                                                                         *)
(* A body is a type, a number of places (pages, blocks, slides, sheets,    *)
(* lines) and the parts in them, in reading order.  Of a text only the     *)
(* number of characters is kept, of an image its hash and its size.        *)
(***************************************************************************)
EXTENDS SequencesExt, FiniteSetsExt, TLC, Integers

CONSTANTS
  ChunkSize, Overlap,        \* chunk_size_chars, chunk_overlap_chars
  Blanks, Breaks,            \* the offsets of white space, and those a preferred separator ends at
  ScanText, ScanCover,       \* scan_pdf_text_threshold_chars, scan_pdf_image_coverage_ratio
  MaxImages, MaxImageBytes,  \* image_max_count_per_document, image_max_total_bytes
  MaxTitle,                  \* max_length of section_title in SourceLocator
  OcrLength,                 \* bound: characters OCR reads in an image
  NoImage

ASSUME ChunkAssumption == ChunkSize \in Nat \ {0} /\ Overlap \in 0..(ChunkSize - 1)
\* A text begins with a character (strip), and a separator ends with a blank.
ASSUME TextConstants ==
  /\ Blanks \subseteq Nat \ {0} /\ Breaks \subseteq {x + 1 : x \in Blanks}
  /\ OcrLength \in Nat /\ MaxTitle \in Nat

Separator == 2  \* "\n\n" between the units

Office == {"docx", "pptx", "xlsx"}  \* one ZIP package each
TextKinds == {"text", "heading", "notes"}

\* part: [at, file, kind, size, image, cover, ends]; at: the place, as a reader counts it; file:
\* for a slide the number in the name of its part; cover: how much of its page a picture
\* covers; ends: the paragraph ends its section.
Among(body, at, kinds) == {i \in DOMAIN body.parts : body.parts[i].at = at /\ body.parts[i].kind \in kinds}

\* The sum of the numbers n[x]: they are as many as these pairs.
SumOf(n) == Cardinality(UNION {{x} \X (1..n[x]) : x \in DOMAIN n})
SizeOf(body, is) == SumOf([i \in is |-> body.parts[i].size])

\* The elements of a sequence at the positions I, in their order.
Kth(I, k) == CHOOSE i \in I : Cardinality({j \in I : j <= i}) = k
Chosen(s, I) == [k \in 1..Cardinality(I) |-> s[Kth(I, k)]]

-----------------------------------------------------------------------------
(* Text                                                                    *)

\* section_index: the paragraphs that end a section before this place.
Section(body, at) == 1 + Cardinality({i \in DOMAIN body.parts : body.parts[i].at < at /\ body.parts[i].ends})

\* What a unit says of itself.  number is what is read first as the number of the place: page_number,
\* slide_number, sheet_number, line_number, block_index; 0 if it is missing.  of is no
\* part of it: it tells where the content really comes from.
Unit(body, kind, at, number, size, of) ==
  [kind |-> kind, at |-> at, number |-> number, size |-> size, section |-> Section(body, at),
   title |-> [at |-> 0, size |-> 0], of |-> of]

PageUnit(body, at) ==
  LET of == Among(body, at, TextKinds) IN Unit(body, "text", at, at, SizeOf(body, of), of)

BlockUnit(body, at) ==
  LET of == Among(body, at, TextKinds)
  IN Unit(body, IF Among(body, at, {"heading"}) = {} THEN "text" ELSE "heading", at, at, SizeOf(body, of), of)

PartUnit(body, i) ==
  Unit(body, body.parts[i].kind, body.parts[i].at, body.parts[i].at, body.parts[i].size, {i})

\* An empty row and empty notes are left out, an empty page, paragraph, shape or line is not.
Kept(body, i) ==
  /\ body.parts[i].kind \in TextKinds
  /\ body.parts[i].size = 0 => body.type # "xlsx" /\ body.parts[i].kind # "notes"

TextUnits(body) ==
  CASE body.type = "pdf"  -> [at \in 1..body.places |-> PageUnit(body, at)]
    [] body.type = "docx" -> [at \in 1..body.places |-> BlockUnit(body, at)]
    [] OTHER -> Chosen([i \in DOMAIN body.parts |-> PartUnit(body, i)], {i \in DOMAIN body.parts : Kept(body, i)})

NoText(units) == \A i \in DOMAIN units : units[i].size = 0

-----------------------------------------------------------------------------
(* Images                                                                  *)

\* can_append_image: an image that is broken or decorative has size 0.
CanAppend(images, p) ==
  /\ Len(images) < MaxImages /\ p.size > 0
  /\ \A i \in DOMAIN images : images[i].image # p.image
  /\ p.size + SumOf([i \in DOMAIN images |-> images[i].size]) <= MaxImageBytes

ImageAt(body, i, at, number) ==
  [image |-> body.parts[i].image, size |-> body.parts[i].size, kind |-> body.parts[i].kind,
   at |-> at, number |-> number, ocr |-> TRUE, of |-> {i}]

\* The place of a picture: a slide goes by the number in the name of its part.  A sheet
\* is given by its index alone.
PictureAt(body, i) ==
  LET p == body.parts[i]
      at == IF body.type = "pptx" THEN p.file ELSE p.at
  IN ImageAt(body, i, at, IF body.type = "xlsx" THEN 0 ELSE at)

\* _is_image_only_page: a page without text that shows something, or one with little of it
\* that its pictures cover.
ImageOnlyPage(body, at) ==
  LET characters == (0..(SizeOf(body, Among(body, at, TextKinds)) - 1)) \ Blanks
      pictures == Among(body, at, {"picture"})
  IN IF pictures = {} THEN characters = {} /\ Among(body, at, {"drawing"}) # {}
     ELSE \/ characters = {}
          \/ /\ Cardinality(characters) <= ScanText
             /\ SumOf([i \in pictures |-> body.parts[i].cover]) >= ScanCover

\* A page that is an image is rendered, and its pictures are not read as well.  Without room for
\* another image it is not, so the pictures that no longer count for its cover make no difference.
WithPage(body, images, i) ==
  LET p == body.parts[i]
  IN IF ImageOnlyPage(body, p.at) /\ CanAppend(images, p)
     THEN Append([k \in DOMAIN images |-> [images[k] EXCEPT !.ocr = @ /\ images[k].at # p.at]],
                 ImageAt(body, i, p.at, p.at))
     ELSE images

SheetNumberLeftOut(body, images) == images  \* a broken WithSheetNumber

\* DownloadSafeXlsxImageExtractor: sheet_index counts from 1 here, a sheet_number says so.
WithSheetNumber(body, images) ==
  IF body.type = "xlsx" THEN [k \in DOMAIN images |-> [images[k] EXCEPT !.number = images[k].at]]
  ELSE images

\* The slides of a package are read in the order of the numbers in their names.
ReadBefore(body, i, j) ==
  \/ body.type = "pptx" /\ body.parts[i].file < body.parts[j].file
  \/ (body.type = "pptx" => body.parts[i].file = body.parts[j].file) /\ i < j
Nth(body, n) == CHOOSE i \in DOMAIN body.parts : Cardinality({j \in DOMAIN body.parts : ReadBefore(body, j, i)}) = n - 1

WithPart(body, images, i) ==
  CASE body.parts[i].kind = "picture" /\ CanAppend(images, body.parts[i]) -> Append(images, PictureAt(body, i))
    [] body.parts[i].kind = "page" -> WithPage(body, images, i)
    [] OTHER -> images

Embedded(body) ==
  LET found[n \in 0..Len(body.parts)] == IF n = 0 THEN <<>> ELSE WithPart(body, found[n - 1], Nth(body, n))
  IN found[Len(body.parts)]

\* The charts and SmartArt Office has drawn, after the pictures.
Visuals(body) == {i \in DOMAIN body.parts : body.parts[i].kind = "visual"}
WithVisual(body, images, i) ==
  IF i \in Visuals(body) /\ CanAppend(images, body.parts[i])
  THEN Append(images, ImageAt(body, i, body.parts[i].at, IF body.type = "xlsx" THEN 0 ELSE body.parts[i].at))
  ELSE images

WithVisuals(body, images) ==
  LET found[n \in 0..Len(body.parts)] == IF n = 0 THEN images ELSE WithVisual(body, found[n - 1], n)
  IN found[Len(body.parts)]

\* The positions of the images that OCR is to read.
Candidates(images) == {k \in DOMAIN images : images[k].ocr}

\* A document without text has an empty unit for each page that is an image (image_only_locations;
\* without an image they come to nothing), or for each other place with one.
AnchorUnits(body, images) ==
  IF body.type = "pdf"
  THEN Chosen([at \in 1..body.places |-> Unit(body, "anchor", at, at, 0, {})],
              {at \in 1..body.places : ImageOnlyPage(body, at)})
  ELSE Chosen([k \in DOMAIN images |-> Unit(body, "anchor", images[k].at, images[k].number, 0, {})],
              {k \in DOMAIN images : \A j \in 1..(k - 1) : images[j].at # images[k].at})

\* The units of the images in which text was read, in the order of the images.
Recognized(body, images, read) ==
  Chosen([k \in DOMAIN images |-> Unit(body, "ocr", images[k].at, images[k].number, OcrLength, images[k].of)],
         {k \in Candidates(images) : images[k].image \in read})

\* _merge_units: after the last unit of the same place, those without one at the end.
Merged(units, found) ==
  LET At(at) == Chosen(found, {k \in DOMAIN found : found[k].at = at})
      last(i) == \A j \in DOMAIN units : units[j].at = units[i].at => j <= i
      homeless(i) == /\ \A j \in DOMAIN units : units[j].at # found[i].at
                     /\ \A j \in 1..(i - 1) : found[j].at # found[i].at
  IN FlattenSeq([i \in DOMAIN units |-> <<units[i]>> \o IF last(i) THEN At(units[i].at) ELSE <<>>])
     \o FlattenSeq([i \in DOMAIN found |-> IF homeless(i) THEN At(found[i].at) ELSE <<>>])

-----------------------------------------------------------------------------
(* Chunks                                                                  *)

\* _DocxStructureStrategy: the heading a block stands under, in its section.
TitleAfter(state, u) ==
  [section |-> u.section,
   title |-> IF u.kind = "heading" /\ u.size > 0 THEN [at |-> u.at, size |-> u.size]
             ELSE IF u.section # state.section THEN [at |-> 0, size |-> 0]
             ELSE state.title]

Prepared(type, units) ==
  IF type # "docx" THEN units
  ELSE LET state[i \in 0..Len(units)] ==
             IF i = 0 THEN [section |-> 0, title |-> [at |-> 0, size |-> 0]] ELSE TitleAfter(state[i - 1], units[i])
       IN [i \in DOMAIN units |-> [units[i] EXCEPT !.title = state[i].title]]

\* _find_split_end, with one kind of separator.
SplitEnd(n, start) ==
  LET candidate == Min({start + ChunkSize, n})
      from == Min({candidate, start + Max({Overlap + 1, ChunkSize \div 2})})
      ends == {e \in Breaks : from < e /\ e <= candidate}
  IN IF candidate < n /\ ends # {} THEN Max(ends) ELSE candidate

NextAfterEnd(start, end) == end + 1  \* a broken NextStart

NextStart(start, end) == IF end - Overlap <= start THEN start + 1 ELSE end - Overlap

\* _trim_whitespace_bounds; of blanks alone there is no chunk.
Trimmed(start, end) ==
  LET solid == (start..(end - 1)) \ Blanks
  IN IF solid = {} THEN <<>> ELSE <<[start |-> Min(solid), end |-> Max(solid) + 1]>>

\* _split_text
Slices(n) ==
  LET from[start \in 0..n] ==
        LET end == SplitEnd(n, start)
        IN Trimmed(start, end) \o IF end >= n THEN <<>> ELSE from[NextStart(start, end)]
  IN IF n = 0 THEN <<>> ELSE from[0]

\* document_offset at the start of a unit.
UnitOffset(units, i) ==
  SumOf([j \in 1..(i - 1) |-> IF units[j].size = 0 THEN 0 ELSE units[j].size + Separator])

Chunks(units) ==
  FlattenSeq([i \in DOMAIN units |->
    LET slices == Slices(units[i].size)
    IN [k \in DOMAIN slices |->
         [unit |-> i, start |-> slices[k].start, end |-> slices[k].end,
          offset |-> UnitOffset(units, i) + slices[k].start,
          at |-> units[i].at, number |-> units[i].number, title |-> units[i].title]]])

-----------------------------------------------------------------------------
(* Citations                                                               *)

\* build_source_locator: sheet_number, else sheet_index, which it takes to count from 0.
CitedPlace(chunk) == IF chunk.number > 0 THEN chunk.number ELSE chunk.at + 1

\* SourceLocator refuses a title that is too long, and with it the whole answer of the search.
Citable(chunk) == chunk.title.size <= MaxTitle

-----------------------------------------------------------------------------
(* What they should be                                                     *)

\* The heading a reader finds above a block of its section.
HeadingAbove(body, at) ==
  LET heads == {i \in DOMAIN body.parts : /\ body.parts[i].kind = "heading" /\ body.parts[i].size > 0
                                          /\ body.parts[i].at <= at
                                          /\ Section(body, body.parts[i].at) = Section(body, at)}
  IN IF body.type # "docx" \/ heads = {} THEN 0 ELSE Max({body.parts[i].at : i \in heads})

CitesItsPlaceIn(body, units, chunk) ==
  \E i \in units[chunk.unit].of :
    /\ CitedPlace(chunk) = body.parts[i].at
    /\ chunk.title.at = HeadingAbove(body, body.parts[i].at)

\* A picture of a slide that was moved: its part is named for another place.
OnMovedSlide(body, i) ==
  body.type = "pptx" /\ body.parts[i].kind = "picture" /\ body.parts[i].file # body.parts[i].at

\* A chunk is refused for a heading that is too long.
RefusedForHeading(body, chunk) ==
  \E i \in DOMAIN body.parts : /\ body.parts[i].kind = "heading" /\ body.parts[i].size > MaxTitle
                               /\ body.parts[i].at = chunk.title.at

\* Every character of every text is in a chunk, and the offsets are those of the units put
\* one after the other.
Covered(body, units, chunks) ==
  /\ \A i \in DOMAIN body.parts : body.parts[i].kind \in TextKinds /\ body.parts[i].size > 0 =>
       \E u \in DOMAIN units : /\ i \in units[u].of
                               /\ units[u].size = SizeOf(body, units[u].of)
                               /\ \A x \in (0..(units[u].size - 1)) \ Blanks :
                                    \E k \in DOMAIN chunks : /\ chunks[k].unit = u
                                                             /\ chunks[k].start <= x /\ x < chunks[k].end
  /\ \A k, l \in DOMAIN chunks : chunks[k].unit < chunks[l].unit =>
       chunks[k].offset + (chunks[k].end - chunks[k].start) < chunks[l].offset

=============================================================================
