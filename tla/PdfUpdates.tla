------------------------------ MODULE PdfUpdates ------------------------------
(***************************************************************************)
(* internal/pdfmeta: the incremental updates that turn a rendered PDF into *)
(* PDF/A-2u and sign it.  A file is a sequence of cells (the header line,  *)
(* an object, a cross-reference section, a trailer, a startxref line); the *)
(* byte offset of a cell is the number of cells before it, so the offset   *)
(* arithmetic of the code is kept while the bytes are left out.  The       *)
(* signature dictionary takes three cells, because /ByteRange excludes     *)
(* exactly its /Contents string.                                           *)
(***************************************************************************)
EXTENDS Integers, Sequences, SequencesExt, FiniteSetsExt

CONSTANTS Bases,      \* the PDFs a renderer can hand over
          Candidates, \* font program -> its subset tags in the order tried
          MaxInt,     \* the largest /Size an int holds
          MaxOffset,  \* the largest offset of a 10-digit xref entry
          MaxGen,     \* the largest generation of a 5-digit xref entry
          MaxSigs     \* bound on the signatures of one file

VARIABLES base,  \* the rendered PDF the file began as
          file,  \* its bytes now
          stage, \* "none", "rendered", "tagged", "repaired" or "signed"
          pdfa   \* TagPDFA succeeded on this file

vars == <<base, file, stage, pdfa>>

Obj(id, gen, body) == [t |-> "obj", id |-> id, gen |-> gen, body |-> body]

Fail == [ok |-> FALSE, file |-> <<>>]
Good(f) == [ok |-> TRUE, file |-> f]

-----------------------------------------------------------------------------
(* Finding things in a file                                                *)

Cells(f, kinds) == {i \in DOMAIN f : f[i].t \in kinds}

\* The last startxref line; an offset outside the file is refused.
findLastStartxref(f) ==
    LET S == Cells(f, {"startxref"})
        o == IF S = {} THEN 0 ELSE f[Max(S)].at
    IN  IF o >= Len(f) THEN 0 ELSE o

\* The first trailer behind the cross-reference section, 0 when there is none.
parseTrailerSizeAndRoot(f, xref) ==
    LET S == {i \in Cells(f, {"trailer"}) : i > xref}
    IN  IF xref = 0 \/ S = {} THEN 0 ELSE Min(S)

\* The latest revision of an object: its last "id gen obj" marker.
findObjectStart(f, id, gen) ==
    LET S == {i \in Cells(f, {"obj", "sighead"}) : f[i].id = id /\ f[i].gen = gen}
    IN  IF S = {} THEN 0 ELSE Max(S)

findObjectBody(f, id, gen) == f[findObjectStart(f, id, gen)].body

\* What an update reads of the trailer in cell t.
readTrailer(f, xref, t) ==
    IF t = 0 THEN [ok |-> FALSE]
    ELSE [ok   |-> findObjectStart(f, f[t].root, f[t].gen) # 0, xref |-> xref,
          size |-> f[t].size, root |-> f[t].root, gen |-> f[t].gen, ident |-> f[t].ident]

\* What every update reads first.
Locate(f) ==
    LET xref == findLastStartxref(f)
    IN  readTrailer(f, xref, parseTrailerSizeAndRoot(f, xref))

checkTrailerSizeRoom(size, n) == size <= MaxInt - n

\* The identifier of the file is kept; one is derived when there is none.
trailerIDEntry(f, l) == IF l.ident # 0 THEN l.ident ELSE Len(f)

\* The width checks of a classic cross-reference entry.
writeClassicXrefEntry(offset, gen) == offset <= MaxOffset /\ gen <= MaxGen

\* /Size, /Root, /Prev and /ID; no other entry of the old trailer.
trailerEntries(f, l, n) ==
    [t |-> "trailer", size |-> l.size + n, root |-> l.root, gen |-> l.gen,
     prev |-> l.xref, ident |-> trailerIDEntry(f, l), info |-> 0]

\* Objects, a cross-reference section for them, a trailer and startxref are
\* appended behind the old bytes; n object numbers are new.
appendUpdate(f, l, cells, n) ==
    LET marks   == {i \in DOMAIN cells : cells[i].t \in {"obj", "sighead"}}
        at      == [id \in {cells[i].id : i \in marks} |->
                       Len(f) + (CHOOSE i \in marks : cells[i].id = id) - 1]
        trailer == trailerEntries(f, l, n)
    IN  IF \A i \in marks : writeClassicXrefEntry(Len(f) + i - 1, cells[i].gen)
        THEN Good(f \o cells \o << [t |-> "xref", at |-> at], trailer,
                                   [t |-> "startxref", at |-> Len(f) + Len(cells)] >>)
        ELSE Fail

-----------------------------------------------------------------------------
(* PDF/A: header comment, fonts, XMP packet, OutputIntent                  *)

\* The entries of the (one) cross-reference section move with the comment.
shiftClassicXrefOffsets(xref) == [xref EXCEPT !.at = [id \in DOMAIN xref.at |-> xref.at[id] + 1]]

replaceStartxrefValue(f, at) ==
    LET i == Max(Cells(f, {"startxref"})) IN [f EXCEPT ![i].at = at]

ensureBinaryHeaderComment(f) ==
    LET xref  == findLastStartxref(f)
        moved == IF xref # 0 /\ f[xref + 1].t = "xref"
                 THEN shiftClassicXrefOffsets(f[xref + 1])
                 ELSE [t |-> "none"]
    IN  IF f[1].t # "header" THEN Fail
        ELSE IF f[2].t = "comment" THEN Good(f)
        ELSE IF moved.t = "none" THEN Fail
        ELSE IF \E id \in DOMAIN moved.at : moved.at[id] > MaxOffset THEN Fail
        ELSE Good(replaceStartxrefValue(
                 <<f[1], [t |-> "comment"]>> \o
                 SubSeq([f EXCEPT ![xref + 1] = moved], 2, Len(f)), xref + 1))

\* The first tag of the program's hash chain that no other subset has.
subsetTag(program, used) == SelectSeq(Candidates[program], LAMBDA t : t \notin used)[1]

\* The embedded program, read by its /Length from the latest revision.
readFontProgram(f, id) == findObjectBody(f, id, 0)

\* The PostScript name inside the program, "" when it has none a PDF can use.
trueTypePostScriptName(font) == font.psName

\* The three dictionaries of a font and its program, in their latest revisions.
fontObjects(f, m) ==
    LET cid  == findObjectBody(f, m.body.cid, 0)
        desc == findObjectBody(f, cid.desc, 0)
    IN  [type0 |-> findObjectBody(f, m.id, 0), cid |-> cid, desc |-> desc,
         program |-> readFontProgram(f, desc.fontfile)]

\* New revisions under a tagged name; none when a body no longer has the name
\* the renderer gave it.
revisionsNamed(m, font, name) ==
    IF \E b \in {font.type0, font.cid, font.desc} : b.name # m.body.name THEN <<>>
    ELSE << Obj(m.id, 0, [font.type0 EXCEPT !.name = name]),
            Obj(m.body.cid, 0, [font.cid EXCEPT !.name = name]),
            Obj(font.cid.desc, 0, [font.desc EXCEPT !.name = name]) >>

\* Type0, CIDFont and descriptor of one font, all or none; nothing when the
\* program has no readable name.
renamedFontObjects(m, font, used) ==
    IF trueTypePostScriptName(font.program) = "" THEN [used |-> used, objs |-> <<>>]
    ELSE LET tag == subsetTag(font.program.program, used)
         IN  [used |-> used \cup {tag},
              objs |-> revisionsNamed(m, font, <<tag, trueTypePostScriptName(font.program)>>)]

\* The compressed map of one range per high byte that replaces the renderer's.
identityCMapObjectBody(cmap) == [cmap EXCEPT !.map = "identity"]

\* The revision of a font's ToUnicode map, when it is the renderer's.
revisedCMap(m, cmap) ==
    IF cmap.map = "fpdf" THEN <<Obj(m.body.tounicode, 0, identityCMapObjectBody(cmap))>>
    ELSE <<>>

Joined(objs, renamed, more) ==
    [used |-> renamed.used, objs |-> objs \o renamed.objs \o more]

appendRevisions(f, objs, l) ==
    IF objs = <<>> THEN Good(f)
    ELSE IF ~l.ok THEN Fail
    ELSE appendUpdate(f, l, objs, 0)

\* The pattern matches the renderer's dictionaries in every revision of the
\* file; the bodies revised are those of the latest one.
RepairFPDFFonts(f) ==
    LET matches == SelectSeq(f, LAMBDA c : /\ c.t = "obj" /\ c.body.k = "type0"
                                           /\ c.body.name[1] = "utf8")
        Revise(acc, m) ==
            Joined(acc.objs, renamedFontObjects(m, fontObjects(f, m), acc.used),
                   revisedCMap(m, findObjectBody(f, m.body.tounicode, 0)))
    IN  appendRevisions(f, FoldLeft(Revise, [used |-> {}, objs |-> <<>>], matches).objs,
                        Locate(f))

insertMetadataReference(catalog, id) == [catalog EXCEPT !.metadata = id]

insertOutputIntentsReference(catalog, id) == [catalog EXCEPT !.intents = id]

injectXMPAt(f, l) ==
    IF ~l.ok THEN Fail
    ELSE IF ~checkTrailerSizeRoom(l.size, 1) THEN Fail
    ELSE appendUpdate(f, l,
           << Obj(l.size, 0, [k |-> "xmp"]),
              Obj(l.root, l.gen, insertMetadataReference(
                      findObjectBody(f, l.root, l.gen), l.size)) >>, 1)

InjectXMPStream(f) == injectXMPAt(f, Locate(f))

injectIntentAt(f, l) ==
    IF ~l.ok THEN Fail
    ELSE IF ~checkTrailerSizeRoom(l.size, 2) THEN Fail
    ELSE appendUpdate(f, l,
           << Obj(l.size, 0, [k |-> "icc"]),
              Obj(l.size + 1, 0, [k |-> "intent", profile |-> l.size]),
              Obj(l.root, l.gen, insertOutputIntentsReference(
                      findObjectBody(f, l.root, l.gen), l.size + 1)) >>, 2)

InjectOutputIntent(f) == injectIntentAt(f, Locate(f))

\* The steps of TagPDFA, each on what the one before it made.
FontsOf(r)  == IF r.ok THEN RepairFPDFFonts(r.file) ELSE Fail
XMPOf(r)    == IF r.ok THEN InjectXMPStream(r.file) ELSE Fail
IntentOf(r) == IF r.ok THEN InjectOutputIntent(r.file) ELSE Fail

\* The first error ends them.
MakePDFA(f) == IntentOf(XMPOf(FontsOf(ensureBinaryHeaderComment(f))))

\* A failure hands back the rendered bytes unchanged.
orRendered(r, f) == [ok |-> r.ok, file |-> IF r.ok THEN r.file ELSE f]
TagPDFA(f) == orRendered(MakePDFA(f), f)

-----------------------------------------------------------------------------
(* The signature                                                           *)

\* The field joins /Fields; both signature bits of /SigFlags are set.
mergeSignatureFieldIntoAcroForm(form, id) ==
    [form EXCEPT !.fields = @ \cup {id}, !.flags = @ \cup {1, 2}]

\* The catalog's revision, and that of an indirect AcroForm.
signatureFieldReferenceRewrites(f, l, id) ==
    LET catalog == findObjectBody(f, l.root, l.gen)
        acro    == catalog.acro
    IN  CASE acro.k = "none" ->
               <<Obj(l.root, l.gen, [catalog EXCEPT !.acro =
                     [k |-> "form", fields |-> {id}, flags |-> {1, 2}]])>>
          [] acro.k = "form" ->
               <<Obj(l.root, l.gen, [catalog EXCEPT !.acro =
                     mergeSignatureFieldIntoAcroForm(acro, id)])>>
          [] OTHER ->
               <<Obj(l.root, l.gen, catalog),
                 Obj(acro.ref, 0, mergeSignatureFieldIntoAcroForm(
                                      findObjectBody(f, acro.ref, 0), id))>>

\* The update with its placeholders: signature dictionary, field, catalog.
signaturePlaceholders(f, l) ==
    appendUpdate(f, l,
        << [t |-> "sighead", id |-> l.size, gen |-> 0, body |-> [k |-> "sig"]],
           [t |-> "contents", cms |-> <<>>],
           [t |-> "sigtail", range |-> <<>>],
           Obj(l.size + 1, 0, [k |-> "field", v |-> l.size]) >>
        \o signatureFieldReferenceRewrites(f, l, l.size + 1), 2)

\* A plausible slip: the ranges are signed before ByteRange is written.
signThenPatch(out, c, result) ==
    LET ranged == [out EXCEPT ![c + 1].range = <<0, c - 1, c, Len(out) - c>>]
    IN  IF result # "fits" THEN Fail
        ELSE Good([ranged EXCEPT ![c].cms = RemoveAt(out, c)])

\* ByteRange is written first, then the two ranges are signed, then the
\* signature fills the placeholder, unless it fails or is too large for it.
signRanges(out, c, result) ==
    LET ranged == [out EXCEPT ![c + 1].range = <<0, c - 1, c, Len(out) - c>>]
    IN  IF result # "fits" THEN Fail
        ELSE Good([ranged EXCEPT ![c].cms = RemoveAt(ranged, c)])

signPlaceholders(l, out, result) ==
    IF ~l.ok THEN Fail
    ELSE IF ~checkTrailerSizeRoom(l.size, 2) THEN Fail
    ELSE IF ~out.ok THEN Fail
    ELSE signRanges(out.file, findObjectStart(out.file, l.size, 0) + 1, result)

injectSignatureAt(f, l, result) == signPlaceholders(l, signaturePlaceholders(f, l), result)

InjectPAdESSignature(f, result) == injectSignatureAt(f, Locate(f), result)

-----------------------------------------------------------------------------
Init == base = <<>> /\ file = <<>> /\ stage = "none" /\ pdfa = FALSE

Render == \E b \in Bases : /\ stage = "none"
                           /\ base' = b /\ file' = b /\ stage' = "rendered"
                           /\ pdfa' = FALSE

\* tagPDFA of the renderers: a document is produced either way.
Tag == /\ stage = "rendered"
       /\ \E r \in {TagPDFA(file)} : file' = r.file /\ pdfa' = r.ok
       /\ stage' = "tagged" /\ UNCHANGED base

\* The recovery sheet is repaired and not tagged; an error withholds it.
RepairSheet == /\ stage = "rendered"
               /\ \E r \in {RepairFPDFFonts(file)} : r.ok /\ file' = r.file
               /\ stage' = "repaired" /\ UNCHANGED <<base, pdfa>>

\* ApplyPAdES: no bytes on failure, so the export ends there.
Sign(result) ==
    /\ stage \in {"tagged", "signed"}
    /\ Cardinality(Cells(file, {"contents"})) < MaxSigs
    /\ \E r \in {InjectPAdESSignature(file, result)} : r.ok /\ file' = r.file
    /\ stage' = "signed" /\ UNCHANGED <<base, pdfa>>

\* The file is handed over, or the export ended with an error.
Finish == /\ stage # "none"
          /\ base' = <<>> /\ file' = <<>> /\ stage' = "none" /\ pdfa' = FALSE

Next == Render \/ Tag \/ RepairSheet \/ Finish
        \/ \E result \in {"fits", "large", "error"} : Sign(result)

Spec == Init /\ [][Next]_vars

-----------------------------------------------------------------------------
(* Properties                                                              *)

\* The offsets of the cross-reference sections, from startxref along /Prev.
Sections(f) ==
    LET sec[n \in 0..Cardinality(Cells(f, {"xref"}))] ==
            IF n = 0 THEN findLastStartxref(f)
            ELSE IF sec[n - 1] = 0 THEN 0
            ELSE f[parseTrailerSizeAndRoot(f, sec[n - 1])].prev
    IN  sec

\* Where a reader finds an object: the first section that lists it.
Resolve(f, id) ==
    LET sec   == Sections(f)
        Lists(n) == sec[n] # 0 /\ f[sec[n] + 1].t = "xref" /\ id \in DOMAIN f[sec[n] + 1].at
        hits  == {n \in DOMAIN sec : Lists(n)}
    IN  IF hits = {} THEN 0 ELSE f[sec[Min(hits)] + 1].at[id] + 1

Classic(f) == Locate(f).ok

Catalog(f) == LET l == Locate(f) IN findObjectBody(f, l.root, l.gen)

Form(f) == LET a == Catalog(f).acro
           IN  IF a.k = "ref" THEN findObjectBody(f, a.ref, 0) ELSE a

\* The stage is one of the code's, and a file is there exactly after a render.
TypeOK == /\ stage \in {"none", "rendered", "tagged", "repaired", "signed"}
          /\ pdfa \in BOOLEAN
          /\ (file = <<>>) = (stage = "none")
          /\ base = <<>> \/ base \in Bases

\* A reader that follows startxref and /Prev finds, for every object, the
\* revision the package itself takes for the latest (findObjectStart), after
\* the header comment moved the old entries and after every update.
ReaderSeesLatest ==
    file # <<>> /\ Classic(file) =>
        \A i \in Cells(file, {"obj", "sighead"}) :
            Resolve(file, file[i].id) = findObjectStart(file, file[i].id, file[i].gen)

\* No update takes an object number another object has, and the last /Size
\* is above every number in use.
NumbersFresh ==
    file # <<>> /\ Classic(file) =>
        \A i, j \in Cells(file, {"obj", "sighead"}) :
            /\ file[i].id = file[j].id => file[i].body.k = file[j].body.k
            /\ file[i].id < Locate(file).size

\* Every embedded signature still covers all bytes of its revision but its
\* own /Contents, with the /ByteRange that is in the file, and the last one
\* reaches the end of the file.
SignaturesVerify ==
    LET S == Cells(file, {"contents"})
    IN  /\ \A c \in S :
             LET r == file[c + 1].range
             IN  /\ r[2] = c - 1 /\ r[3] = c
                 /\ file[c].cms = SubSeq(file, 1, r[2]) \o SubSeq(file, c + 1, c + r[4])
        /\ S # {} => LET c == Max(S) IN c + file[c + 1].range[4] = Len(file)

\* A file never claims PDF/A without its OutputIntent, and the claim is there
\* exactly when TagPDFA reported success (pdfmeta.go:770-774).
ClaimIsComplete ==
    file # <<>> /\ Classic(file) =>
        /\ (Catalog(file).metadata # 0) = pdfa
        /\ (Catalog(file).intents # 0) = pdfa
        /\ pdfa => file[2].t = "comment"

\* Every signature is reachable as a field of the document's AcroForm with
\* both signature flags, and no field the document had is lost.
FieldsKept ==
    stage = "signed" =>
        /\ {1, 2} \subseteq Form(file).flags
        /\ \A i \in Cells(file, {"sighead"}) : \E n \in Form(file).fields :
              /\ n < Locate(file).size
              /\ findObjectStart(file, n, 0) # 0
              /\ findObjectBody(file, n, 0) = [k |-> "field", v |-> file[i].id]
        /\ Catalog(base).acro.k # "none" => Form(base).fields \subseteq Form(file).fields

\* After the repair the three objects of a font agree on its name, no two
\* fonts share one, and a second repair changes nothing.
FontsRepaired ==
    LET T == {i \in Cells(file, {"obj"}) :
                 file[i].body.k = "type0" /\ findObjectStart(file, file[i].id, 0) = i}
    IN  (pdfa \/ stage = "repaired") /\ Classic(file) =>
        /\ \A i \in T :
             LET b == file[i].body
                 c == findObjectBody(file, b.cid, 0)
                 d == findObjectBody(file, c.desc, 0)
             IN  /\ b.name = c.name /\ c.name = d.name
                 /\ findObjectBody(file, b.tounicode, 0).map = "identity"
        /\ \A i, j \in T : i # j => file[i].body.name # file[j].body.name
        /\ stage \in {"tagged", "repaired"} => RepairFPDFFonts(file) = Good(file)

\* The last trailer keeps the identifier of the file that was updated
\* (pdfmeta.go:1135-1136: "a signed PDF/A file must keep the identifier").
IdentifierKept ==
    stage \in {"tagged", "signed"} /\ Classic(file) =>
        LET T == Cells(file, {"trailer"})
        IN  \A i, j \in T : /\ i <= j /\ file[i].ident # 0
                            => file[j].ident = file[i].ident

\* pdfmeta.go:6 calls the updates "spec-conformant": ISO 32000-1 7.5.6 asks a
\* new trailer to repeat the entries of the one before it, /Info among them.
InfoKept ==
    file # <<>> /\ Classic(file) =>
        LET T == Cells(file, {"trailer"}) IN file[Max(T)].info = file[Min(T)].info
=============================================================================
