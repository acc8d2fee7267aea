------------------------------ MODULE FileVerdicts ------------------------------
(***************************************************************************)
(* Files read for what they do when opened (file_scan.py, pdf_scan.py), in *)
(* a process of their own that may fail on all of them (sandbox.py), with  *)
(* what is inside them, and asked after by their hash (file_reputation.py).*)
(***************************************************************************)
EXTENDS LinkVerdicts

\* The limits; where the code's are larger, the bound is of the model.
MAX_DEPTH == 2
MaxChildren == 2
MaxFiles == 2
MaxHashes == 2
Deepest == 3     \* bound: how deep files are put into one another

--------------------------------------------------------------------------------
\* The facts of a file: its type by its first bytes, the last two extensions of
\* its name, what its scan looks for in it, what is packed in it and what is
\* known of its hash.
File(kind, ext, inside) ==
    [kind |-> kind, ext |-> ext, before |-> "none", marks |-> {}, inside |-> inside, urls |-> <<>>, size |-> 1,
     known |-> "unknown", opinion |-> "no_detections", engines |-> 0, asked |-> FALSE]
GoodFiles ==
    [files |-> ("f1" :> [File("pdf", "pdf", <<>>) EXCEPT !.urls = << [GoodLink EXCEPT !.url = "u4"] >>])
               @@ ("f2" :> [File("zip", "zip", <<"f3", "f4">>) EXCEPT !.known = "listed"])
               @@ ("f3" :> File("text", "txt", <<>>)) @@ ("f4" :> File("ole", "doc", <<"f5">>))
               @@ ("f5" :> File("ooxml", "docx", <<"f6">>)) @@ ("f6" :> File("text", "txt", <<>>)),
     attached |-> <<"f1", "f2">>, mb |-> TRUE]

Marks ==
    [pdf |-> {"launch", "exploit", "javascript", "opens", "dropper", "obfuscated", "embedded", "form", "rare", "odd link",
              "one page", "encrypted", "cut"},
     ole |-> {"broken", "encrypted", "auto run", "macros", "macro sheet"},
     ooxml |-> {"broken", "encrypted", "bomb", "auto run", "macros", "macro sheet", "template", "object", "dde", "dde link"},
     zip |-> {"broken", "encrypted", "bomb"}, rtf |-> {"equation", "objects", "update", "template"},
     html |-> {"password", "smuggling", "redirect", "eval"}]
FileKinds == {"pdf", "ole", "ooxml", "zip", "rtf", "html", "lnk", "pe", "script", "iso", "rar", "gzip", "text", "image"}
FileFlaws ==
    [files |-> { [GoodFiles.files EXCEPT !["f1"] = [@ EXCEPT !.kind = k, !.marks = {m}]] :
                     <<k, m>> \in UNION { {k} \X Marks[k] : k \in DOMAIN Marks } }
               \cup { [GoodFiles.files EXCEPT !["f1"].kind = k] : k \in FileKinds }
               \cup { [GoodFiles.files EXCEPT !["f1"].ext = e] : e \in {"exe", "docm", "jpg", "none"} }
               \cup { [GoodFiles.files EXCEPT !["f1"] = [File("html", "exe", <<"f3">>) EXCEPT !.before = "pdf"]],
                      [GoodFiles.files EXCEPT !["f1"].marks = {"rtl", "spaces"}],
                      [GoodFiles.files EXCEPT !["f1"].marks = {"javascript", "opens"}],
                      [GoodFiles.files EXCEPT !["f2"] = File("zip", "zip", <<"f1", "f3", "f4">>)],
                      [GoodFiles.files EXCEPT !["f3"].ext = "exe", !["f4"].marks = {"auto run"}],
                      [GoodFiles.files EXCEPT !["f1"].opinion = "malicious", !["f1"].engines = 3, !["f2"].asked = TRUE],
                      [GoodFiles.files EXCEPT !["f1"].size = 0, !["f3"].known = "listed"] },
     attached |-> { <<>>, <<"f2", "f1">>, <<"f4", "f2">>, <<"f4", "f3", "f2">> }, mb |-> {FALSE}]
FileQuestions == { <<"sandbox", "scan">> } \cup { <<s, f>> : s \in {"abuse.ch", "virustotal"}, f \in DOMAIN GoodFiles.files }

--------------------------------------------------------------------------------
\* What each scan finds, and what it can go into.

Programs == {"pe", "elf", "macho", "lnk", "script"}
_EXECUTABLE_EXT == {"exe", "js", "lnk"}
_RISKY_EXT == {"docm", "html"}
_DOCUMENT_EXT == {"pdf", "doc", "docx", "docm", "txt", "jpg"}
sniff(f) == f.kind
HasMark(f, mark, key, severity) == If(mark \in f.marks, << Item(key, severity) >>)
_name_findings(f) ==
    HasMark(f, "rtl", "file:right to left", "high")
    \o (IF f.ext \in _EXECUTABLE_EXT /\ f.before \in _DOCUMENT_EXT THEN << Item("file:program named like document", "high") >>
        ELSE HasMark(f, "spaces", "file:spaces", "medium"))
    \o (IF f.ext \in _EXECUTABLE_EXT /\ sniff(f) \notin Programs \cup {"iso"} THEN << Item("file:program", "high") >>
        ELSE If(f.ext \in _RISKY_EXT, << Item("file:phishing type", "medium") >>))
    \o (IF f.ext \in _DOCUMENT_EXT /\ sniff(f) \in Programs THEN << Item("file:disguised program", "high") >>
        ELSE If(f.ext \in _DOCUMENT_EXT \ {"docm", "docx"} /\ sniff(f) \in {"html", "zip", "rar", "iso"},
                << Item("file:not what it says", "medium") >>))

pdf_scan_findings(f) ==
    HasMark(f, "launch", "pdf:launch", "high") \o HasMark(f, "exploit", "pdf:exploit", "critical")
    \o HasMark(f, "javascript", "pdf:javascript", IF "opens" \in f.marks THEN "high" ELSE "medium")
    \o HasMark(f, "dropper", "pdf:dropper", "high") \o HasMark(f, "obfuscated", "pdf:obfuscated", "medium")
    \o HasMark(f, "embedded", "pdf:embedded", "medium") \o HasMark(f, "form", "pdf:form", "medium")
    \o HasMark(f, "rare", "pdf:rare", "low") \o HasMark(f, "odd link", "pdf:odd link", "medium")
    \o If("one page" \in f.marks /\ f.urls # <<>>, << Item("pdf:one page", "info") >>)
    \o HasMark(f, "encrypted", "pdf:encrypted", "info")
_vba_findings(f) ==
    IF "auto run" \in f.marks THEN << Item("file:macros that run", "high") >> ELSE HasMark(f, "macros", "file:macros", "medium")
_scan_html(f) ==
    HasMark(f, "password", "html:password", "high") \o HasMark(f, "smuggling", "html:smuggling", "high")
    \o HasMark(f, "redirect", "html:redirect", "medium") \o HasMark(f, "eval", "html:eval", "medium")

\* What was read of a file: how far, what was found, what else is in it.
Scanned(state, findings, inside) == [state |-> state, findings |-> findings, inside |-> inside]
Few(inside) == SubSeq(inside, 1, Min({Len(inside), MaxChildren}))
InDepth(depth, inside) == IF depth < MAX_DEPTH THEN Few(inside) ELSE <<>>
\* The members of what unpacks to too much, or behind a password (where one is,
\* all are), are not read.
_zip_members(f) ==
    CASE "broken" \in f.marks -> Scanned("unmeasured", <<>>, <<>>)
      [] "bomb" \in f.marks -> Scanned("partial", << Item("file:bomb", "medium") >>, <<>>)
      [] "encrypted" \in f.marks -> Scanned("partial", << Item("file:password", "medium") >>, <<>>)
      [] OTHER -> Scanned("scanned", <<>>, f.inside)
_scan_zip(w, f, depth) ==
    LET opened == _zip_members(f)
        program(c) == w.files[c].ext \in _EXECUTABLE_EXT
    IN  Scanned(opened.state,
                opened.findings \o [i \in 1..Len(SelectSeq(opened.inside, program)) |-> Item("file:archived program", "high")],
                InDepth(depth, opened.inside))
\* What is packed into an OLE document is read at any depth.
_scan_ole(f) ==
    CASE "broken" \in f.marks -> Scanned("unmeasured", <<>>, <<>>)
      [] "encrypted" \in f.marks -> Scanned("partial", << Item("file:password", "medium") >>, <<>>)
      [] OTHER -> Scanned("scanned",
                          _vba_findings(f) \o HasMark(f, "macro sheet", "file:macro sheet", "high")
                          \o [i \in 1..Len(Few(f.inside)) |-> Item("file:carries a file", "medium")],
                          Few(f.inside))
_scan_ooxml(f, depth) ==
    LET opened == _zip_members(f)
        members == _vba_findings(f) \o HasMark(f, "macro sheet", "file:macro sheet", "high")
                   \o HasMark(f, "template", "file:template", "high") \o HasMark(f, "object", "file:object", "medium")
                   \o HasMark(f, "dde", "file:dde", "high") \o HasMark(f, "dde link", "file:dde link", "high")
    IN  Scanned(opened.state, opened.findings \o If(opened.state = "scanned", members), InDepth(depth, opened.inside))
_scan_rtf(f, depth) ==
    Scanned("scanned",
            HasMark(f, "equation", "rtf:equation", "critical")
            \o If({"objects", "update"} \cap f.marks # {},
                  << Item("rtf:objects", IF "update" \in f.marks THEN "high" ELSE "medium") >>)
            \o HasMark(f, "template", "file:template", "high"),
            InDepth(depth, f.inside))
_scan_lnk == Scanned("scanned", << Item("file:shortcut", "high") >>, <<>>)

\* The scan of one file, by its type.
file_scan_scan(w, f, depth) ==
    LET kind == sniff(f)
        read ==
            CASE kind = "pdf" -> Scanned(IF {"encrypted", "cut"} \cap f.marks # {} THEN "partial" ELSE "scanned",
                                         pdf_scan_findings(f), InDepth(depth, f.inside))
              [] kind = "ole" -> _scan_ole(f) [] kind = "ooxml" -> _scan_ooxml(f, depth)
              [] kind = "zip" -> _scan_zip(w, f, depth) [] kind = "rtf" -> _scan_rtf(f, depth)
              [] kind = "html" -> Scanned("scanned", _scan_html(f), <<>>) [] kind = "lnk" -> _scan_lnk
              [] kind \in {"pe", "elf", "macho", "script"} -> Scanned("scanned", << Item("file:program", "high") >>, <<>>)
              [] kind = "iso" -> Scanned("scanned", << Item("file:disk image", "high") >>, <<>>)
              [] kind \in {"rar", "7z", "cab"} -> Scanned("unmeasured", << Item("file:not opened", "low") >>, <<>>)
              [] kind = "gzip" -> Scanned("scanned", <<>>, InDepth(depth, f.inside))
              [] kind \in {"text", "image", "unknown"} -> Scanned("scanned", <<>>, <<>>)
    IN  [read EXCEPT !.findings = _name_findings(f) \o @]

--------------------------------------------------------------------------------
\* Files with all that is in them, and what is known of them.

Linking == {"pdf", "ole", "ooxml", "rtf", "html", "text"}
Node(id, depth, read, urls) == [id |-> id, depth |-> depth, state |-> read.state, findings |-> read.findings, urls |-> urls]
flatten(w, id) ==
    LET \* Links are read of what could be read.
        Readable(f, read) == sniff(f) \in Linking /\ (read.state = "scanned" \/ "cut" \in f.marks)
        nodes[d \in 0..Deepest] ==
            [i \in DOMAIN w.files |->
                LET WithInside(f, read) ==
                        << Node(i, d, read, IF Readable(f, read) THEN f.urls ELSE <<>>) >>
                        \o (IF d = Deepest THEN <<>>
                            ELSE FlattenSeq([k \in DOMAIN read.inside |-> nodes[d + 1][read.inside[k]]]))
                IN  WithInside(w.files[i], file_scan_scan(w, w.files[i], d))]
    IN  nodes[0][id]
_unmeasured(id) == << Node(id, 0, Scanned("unmeasured", <<>>, <<>>), <<>>) >>
\* One process reads them all, and what ends it ends it for all.
scan_files(w, S, ids) ==
    FlattenSeq([k \in DOMAIN ids |-> IF <<"sandbox", "scan">> \in S \/ k > MaxFiles THEN _unmeasured(ids[k]) ELSE flatten(w, ids[k])])

_malwarebazaar(w, S, id) == IF <<"abuse.ch", id>> \in S THEN "unmeasured" ELSE w.files[id].known
_virustotal(w, S, id) == IF <<"virustotal", id>> \in S /\ ~w.files[id].asked THEN "unmeasured" ELSE w.files[id].opinion
\* The first so many hashes are asked for.
file_reputation_check(w, S, ids) ==
    LET unique == SelectSeq([i \in DOMAIN ids |-> i], LAMBDA i : \A j \in 1..(i - 1) : ids[j] # ids[i])
        asked == { ids[unique[k]] : k \in {k \in DOMAIN unique : k <= MaxHashes} }
    IN  [malwarebazaar |-> {id \in asked : w.mb /\ _malwarebazaar(w, S, id) = "listed"},
         virustotal |-> {id \in asked : virustotal_state(w) = "on" /\ _virustotal(w, S, id) = "malicious"}]

_file_findings(nodes) ==
    LET Of(node) ==
            [k \in DOMAIN node.findings |-> [node.findings[k] EXCEPT !.of = node.id]]
            \o If(node.state = "unmeasured" /\ node.depth = 0, << ItemOf("attachment:not scanned", node.id, 0, "info") >>)
    IN  FlattenSeq([k \in DOMAIN nodes |-> Of(nodes[k])])
_reputation_findings(w, nodes, reputation) ==
    LET Of(id) ==
            If(id \in reputation.malwarebazaar, << ItemOf("attachment:known malware", id, 0, "critical") >>)
            \o If(id \in reputation.virustotal,
                  << ItemOf("attachment:flagged", id, 0, IF w.files[id].engines >= 3 THEN "critical" ELSE "high") >>)
    IN  FlattenSeq([k \in DOMAIN nodes |-> Of(nodes[k].id)])
_scan_attachments(w, S) ==
    LET Hashed(nodes) == SelectSeq([k \in DOMAIN nodes |-> nodes[k].id], LAMBDA id : w.files[id].size > 0)
        Read(nodes) ==
            [findings |-> _file_findings(nodes)
                          \o _reputation_findings(w, nodes, file_reputation_check(w, S, Hashed(nodes))),
             links |-> FlattenSeq([k \in DOMAIN nodes |-> nodes[k].urls])]
    IN  Read(scan_files(w, S, w.attached))
=============================================================================
