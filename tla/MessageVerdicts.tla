----------------------------- MODULE MessageVerdicts -----------------------------
(***************************************************************************)
(* One received message judged (mail_test.py): who sent it and whether SPF,*)
(* DKIM and DMARC let it pass, the server it came from, its header fields, *)
(* what it says, what is attached and where its links go.  Every question  *)
(* this takes may get no answer.                                           *)
(***************************************************************************)
EXTENDS FileVerdicts

MaxSignatures == 2   \* bound, of the ten that are checked

--------------------------------------------------------------------------------
\* The facts.  A hop is a Received line as it was read; `by` took the message
\* from `ip`, which called itself `helo`.
Hop(ip, rdns, helo, by) ==
    [ip |-> ip, rdns |-> rdns, helo |-> helo, kind |-> "name", by |-> by, protocol |-> "ESMTPS", version |-> "TLS 1.3"]
Signature(domain, selector, verifies) == [domain |-> domain, selector |-> selector, sha1 |-> FALSE, verifies |-> verifies]
Key(type, bits) == [type |-> type, bits |-> bits]
NoKey == Key("none", 0)
Policy(p, sp, aspf, adkim) == [p |-> p, sp |-> sp, aspf |-> aspf, adkim |-> adkim]
Pointer(name, back) == [name |-> name, back |-> back]
Receiver == Name("mx", "receiver", "eu")
MailServer == Name("mail", "mailer", "net")
News == Name("news", "example", "org")

\* One that has everything in order; `confirmed` is what the receiver wrote of
\* the signatures, `body` whether there is one, and as it was sent.
GoodMessage ==
    GoodLinks @@ GoodFiles
    @@ [from |-> <<News>>, shown |-> "same", reply |-> {}, messageId |-> TRUE, date |-> "valid", subject |-> TRUE,
        hops |-> << Hop("inside", NoName, Receiver, Receiver), Hop("sender", MailServer, MailServer, Receiver) >>,
        receivedSpf |-> "none", spfHelo |-> NoName, chosen |-> "none", returnPath |-> News, spf |-> "pass",
        signatures |-> << Signature(News, "k1", "yes"), Signature(Service, "k2", "yes") >>,
        keys |-> ("k1" :> Key("rsa", 2048)) @@ ("k2" :> Key("ed25519", 256)), confirmed |-> {}, body |-> "as sent",
        dmarc |-> Absent, orgDmarc |-> Some(Policy("reject", "none", "r", "s")), ptr |-> << Pointer("p1", TRUE) >>,
        html |-> TRUE, text |-> TRUE, images |-> FALSE, bulk |-> "one-click"]
\* One that was forwarded: from elsewhere, with SPF failing and the signature
\* of the service alone.
Forwarded ==
    [GoodMessage EXCEPT !.spf = "softfail", !.signatures = << Signature(Service, "k2", "yes") >>, !.from = <<Ours>>,
                        !.orgDmarc = Some(Policy("quarantine", "", "r", "r"))]
MessageFlaws ==
    [from |-> { <<>>, <<Ours>>, <<Ours, News>>, << Name("", "examp1e", "org") >>, << NoName >> }, shown |-> {"other"},
     reply |-> { {News}, {Service}, { Name("", "exampel", "org") } }, messageId |-> {FALSE}, date |-> {"invalid", "none"},
     subject |-> {FALSE},
     hops |-> { <<>>, << Hop("inside", NoName, Receiver, Receiver) >>,
                << [Hop("sender", NoName, MailServer, Receiver) EXCEPT !.protocol = "SMTP", !.version = "none"] >>,
                << [Hop("sender", NoName, MailServer, Receiver) EXCEPT !.kind = "literal", !.version = "TLS 1.0"] >>,
                << [Hop("sender6", NoName, NoName, Receiver) EXCEPT !.protocol = "none", !.version = "none"] >>,
                << Hop("relay", Receiver, Receiver, Receiver), Hop("sender", MailServer, MailServer, Receiver) >> },
     receivedSpf |-> {"inside", "sender", "elsewhere"}, chosen |-> {"inside", "elsewhere"},
     spfHelo |-> {MailServer}, returnPath |-> { NoName, Service, Ours },
     spf |-> {"pass", "fail", "neutral", "none", "permerror"},
     signatures |-> { <<>>, << Signature(News, "k1", "body") >>, << Signature(NoName, "k1", "yes") >>,
                      << Signature(Ours, "k1", "headers"), Signature(Service, "k2", "headers") >>,
                      << [Signature(Service, "k2", "yes") EXCEPT !.sha1 = TRUE] >>,
                      << Signature(Service, "k2", "yes"), Signature(Service, "k2", "body"), Signature(News, "k1", "yes") >> },
     keys |-> { ("k1" :> k) @@ ("k2" :> k) : k \in { NoKey, Key("rsa", 1024), Key("rsa", 512), Key("rsa", 0) } },
     confirmed |-> { { <<News, "k1">>, <<Service, "any">> } }, body |-> {"none", "re-encoded"},
     dmarc |-> { Some(Policy("none", "", "r", "r")), Some(Policy("reject", "", "s", "s")) },
     orgDmarc |-> { Absent, Some(Policy("none", "", "s", "r")), Some(Policy("none", "reject", "s", "s")) },
     ptr |-> { <<>>, << Pointer("p1", FALSE) >>, << Pointer("p1", TRUE), Pointer("p2", FALSE) >> },
     lists |-> HostFlaws.lists \cup { [Clean EXCEPT !["zen"] = "policy", !["cbl"] = "listed"] },
     dqs |-> {FALSE}, threat |-> HostFlaws.threat, own |-> LinksFlaws.own,
     loaded |-> {FALSE}, vt |-> {"off"}, mb |-> {FALSE}, attached |-> FileFlaws.attached,
     links |-> { <<>> } \cup UNION { { << [GoodLink EXCEPT ![f] = v] >> : v \in LinkFlaws[f] } :
                                    f \in {"host", "ip", "scheme", "shown", "listed", "opinion", "marks"} },
     html |-> {FALSE}, text |-> {FALSE}, images |-> {TRUE}, bulk |-> {"no", "missing", "incomplete"}]
MessageQuestions ==
    { <<"spf", "check">>, <<"dmarc", "from">>, <<"dmarc", "org">>, <<"ptr", "names">>, <<"back", "p1">>, <<"back", "p2">> }
    \cup { <<q, s>> : q \in {"key", "key again"}, s \in {"k1", "k2"} }
    \cup { <<"virustotal", u>> : u \in {"u1", "u2", "budget"} } \cup { <<"sandbox", "scan">>, <<"abuse.ch", "f2">> }
    \cup { <<"blacklist", l>> : l \in Lists } \cup { <<"alive", l>> : l \in Lists \ {"dbl"} }

--------------------------------------------------------------------------------
\* Where the message came from.

Public(ip) == ip \in {"sender", "sender6", "relay", "elsewhere"}
_received_spf(m) == m.receivedSpf
HopName(hop) == IF hop.rdns # NoName THEN hop.rdns ELSE IF hop.kind = "name" THEN hop.helo ELSE NoName
_tls_of(hop) ==
    IF hop.version # "none" \/ hop.protocol = "ESMTPS" THEN "yes" ELSE IF hop.protocol = "none" THEN "unsaid" ELSE "no"
\* The hop the receiver judged, or the newest where it was handed over from one
\* organisation to another; 0 when there is none.
_border(m) ==
    LET judged == {i \in DOMAIN m.hops : m.hops[i].ip # "none" /\ m.hops[i].ip = _received_spf(m)}
        handed == {i \in DOMAIN m.hops : /\ Public(m.hops[i].ip)
                                         /\ \/ HopName(m.hops[i]) = NoName
                                            \/ _org(HopName(m.hops[i])) # _org(m.hops[i].by)}
    IN  IF judged # {} THEN Min(judged) ELSE IF handed # {} THEN Min(handed) ELSE 0
\* An address that is chosen is taken, whether a hop has it or not.
SendingHop(m) ==
    LET chosen == {i \in DOMAIN m.hops : m.hops[i].ip = m.chosen}
        unread == [Hop(m.chosen, NoName, NoName, NoName) EXCEPT !.protocol = "none", !.version = "none"]
    IN  IF m.chosen # "none" THEN Some(IF chosen # {} THEN m.hops[Min(chosen)] ELSE unread)
        ELSE IF _border(m) = 0 THEN Absent ELSE Some(m.hops[_border(m)])
SendingIp(m) == IF SendingHop(m) = Absent THEN "none" ELSE SendingHop(m)[1].ip
\* What the server called itself, or was called in the Received-SPF.
Helo(m) ==
    LET hop == SendingHop(m)
    IN  IF hop # Absent /\ hop[1].helo # NoName THEN hop[1].helo ELSE m.spfHelo

--------------------------------------------------------------------------------
\* Whether it may say what it says of its sender.

_address_domain(m) == IF Len(m.from) = 1 THEN m.from[1] ELSE NoName
_aligned(a, b, mode) == a # NoName /\ b # NoName /\ IF mode = "s" THEN a = b ELSE _org(a) = _org(b)

mail_spf(m, S) ==
    LET Asked(domain, ip) ==
            LET answered == ip # "none" /\ domain # NoName /\ <<"spf", "check">> \notin S
            IN  [domain |-> domain, state |-> IF answered THEN "measured" ELSE "unmeasured",
                 result |-> IF ~answered THEN "none" ELSE IF Public(ip) THEN m.spf ELSE "softfail"]
    IN  Asked(IF m.returnPath # NoName THEN m.returnPath ELSE Helo(m), SendingIp(m))

\* A signature is checked where the whole message is there as it was sent; what
\* fails though the receiver saw it pass is of a message altered since.
_receiver_verified(m, sig) == {<<sig.domain, sig.selector>>, <<sig.domain, "any">>} \cap m.confirmed # {}
_key_bits(key) == key.bits
Judged(m, S, sig) ==
    LET key == m.keys[sig.selector]
        As(state, result, bits) == [domain |-> sig.domain, selector |-> sig.selector, sha1 |-> sig.sha1, type |-> key.type,
                                    state |-> state, result |-> result, bits |-> bits]
        Unmeasured_(bits) == As("unmeasured", "none", bits)
        Failed == As("measured", "fail", _key_bits(key))
    IN  IF sig.domain = NoName THEN As("measured", "fail", 0)
        ELSE IF <<"key", sig.selector>> \in S THEN Unmeasured_(0)
        ELSE IF m.body # "as sent" THEN IF key = NoKey THEN Failed ELSE Unmeasured_(_key_bits(key))
        \* The check asks for the key once more.
        ELSE IF <<"key again", sig.selector>> \in S THEN Unmeasured_(_key_bits(key))
        ELSE IF key = NoKey THEN Failed
        ELSE IF sig.verifies = "yes" /\ key.bits > 0 THEN As("measured", "pass", _key_bits(key))
        ELSE IF _receiver_verified(m, sig) THEN Unmeasured_(_key_bits(key)) ELSE Failed
mail_dkim(m, S) ==
    LET signatures == [i \in 1..Min({Len(m.signatures), MaxSignatures}) |-> Judged(m, S, m.signatures[i])]
    IN  [signatures |-> signatures,
         state |-> IF \A i \in DOMAIN signatures : signatures[i].state = "measured" THEN "measured" ELSE "unmeasured"]

\* The policy of the From domain, else of its organisation.
mail_dmarc_policy(m, S, from) ==
    LET own == IF from = _org(from) THEN m.orgDmarc ELSE m.dmarc
    IN  IF <<"dmarc", "from">> \in S THEN [answered |-> FALSE, tags |-> Absent, of |-> from]
        ELSE IF own # Absent \/ from = _org(from) THEN [answered |-> TRUE, tags |-> own, of |-> from]
        ELSE [answered |-> <<"dmarc", "org">> \notin S, tags |-> m.orgDmarc, of |-> _org(from)]
mail_dmarc(m, S, from, spf, dkim) ==
    LET found == mail_dmarc_policy(m, S, from)
        tags == found.tags[1]
        policy == IF found.of # from /\ tags.sp # "" THEN tags.sp ELSE tags.p
        passing == {s \in ToSet(dkim.signatures) : s.state = "measured" /\ s.result = "pass"}
        aligned == \/ spf.state = "measured" /\ spf.result = "pass" /\ _aligned(spf.domain, from, tags.aspf)
                   \/ \E s \in passing : _aligned(s.domain, from, tags.adkim)
        Unmeasured_ == [state |-> "unmeasured", result |-> "none", policy |-> "none"]
    IN  IF from = NoName \/ ~found.answered THEN Unmeasured_
        ELSE IF found.tags = Absent THEN [state |-> "measured", result |-> "none", policy |-> "none"]
        ELSE IF aligned THEN [state |-> "measured", result |-> "pass", policy |-> policy]
        ELSE IF "unmeasured" \in {spf.state, dkim.state} THEN Unmeasured_
        ELSE [state |-> "measured", result |-> "fail", policy |-> policy]

_auth_findings(from, spf, dkim, dmarc) ==
    LET sigs == dkim.signatures
        OfOne(i) ==
            LET bits == sigs[i].bits
                Found(key, n, severity) == << ItemOf(key, sigs[i].domain.sub \o sigs[i].domain.label, n, severity) >>
            IN  If(sigs[i].state = "measured" /\ sigs[i].result = "fail", Found("mail:dkim fails", 0, "high"))
                \o If(sigs[i].type = "rsa" /\ bits \in 1..2047,
                      Found("mail:dkim key bits", bits, IF bits < 1024 THEN "high" ELSE "low"))
                \o If(sigs[i].sha1, Found("mail:dkim sha-1", 0, "medium"))
        Spf == [fail |-> << Item("mail:spf fails", "high") >>, softfail |-> << Item("mail:spf soft-fails", "medium") >>,
                neutral |-> << Item("mail:spf says nothing", "medium") >>, none |-> << Item("mail:spf says nothing", "medium") >>,
                permerror |-> << Item("mail:spf broken", "high") >>, pass |-> <<>>]
    IN  If(spf.state = "measured", Spf[spf.result])
        \o If(sigs = <<>>, << Item("mail:not signed", "high") >>)
        \o FlattenSeq([i \in DOMAIN sigs |-> OfOne(i)])
        \o If(from # NoName /\ sigs # <<>> /\ ~\E i \in DOMAIN sigs : _aligned(sigs[i].domain, from, "r"),
              << Item("mail:signed by another", "medium") >>)
        \o If(dmarc.state = "measured",
              CASE dmarc.result = "fail" -> << Item("mail:dmarc fails", "high") >>
                [] dmarc.result = "none" -> << Item("mail:no dmarc", "medium") >>
                [] dmarc.result = "pass" -> If(dmarc.policy = "none", << Item("mail:dmarc monitors", "low") >>))

--------------------------------------------------------------------------------
\* The server, the header fields, the content, the links.

\* A name that is not answered is passed over.
_fcrdns(m, S) ==
    LET answered == {p \in ToSet(m.ptr) : <<"back", p.name>> \notin S}
    IN  IF answered = {} THEN "unknown" ELSE IF \E p \in answered : p.back THEN "yes" ELSE "no"
_server(m, S) ==
    LET FromHop(hop, blocklist) ==
             If(<<"ptr", "names">> \notin S,
                IF m.ptr = <<>> THEN << Item("mail:no reverse dns", "medium") >>
                ELSE If(_fcrdns(m, S) = "no", << Item("mail:reverse dns elsewhere", "low") >>))
             \o If(hop.helo # NoName /\ hop.kind # "name", << Item("mail:helo", "low") >>)
             \o (IF _tls_of(hop) = "no" THEN << Item("mail:no tls", "medium") >>
                 ELSE If(hop.version \in {"TLS 1.0", "TLS 1.1"}, << Item("mail:old tls", "medium") >>))
             \o If(hop.ip # "sender6" /\ ~blocklist.error,
                   (IF blocklist.listed # {} THEN << Item("mail:blocklisted", "high") >>
                    ELSE If(blocklist.policy # {}, << Item("mail:end-user address", "medium") >>))
                   \o If(blocklist.threat = "drop", << Item("mail:spamhaus drop", "high") >>)
                   \o If(blocklist.threat = "other", << Item("mail:ip threat list", "medium") >>))
        Sent(hop) == IF hop = Absent THEN <<>> ELSE FromHop(hop[1], OfAddress(m, S))
    IN  Sent(SendingHop(m))

mail_headers(m) ==
    LET from == _address_domain(m)
        replies == {_org(r) : r \in m.reply \ {NoName}}
    IN  (IF Len(m.from) # 1 THEN << Item("mail:from", "high") >> ELSE If(m.shown = "other", << Item("mail:display name", "medium") >>))
        \o If(from # NoName /\ replies # {} /\ replies # {_org(from)}, << Item("mail:reply elsewhere", "info") >>)
        \o If(~m.messageId, << Item("mail:no message-id", "low") >>) \o If(m.date # "valid", << Item("mail:date", "low") >>)
        \o If(~m.subject, << Item("mail:no subject", "low") >>)

_content(m) ==
    LET web == SelectSeq(m.links, LAMBDA l : m.html /\ l.scheme \in {"http", "https"})
        Some_(Bad(_), key, severity) == If(\E l \in ToSet(web) : Bad(l), << Item(key, severity) >>)
        Mismatched(l) == l.shown # NoName /\ (l.ip # "none" \/ (l.host # NoName /\ _org(l.shown) # _org(l.host)))
    IN  [links |-> web,
         findings |->
            If(m.html /\ ~m.text, << Item("content:html only", "low") >>)
            \o If(m.html /\ m.images, << Item("content:images", "low") >>)
            \o Some_(Mismatched, "content:link shows another", "medium")
            \o Some_(LAMBDA l : l.ip # "none", "content:link to address", "medium")
            \o Some_(LAMBDA l : "shortener" \in l.marks, "content:shortener", "low")
            \o Some_(LAMBDA l : l.scheme = "http", "content:http", "low")
            \o If(m.bulk = "missing", << Item("content:no unsubscribe", "medium") >>)
            \o If(m.bulk = "incomplete", << Item("content:unsubscribe not one-click", "medium") >>)]

\* The sender, where replies go and every link, against the own domains; the
\* links against the threat lists and VirusTotal.
_link_checks(m, S, from, replies, links) ==
    LET opinions == Opinion(m, S, Distinct(links))
        feeds == check_feeds(m, links)
        OfLinks(Bad(_), key, severity) == If(\E l \in ToSet(links) : Bad(l), << Item(key, severity) >>)
        Listed(as) == {l.host : l \in {k \in ToSet(links) : feeds # Absent /\ feeds[1][k.url] = as}}
        Flagged(l) == l.url \in DOMAIN opinions /\ opinions[l.url] = "malicious"
        Suspicious(l) == l.url \in DOMAIN opinions /\ opinions[l.url] = "suspicious"
    IN  If(m.own # {} /\ lookalike(from, m.own) # Absent, << Item("mail:sender lookalike", "high") >>)
        \o If(m.own # {} /\ \E r \in replies : lookalike(r, m.own) # Absent, << Item("mail:reply lookalike", "high") >>)
        \o If(links # <<>>,
              OfLinks(LAMBDA l : m.own # {} /\ l.ip = "none" /\ lookalike(l.host, m.own) # Absent, "content:link lookalike", "high")
              \o If(Listed("listed") # {}, << Item("content:link on threat list", "high") >>)
              \o If(Listed("host_listed") \ Listed("listed") # {}, << Item("content:link to listed host", "medium") >>)
              \o OfLinks(Flagged, "content:link malicious", "high") \o OfLinks(Suspicious, "content:link suspicious", "medium"))

--------------------------------------------------------------------------------
\* A message, and a file on its own.

Bodiless == [links |-> <<>>, findings |-> <<>>]
analyse_message(m, S) ==
    LET Report(from, spf, dkim, content, attached) ==
            [findings |-> BySeverity(mail_headers(m) \o _auth_findings(from, spf, dkim, mail_dmarc(m, S, from, spf, dkim))
                                     \o _server(m, S) \o content.findings \o attached.findings
                                     \o _link_checks(m, S, from, m.reply, content.links \o attached.links)),
             learned |-> {<<s.domain, s.selector>> : s \in {k \in ToSet(dkim.signatures) : k.bits > 0 /\ k.domain # NoName}}]
    IN  Report(_address_domain(m), mail_spf(m, S), mail_dkim(m, S), IF m.body = "none" THEN Bodiless ELSE _content(m),
               IF m.body = "none" THEN Bodiless ELSE _scan_attachments(m, S))
analyse_file(m, S) ==
    LET Report(attached) == BySeverity(attached.findings \o _link_checks(m, S, NoName, {}, attached.links))
    IN  Report(_scan_attachments(m, S))
=============================================================================
