------------------------------ MODULE LinkVerdicts ------------------------------
(***************************************************************************)
(* Links judged without being opened (url_check.py): by what they are, by  *)
(* whether they imitate a domain of one's own, and by what threat lists,   *)
(* VirusTotal, the registry, DNS and the blocklists say, any of which may  *)
(* say nothing.  The links of a message are judged by part of this.        *)
(***************************************************************************)
EXTENDS HostVerdicts

\* Bounds, of what are settings or limits of ten and four.
MaxLinks == 2
MaxVtLinks == 1

--------------------------------------------------------------------------------
\* Names, by what stands before the registrable domain, its label, its suffix.
Name(sub, label, suffix) == [sub |-> sub, label |-> label, suffix |-> suffix]
NoName == Name("", "", "")
_org(name) == [name EXCEPT !.sub = ""]

Ours == Name("", "example", "org")
Service == Name("", "mailer", "net")

\* What these do to the labels that occur: the length of a label (7 stands for
\* five and more), its look, how far two are apart, the words one is made of.
Length(label) == IF label \in {"abc", "abd"} THEN 3 ELSE IF label \in {"mine", "mime"} THEN 4 ELSE 7
_skeleton(label) == IF label = "examp1e" THEN "example" ELSE label
_distance(a, b) ==
    IF a = b THEN 0 ELSE IF {a, b} \in { {"example", "exampel"}, {"example", "examp1e"}, {"abc", "abd"}, {"mine", "mime"} } THEN 1 ELSE 2
Words(label) == IF label = "example-login" THEN {"example", "login"} ELSE {label}

\* The own domain a name imitates: of several, one under the same suffix.
lookalike(name, own) ==
    LET reg == _org(name)
        imitated == {mine \in own :
                        /\ Length(mine.label) >= 4
                        /\ \/ reg.label = mine.label \/ _skeleton(reg.label) = _skeleton(mine.label)
                           \/ /\ Length(mine.label) >= 5
                              /\ _distance(reg.label, mine.label) = 1 \/ mine.label \in Words(reg.label)}
        near == {mine \in imitated : mine.suffix = reg.suffix}
    IN  IF name = NoName \/ reg \in own \/ imitated = {} THEN Absent
        ELSE Some(IF near # {} THEN CHOOSE mine \in near : TRUE ELSE CHOOSE mine \in imitated : TRUE)

--------------------------------------------------------------------------------
\* The facts of a link.  `shown` is the name its text shows; `listed` what the
\* threat lists hold of it, `opinion` what VirusTotal holds, `cached` whether it
\* was asked lately.
GoodLink ==
    [url |-> "u1", scheme |-> "https", host |-> Name("www", "mailer", "net"), ip |-> "none", marks |-> {}, shown |-> NoName,
     listed |-> "not_listed", opinion |-> "no_detections", cached |-> FALSE, registration |-> "old", a |-> "public",
     aaaa |-> "none"]
Second == [GoodLink EXCEPT !.url = "u2", !.opinion = "malicious"]
LinkFlaws ==
    [scheme |-> {"http", "javascript", "ftp"}, ip |-> {"public", "private"},
     host |-> { NoName, Name("login", "examp1e", "org"), Name("", "exampel", "net"), Name("", "example-login", "be"),
                Name("", "example", "be"), Name("", "abd", "nl"), Name("", "mime", "eu"), Ours },
     marks |-> { {"user"}, {"mixed"}, {"international"}, {"front"}, {"shortener"}, {"port"}, {"long"}, {"invalid"} },
     shown |-> { Ours, Name("", "mailer", "net") },
     listed |-> {"listed", "host_listed"}, opinion |-> {"malicious", "suspicious", "unknown", "refused"}, cached |-> {TRUE},
     registration |-> {"days", "weeks", "no_date", "not_registered", "not_applicable"}, a |-> {"private", "none", "nxdomain"},
     aaaa |-> {"public"}]
\* The links that are pasted, and what is set up to judge them.
GoodLinks ==
    [links |-> << GoodLink, Second >>, own |-> { Ours, Name("", "abc", "nl"), Name("", "mine", "eu") }, loaded |-> TRUE, vt |-> "on",
     lists |-> Clean, dqs |-> TRUE, threat |-> "none", address |-> TRUE]
LinksFlaws ==
    [links |-> UNION { { << [GoodLink EXCEPT ![f] = v], Second >> : v \in LinkFlaws[f] } : f \in DOMAIN LinkFlaws }
               \cup { << GoodLink, Second, [Second EXCEPT !.url = "u3"] >>, << [GoodLink EXCEPT !.scheme = "javascript"] >> },
     own |-> { {} }, loaded |-> {FALSE}, vt |-> {"off", "no_key"}, lists |-> HostFlaws.lists, dqs |-> {FALSE},
     threat |-> HostFlaws.threat]
LinksQuestions ==
    { <<"virustotal", u>> : u \in {"u1", "u2", "budget"} } \cup { <<"registration", "u1">>, <<"resolve", "A">>, <<"resolve", "AAAA">> }
    \cup { <<"blacklist", l>> : l \in Lists } \cup { <<"alive", l>> : l \in Lists \ {"dbl"} }

--------------------------------------------------------------------------------
\* What is asked of others.

\* Without any list loaded nothing is checked, which is not the same as clean.
check_feeds(w, links) == IF w.loaded THEN Some([u \in {l.url : l \in ToSet(links)} |->
                                                  (CHOOSE l \in ToSet(links) : l.url = u).listed])
                         ELSE Absent

\* Every address once.
Distinct(links) ==
    LET first(i) == \A j \in 1..(i - 1) : links[j].url # links[i].url
        kept == SelectSeq([i \in DOMAIN links |-> i], first)
    IN  [k \in DOMAIN kept |-> links[kept[k]]]

\* One after the other: what was asked lately is known, a refusal ends the
\* asking, and no more are asked than the limit.
check_virustotal(S, links) ==
    LET Answer(acc, state, asked, stop) == [out |-> (acc.next.url :> state) @@ acc.out, asked |-> asked, stop |-> stop]
        Ask(acc, link) ==
            LET at == [next |-> link, out |-> acc.out]
                asked == acc.asked + 1
            IN  IF link.cached THEN Answer(at, link.opinion, acc.asked, acc.stop)
                ELSE IF acc.stop THEN Answer(at, "unmeasured", acc.asked, TRUE)
                ELSE IF acc.asked >= MaxVtLinks THEN Answer(at, "not_checked", acc.asked, FALSE)
                ELSE IF <<"virustotal", "budget">> \in S THEN Answer(at, "unmeasured", acc.asked, TRUE)
                ELSE IF <<"virustotal", link.url>> \in S THEN Answer(at, "unmeasured", asked, FALSE)
                ELSE IF link.opinion = "refused" THEN Answer(at, "unmeasured", asked, TRUE)
                ELSE Answer(at, link.opinion, asked, FALSE)
    IN  FoldLeft(Ask, [out |-> << >>, asked |-> 0, stop |-> FALSE], links).out
virustotal_state(w) == w.vt
Opinion(w, S, links) == IF virustotal_state(w) = "on" THEN check_virustotal(S, links) ELSE << >>

\* The blocklists of an address: the lists by name are not asked.
OfAddress(w, S) == check_blacklist(w, (S \ {<<"blacklist", "A">>}) \cup {<<"blacklist", "dbl">>})

--------------------------------------------------------------------------------
\* One link.

RunsCode(link) == link.scheme \in {"javascript", "data", "vbscript", "file"}
HasHost(link) == ~RunsCode(link) /\ (link.host # NoName \/ link.ip # "none") /\ "invalid" \notin link.marks
inspect(link) ==
    LET Found(key, severity) == << ItemOf(key, link.url, 0, severity) >>
        Marked(mark, key, severity) == If(mark \in link.marks, Found(key, severity))
    IN  IF RunsCode(link) THEN Found("link:runs code", "high")
        ELSE IF link.host = NoName /\ link.ip = "none" THEN Found("link:no host", "info")
        ELSE IF "invalid" \in link.marks THEN Found("link:invalid name", "medium")
        ELSE Marked("user", "link:hidden destination", "high")
             \o (IF link.ip # "none"
                 THEN Found("link:address", "medium") \o If(link.ip = "private", Found("link:private", "info"))
                 ELSE (IF "mixed" \in link.marks THEN Found("link:look-alike characters", "high")
                       ELSE Marked("international", "link:international", "info"))
                      \o Marked("front", "link:name in front", "medium") \o Marked("shortener", "link:shortener", "low"))
             \o If(link.scheme = "http", Found("link:http", "low"))
             \o Marked("port", "link:port", "info") \o Marked("long", "link:long", "info")

\* Both kinds of address are asked for; one that fails leaves nothing known.
resolve(S, link) ==
    CASE <<"resolve", "A">> \in S -> [state |-> "unmeasured", public |-> FALSE]
      [] <<"resolve", "A">> \notin S /\ link.a = "nxdomain" -> [state |-> "nxdomain", public |-> FALSE]
      [] <<"resolve", "A">> \notin S /\ link.a # "nxdomain" ->
             IF <<"resolve", "AAAA">> \in S THEN [state |-> "unmeasured", public |-> FALSE]
             ELSE [state |-> "measured", public |-> "public" \in {link.a, link.aaaa}]
Registered(S, link) == IF <<"registration", link.url>> \in S THEN "unmeasured" ELSE link.registration

_known(w, S, link, feeds, opinions) ==
    LET Found(key, severity) == << ItemOf(key, link.url, 0, severity) >>
        imitated == IF w.own = {} \/ link.ip # "none" THEN Absent ELSE lookalike(link.host, w.own)
        listed == IF feeds = Absent \/ link.url \notin DOMAIN feeds[1] THEN "not_configured" ELSE feeds[1][link.url]
        opinion == IF link.url \in DOMAIN opinions THEN opinions[link.url] ELSE "off"
        registered == IF link.ip = "none" THEN Registered(S, link) ELSE "not_asked"
        dns == IF link.ip = "none" THEN resolve(S, link) ELSE [state |-> "measured", public |-> link.ip = "public"]
        reputation == OfAddress(w, S)
    IN  If(imitated # Absent, Found("link:lookalike", "high"))
        \o If(listed = "listed", Found("link:threat list", "high"))
        \o If(listed = "host_listed", Found("link:host on threat list", "medium"))
        \o If(opinion = "malicious", Found("link:malicious", "high"))
        \o If(opinion = "suspicious", Found("link:suspicious", "medium"))
        \o If(registered = "not_registered", Found("link:not registered", "medium"))
        \o If(registered = "days", Found("link:days old", "high"))
        \o If(registered = "weeks", Found("link:weeks old", "medium"))
        \o If(dns.state = "nxdomain", Found("link:no such host", "info"))
        \o If(dns.public /\ ~reputation.error,
              If(reputation.listed # {}, Found("link:address on blocklist", "medium"))
              \o If(reputation.threat \in {"drop", "other"},
                    Found("link:address on threat list", IF reputation.threat = "drop" THEN "high" ELSE "medium")))

--------------------------------------------------------------------------------
\* The links of a text: the first of them, each judged for itself.

BySeverity(findings) == FlattenSeq([i \in DOMAIN Severities |-> SelectSeq(findings, LAMBDA f : f.sev = Severities[i])])
extract(w) == SubSeq(Distinct(w.links), 1, Min({Len(Distinct(w.links)), MaxLinks}))
url_check_check(w, S) ==
    LET links == extract(w)
        web == SelectSeq(links, LAMBDA l : l.scheme \in {"http", "https"} /\ HasHost(l))
        feeds == IF web = <<>> THEN Some(<< >>) ELSE check_feeds(w, web)
        opinions == IF web = <<>> THEN << >> ELSE Opinion(w, S, web)
        Judged(link) == BySeverity(inspect(link) \o If(HasHost(link), _known(w, S, link, feeds, opinions)))
    IN  FlattenSeq([i \in DOMAIN links |-> Judged(links[i])])
=============================================================================
