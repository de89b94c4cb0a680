------------------------ MODULE NoticeIdentityProofs -------------------------
(***************************************************************************)
(* Proofs about NoticeAddress and NoticeIdentity.                          *)
(*                                                                         *)
(* The first part, about NoticeAddress, holds for every notice number and  *)
(* every page: the canonical form is a normal form, every link to a notice *)
(* of a configured board leads to one address of it, and no two notices    *)
(* share one.  The second part, about NoticeIdentity, holds for every set  *)
(* of notices of the configured boards, every page, title and number of    *)
(* crawls: ids and label keys name one notice each, and a served id is not *)
(* taken away.                                                             *)
(***************************************************************************)
EXTENDS NoticeIdentity, SequenceTheorems, TLAPS

\* A record with the fields of a URL.
IsUrl(u) ==
    u = [scheme |-> u.scheme, host |-> u.host, dir |-> u.dir, file |-> u.file,
         ext |-> u.ext, item |-> u.item, query |-> u.query]

(***************************************************************************)
(* The rules                                                               *)
(***************************************************************************)

LEMMA RuleNumbers == DOMAIN Rules = 1..12
BY DEF Rules

LEMMA NeedsAreKept == \A i \in DOMAIN Rules : Rules[i].needs \subseteq Rules[i].keeps
<1> DEFINE Good(r) == r.needs \subseteq r.keeps
<1>1. /\ Good(KaulifeRule) /\ Good(CareerRule) /\ Good(CollegeRule) /\ Good(ResearchRule)
      /\ Good(CtlRule) /\ Good(LibraryRule) /\ Good(FtcRule) /\ Good(MajorRule)
      /\ Good(LmsRule) /\ Good(AsbtRule) /\ Good(AmtcRule) /\ Good(AdmissionRule)
  BY DEF Rule, KaulifeRule, CareerRule, CollegeRule, ResearchRule, CtlRule, LibraryRule,
         FtcRule, MajorRule, LmsRule, AsbtRule, AmtcRule, AdmissionRule
<1> HIDE DEF Good
<1>2. \A i \in DOMAIN Rules : Good(Rules[i])
  BY <1>1, RuleNumbers DEF Rules
<1> QED
  BY <1>2 DEF Good

\* The first rule that fits: of twelve numbers one is the least.
LEMMA FirstFits ==
  ASSUME NEW url, FittingRules(url) # {}
  PROVE  /\ FirstRule(url) \in FittingRules(url)
         /\ \A j \in FittingRules(url) : FirstRule(url) <= j
<1> DEFINE F == FittingRules(url)
<1>1. F \subseteq 1..12 /\ F # {}
  BY RuleNumbers DEF FittingRules
<1>2. \E i \in F : \A j \in F : i <= j
  <2> HIDE DEF F
  <2> SUFFICES ASSUME \A i \in F : \E j \in F : j < i PROVE FALSE
    BY <1>1
  <2>1. \A i \in 1..3 : i \notin F
    BY <1>1
  <2>2. \A i \in 4..6 : i \notin F
    BY <1>1, <2>1
  <2>3. \A i \in 7..9 : i \notin F
    BY <1>1, <2>1, <2>2
  <2>4. \A i \in 10..12 : i \notin F
    BY <1>1, <2>1, <2>2, <2>3
  <2>5. PICK i : i \in F
    BY <1>1
  <2> QED
    BY <1>1, <2>1, <2>2, <2>3, <2>4, <2>5
<1> QED
  BY <1>2 DEF FirstRule

\* The canonical form of a URL is its own canonical form, so ids and known URLs may be
\* made of stored addresses as well as of links (canonicalize_original_url).
THEOREM CanonicalIdempotent ==
  ASSUME NEW url, IsUrl(url)
  PROVE  CanonicalUrl(CanonicalUrl(url)) = CanonicalUrl(url)
<1>1. CASE FittingRules(url) = {}
  BY <1>1 DEF CanonicalUrl
<1>2. CASE FittingRules(url) # {}
  <2> DEFINE m == FirstRule(url)
             short == Keep(url, Rules[m].keeps)
  <2>1. /\ m \in DOMAIN Rules /\ Fits(Rules[m], url)
        /\ \A j \in FittingRules(url) : m <= j
    BY <1>2, FirstFits DEF FittingRules
  <2>2. /\ DOMAIN short.query = Rules[m].keeps \cap DOMAIN url.query
        /\ short.host = url.host /\ short.dir = url.dir
        /\ short.file = url.file /\ short.ext = url.ext
        /\ IsUrl(short)
        /\ short.query = [k \in Rules[m].keeps \cap DOMAIN url.query |-> url.query[k]]
    BY DEF Keep, IsUrl
  <2> HIDE DEF short
  <2>3. m \in FittingRules(short)
    BY <2>1, <2>2, NeedsAreKept DEF FittingRules, Fits
  <2>4. FittingRules(short) \subseteq FittingRules(url)
    BY <2>2 DEF FittingRules, Fits
  <2>5. FirstRule(short) = m
    <3>1. FirstRule(short) \in FittingRules(short) /\ FirstRule(short) <= m
      BY <2>3, FirstFits
    <3>2. m <= FirstRule(short)
      BY <2>1, <2>4, <3>1
    <3> QED
      BY <2>1, <3>1, <3>2, RuleNumbers DEF FittingRules
  <2>6. Keep(short, Rules[m].keeps) = short
    <3> DEFINE again == [k \in Rules[m].keeps \cap DOMAIN short.query |-> short.query[k]]
    <3>1. again = short.query
      BY <2>2
    <3> HIDE DEF again
    <3>2. [short EXCEPT !.query = again] = short
      BY <2>2, <3>1 DEF IsUrl
    <3> QED
      BY <3>2 DEF Keep, again
  <2>7. CanonicalUrl(url) = short
    BY <1>2 DEF CanonicalUrl, short
  <2> QED
    BY <2>3, <2>5, <2>6, <2>7 DEF CanonicalUrl
<1> QED
  BY <1>1, <1>2
-----------------------------------------------------------------------------
(***************************************************************************)
(* The boards: what their addresses look like                              *)
(***************************************************************************)
OldHosts == {s.host : s \in OldSites}

CardHosts == {"aisw.kau.ac.kr", "ai.kau.ac.kr", "sse.kau.ac.kr", "com.kau.ac.kr",
              "eae.kau.ac.kr", "ict.kau.ac.kr", "sw.kau.ac.kr", "ave.kau.ac.kr"}

CardAt(host) ==
    Card(IF host \in {"aisw.kau.ac.kr", "sw.kau.ac.kr", "ave.kau.ac.kr"}
         THEN "http" ELSE "https",
         host, IF host = "aisw.kau.ac.kr" THEN "s1201" ELSE "s1401")

Communities == {
    Community("http", "fsc.kau.ac.kr", "info", "info_01", "s1101"),
    Community("https", "grad.kau.ac.kr", "community", "notice_02", "s1201"),
    Community("https", "gradbus.kau.ac.kr", "community", "notice_01", "s1101")}

Centres == {
    Board("kau_career", "https", "career.kau.ac.kr", "ko/community/notice", "none", "none", "none"),
    Board("kau_research", "https", "research.kau.ac.kr", "info", "info_011", "php", "s2101"),
    Board("kau_admission", "https", "ibhak.kau.ac.kr", "admission/html/guide", "notice", "asp",
          "BBS0004"),
    Board("kau_ctl", "https", "ctl.kau.ac.kr", "notice", "list", "php", "s1101"),
    Board("kau_library", "https", "lib.kau.ac.kr", "sb", "default_notice_list", "mir", "none"),
    Board("kau_ftc", "https", "ftc.kau.ac.kr", "info", "notice_02", "php", "s1102"),
    Board("kau_amtc", "http", "amtc.kau.ac.kr", "bbs", "board", "php", "notice"),
    Board("kau_lms_ubboard", "https", "lms.kau.ac.kr", "mod/ubboard", "view", "php", "55398"),
    Board("kau_asbt", "https", "asbt.kau.ac.kr", "customer", "notice", "php", "notice")}

IsOfficial(b) == b = Official(b.file, b.code)
IsCollege(b) == b = College(b.file, b.code)
IsCard(b) == b.host \in CardHosts /\ b = CardAt(b.host)

LEMMA Shapes ==
  \A b \in Boards : IsOfficial(b) \/ IsCollege(b) \/ IsCard(b) \/ b \in Communities \cup Centres
<1> DEFINE Shape(b) == \/ IsOfficial(b) \/ IsCollege(b) \/ IsCard(b)
                       \/ b \in Communities \cup Centres
<1>1. \A file, code : Shape(Official(file, code))
  BY DEF IsOfficial, Official, Board
<1>2. \A file, code : Shape(College(file, code))
  BY DEF IsCollege, College, Board
<1>3. \A host \in CardHosts : Shape(CardAt(host))
  BY DEF IsCard, CardAt, Card, Board
<1>4. /\ Card("http", "aisw.kau.ac.kr", "s1201") = CardAt("aisw.kau.ac.kr")
      /\ Card("https", "ai.kau.ac.kr", "s1401") = CardAt("ai.kau.ac.kr")
      /\ Card("https", "sse.kau.ac.kr", "s1401") = CardAt("sse.kau.ac.kr")
      /\ Card("https", "com.kau.ac.kr", "s1401") = CardAt("com.kau.ac.kr")
      /\ Card("https", "eae.kau.ac.kr", "s1401") = CardAt("eae.kau.ac.kr")
      /\ Card("https", "ict.kau.ac.kr", "s1401") = CardAt("ict.kau.ac.kr")
      /\ Card("http", "sw.kau.ac.kr", "s1401") = CardAt("sw.kau.ac.kr")
      /\ Card("http", "ave.kau.ac.kr", "s1401") = CardAt("ave.kau.ac.kr")
  BY DEF CardAt
<1>5. \A b \in Communities \cup Centres : Shape(b)
  OBVIOUS
<1> HIDE DEF Shape
<1>6. /\ \A b \in UniversityBoards : Shape(b)
      /\ \A b \in CentreBoards : Shape(b)
      /\ \A b \in SchoolBoards : Shape(b)
  <2>1. \A b \in UniversityBoards : (\E file, code : b = Official(file, code)) \/ b \in Centres
    BY DEF UniversityBoards, Centres
  <2>2. \A b \in CentreBoards : (\E file, code : b = College(file, code)) \/ b \in Centres
    BY DEF CentreBoards, Centres
  <2>3. \A b \in SchoolBoards :
          (\E file, code : b = College(file, code)) \/ b \in Communities \cup Centres
    BY DEF SchoolBoards, Communities, Centres
  <2> QED
    BY <1>1, <1>2, <1>5, <2>1, <2>2, <2>3
<1>7. /\ \A b \in CollegeBoards : Shape(b)
      /\ \A b \in AiConvergenceBoards : Shape(b)
  BY <1>2, <1>3, <1>4 DEF CollegeBoards, AiConvergenceBoards, CardHosts
<1>8. /\ \A b \in EngineeringBoards : Shape(b)
      /\ \A b \in ManagementBoards : Shape(b)
  BY <1>2 DEF EngineeringBoards, ManagementBoards
<1>9. \A b \in Boards : Shape(b)
  BY <1>6, <1>7, <1>8 DEF Boards
<1> QED
  BY <1>9 DEF Shape

LEMMA BoardHost ==
  \A type, scheme, host, dir, file, ext, code :
      Board(type, scheme, host, dir, file, ext, code).host = host
BY DEF Board

LEMMA CentreHosts ==
  \A b \in Centres : b.host \in {"career.kau.ac.kr", "research.kau.ac.kr", "ibhak.kau.ac.kr",
       "ctl.kau.ac.kr", "lib.kau.ac.kr", "ftc.kau.ac.kr", "amtc.kau.ac.kr", "lms.kau.ac.kr",
       "asbt.kau.ac.kr"}
BY BoardHost DEF Centres

\* The host of a board tells it from the boards of other sites.
LEMMA HostsDiffer ==
  ASSUME NEW b \in Boards, NEW c \in Boards, b.host = c.host
  PROVE  b = c \/ (IsOfficial(b) /\ IsOfficial(c)) \/ (IsCollege(b) /\ IsCollege(c))
<1>1. \A x : IsOfficial(x) => x.host = "kau.ac.kr"
  BY DEF IsOfficial, Official, Board
<1>2. \A x : IsCollege(x) => x.host = "college.kau.ac.kr"
  BY DEF IsCollege, College, Board
<1>3. /\ \A x \in Communities : x.host \in {"fsc.kau.ac.kr", "grad.kau.ac.kr", "gradbus.kau.ac.kr"}
      /\ \A x, y \in Communities : x.host = y.host => x = y
  BY DEF Communities, Community, Board
<1>4. \A x, y \in Centres : x.host = y.host => x = y
  BY BoardHost DEF Centres
<1>5. \A x, y : IsCard(x) /\ IsCard(y) /\ x.host = y.host => x = y
  BY DEF IsCard
<1>6. \A x : IsCard(x) => x.host \in CardHosts
  BY DEF IsCard
<1> QED
  BY <1>1, <1>2, <1>3, <1>4, <1>5, <1>6, Shapes, CentreHosts DEF CardHosts

LEMMA OldHostsAreNoBoards == \A b \in Boards : b.host \notin OldHosts
<1>1. OldHosts \subseteq {"ai.kau.ac.kr:8100", "ai.kau.ac.kr:8110", "ai.kau.ac.kr:8120",
                         "ai.kau.ac.kr:8130", "ai.kau.ac.kr:8140"}
  BY DEF OldHosts, OldSites
<1>2. \A b : IsOfficial(b) => b.host \notin OldHosts
  BY <1>1 DEF IsOfficial, Official, Board
<1>3. \A b : IsCollege(b) => b.host \notin OldHosts
  BY <1>1 DEF IsCollege, College, Board
<1>4. \A b : IsCard(b) => b.host \notin OldHosts
  BY <1>1 DEF IsCard, CardHosts
<1>5. \A b \in Communities : b.host \notin OldHosts
  BY <1>1 DEF Communities, Community, Board
<1>6. \A b \in Centres : b.host \notin OldHosts
  BY <1>1, CentreHosts
<1> QED
  BY <1>2, <1>3, <1>4, <1>5, <1>6, Shapes

-----------------------------------------------------------------------------
(***************************************************************************)
(* The links: what their canonical form is                                 *)
(***************************************************************************)

\* What the rules need and keep.
LEMMA RuleTable ==
  \A i \in DOMAIN Rules : LET r == Rules[i] IN
    \/ r.ext = "php" /\ r.needs = {"mode", "seq"} /\ r.keeps = {"mode", "seq", "code"}
    \/ r.ext = "none" /\ r.needs = {} /\ r.keeps = {}
    \/ r.ext = "do" /\ r.needs = {"bbsId", "nttId"} /\ r.keeps = {"bbsId", "nttId", "mnuId"}
    \/ r.ext = "mir" /\ r.needs = {"sb_no"} /\ r.keeps = {"sb_no"}
    \/ r.ext = "php" /\ r.needs = {"id", "bwid"} /\ r.keeps = {"id", "bwid"}
    \/ r.ext = "php" /\ r.needs = {"ptype", "idx"} /\ r.keeps = {"ptype", "idx", "code"}
    \/ r.ext = "php" /\ r.needs = {"bo_table", "wr_id"} /\ r.keeps = {"bo_table", "wr_id"}
    \/ r.ext = "asp" /\ r.needs = {"p_board_id", "p_board_idx"}
                     /\ r.keeps = {"p_board_id", "p_board_idx"}
<1> DEFINE Row(r, ext, needs, keeps) == r.ext = ext /\ r.needs = needs /\ r.keeps = keeps
<1>1. \A r \in {KaulifeRule, ResearchRule, CtlRule, FtcRule, MajorRule} :
        Row(r, "php", {"mode", "seq"}, {"mode", "seq", "code"})
  BY DEF Rule, KaulifeRule, ResearchRule, CtlRule, FtcRule, MajorRule
<1>2. Row(CareerRule, "none", {}, {})
  BY DEF Rule, CareerRule
<1>3. Row(CollegeRule, "do", {"bbsId", "nttId"}, {"bbsId", "nttId", "mnuId"})
  BY DEF Rule, CollegeRule
<1>4. Row(LibraryRule, "mir", {"sb_no"}, {"sb_no"})
  BY DEF Rule, LibraryRule
<1>5. Row(LmsRule, "php", {"id", "bwid"}, {"id", "bwid"})
  BY DEF Rule, LmsRule
<1>6. Row(AsbtRule, "php", {"ptype", "idx"}, {"ptype", "idx", "code"})
  BY DEF Rule, AsbtRule
<1>7. Row(AmtcRule, "php", {"bo_table", "wr_id"}, {"bo_table", "wr_id"})
  BY DEF Rule, AmtcRule
<1>8. Row(AdmissionRule, "asp", {"p_board_id", "p_board_idx"}, {"p_board_id", "p_board_idx"})
  BY DEF Rule, AdmissionRule
<1> DEFINE Rows == {KaulifeRule, ResearchRule, CtlRule, FtcRule, MajorRule, CareerRule,
                    CollegeRule, LibraryRule, LmsRule, AsbtRule, AmtcRule, AdmissionRule}
<1>9. \A i \in DOMAIN Rules : Rules[i] \in Rows
  BY RuleNumbers DEF Rules
<1> QED
  BY <1>1, <1>2, <1>3, <1>4, <1>5, <1>6, <1>7, <1>8, <1>9

\* If all rules that fit keep the same of a URL, it does not matter which is first.
LEMMA Kept ==
  ASSUME NEW url, IsUrl(url), FittingRules(url) # {}, NEW K,
         \A i \in FittingRules(url) : Rules[i].keeps \cap DOMAIN url.query = K
  PROVE  CanonicalUrl(url)
           = [scheme |-> url.scheme, host |-> url.host, dir |-> url.dir, file |-> url.file,
              ext |-> url.ext, item |-> url.item, query |-> [k \in K |-> url.query[k]]]
<1> DEFINE keeps == Rules[FirstRule(url)].keeps
           short == [k \in keeps \cap DOMAIN url.query |-> url.query[k]]
<1>1. keeps \cap DOMAIN url.query = K
  BY FirstFits
<1>2. CanonicalUrl(url) = [url EXCEPT !.query = short]
  BY DEF CanonicalUrl, Keep
<1>3. short = [k \in K |-> url.query[k]]
  BY <1>1
<1> HIDE DEF short
<1> QED
  BY <1>2, <1>3 DEF IsUrl

\* A site at which board b is or was.
IsSite(b, where) == where.host = b.host \/ (HasMoved(b) /\ where \in OldSites)

\* The one address of notice no of board b at a site.
Address(b, where, no) ==
    LET At(dir, file, item, query) ==
            [scheme |-> where.scheme, host |-> where.host, dir |-> dir, file |-> file,
             ext |-> b.ext, item |-> item, query |-> query]
    IN  CASE b.type = "kau_career" ->
               At("ko/community/notice/view", "none", no, [k \in {} |-> no])
          [] b.type = "kau_college" ->
               At(b.dir, b.file, 0, [bbsId |-> b.code, nttId |-> no, mnuId |-> b.file])
          [] b.type = "kau_admission" ->
               At(b.dir, "noticeView", 0, [p_board_id |-> b.code, p_board_idx |-> no])
          [] b.type = "kau_library" -> At(b.dir, "default_notice_view", 0, [sb_no |-> no])
          [] b.type = "kau_lms_ubboard" -> At(b.dir, "article", 0, [id |-> b.code, bwid |-> no])
          [] b.type = "kau_amtc" -> At(b.dir, b.file, 0, [bo_table |-> b.code, wr_id |-> no])
          [] b.type = "kau_asbt" ->
               At(b.dir, b.file, 0, [ptype |-> "view", idx |-> no, code |-> b.code])
          [] OTHER -> At(b.dir, b.file, 0, [code |-> b.code, mode |-> "read", seq |-> no])

\* Some rule fits the links of the script boards.
LEMMA ReadLinkFits ==
  ASSUME NEW b \in Boards, NEW where, IsSite(b, where), NEW no, NEW p,
         b.type \in {"kau_official", "kau_card_notice", "kau_community_php", "kau_research",
                     "kau_ctl", "kau_ftc"},
         NEW l \in ReadLinks(b, where, no, p)
  PROVE  FittingRules(l) # {}
<1>1. /\ l.host = where.host /\ l.dir = b.dir /\ l.file = b.file /\ l.ext = b.ext
      /\ {"mode", "seq"} \subseteq DOMAIN l.query
  BY DEF ReadLinks, Url
<1>2. b.host \in Hosts /\ b.dir \in Dirs /\ b.file \in Files
  BY DEF Hosts, Dirs, Files
<1>3. \A i \in DOMAIN Rules : Fits(Rules[i], l) => FittingRules(l) # {}
  BY DEF FittingRules
<1>4. CASE IsOfficial(b)
  <2>1. b.host = "kau.ac.kr" /\ b.dir = "kaulife" /\ b.ext = "php" /\ b.type = "kau_official"
    BY <1>4 DEF IsOfficial, Official, Board
  <2>2. Fits(KaulifeRule, l)
    BY <1>1, <1>2, <2>1 DEF Fits, KaulifeRule, Rule, IsSite, HasMoved
  <2> QED
    BY <1>3, <2>2, RuleNumbers DEF Rules
<1>5. CASE IsCard(b)
  <2>1. b.host \in CardHosts /\ b.ext = "php"
    BY <1>5 DEF IsCard, CardAt, Card, Board
  <2>2. Fits(MajorRule, l)
    BY <1>1, <1>2, <2>1 DEF Fits, MajorRule, Rule, IsSite, CardHosts
  <2> QED
    BY <1>3, <2>2, RuleNumbers DEF Rules
<1>6. CASE b \in Communities
  <2>1. /\ b.host \in {"fsc.kau.ac.kr", "grad.kau.ac.kr", "gradbus.kau.ac.kr"}
        /\ b.ext = "php" /\ ~HasMoved(b)
    BY <1>6 DEF Communities, Community, Board, HasMoved
  <2>2. Fits(MajorRule, l)
    BY <1>1, <1>2, <2>1 DEF Fits, MajorRule, Rule, IsSite
  <2> QED
    BY <1>3, <2>2, RuleNumbers DEF Rules
<1>7. CASE b \in Centres
  <2>1. \/ b.type = "kau_research" /\ b.host = "research.kau.ac.kr" /\ b.dir = "info"
        \/ b.type = "kau_ctl" /\ b.host = "ctl.kau.ac.kr" /\ b.dir = "notice" /\ b.file = "list"
        \/ b.type = "kau_ftc" /\ b.host = "ftc.kau.ac.kr" /\ b.dir = "info"
    BY <1>7 DEF Centres, Board
  <2>2. b.ext = "php"
    BY <1>7, <2>1 DEF Centres, Board
  <2>3. Fits(ResearchRule, l) \/ Fits(CtlRule, l) \/ Fits(FtcRule, l)
    BY <1>1, <1>2, <2>1, <2>2 DEF Fits, ResearchRule, CtlRule, FtcRule, Rule, IsSite, HasMoved
  <2> QED
    BY <1>3, <2>3, RuleNumbers DEF Rules
<1>8. ~IsCollege(b)
  BY DEF IsCollege, College, Board
<1> QED
  BY <1>4, <1>5, <1>6, <1>7, <1>8, Shapes

LEMMA ReadLink ==
  ASSUME NEW b \in Boards, NEW where, IsSite(b, where), NEW no, NEW p,
         b.type \in {"kau_official", "kau_card_notice", "kau_community_php", "kau_research",
                     "kau_ctl", "kau_ftc"},
         NEW l \in Links(b, where, no, p)
  PROVE  CanonicalUrl(l) = Address(b, where, no)
<1>1. l \in ReadLinks(b, where, no, p)
  BY DEF Links
<1> DEFINE q == [code |-> b.code, page |-> p, mode |-> "read", seq |-> no, searchkey |-> "none"]
<1>2. /\ IsUrl(l) /\ l.query = q
      /\ l.scheme = where.scheme /\ l.host = where.host
      /\ l.dir = b.dir /\ l.file = b.file /\ l.ext = b.ext /\ l.item = 0
  BY <1>1 DEF ReadLinks, Url, IsUrl
<1>3. b.ext = "php"
  BY Shapes DEF IsOfficial, Official, IsCollege, College, IsCard, CardAt, Card, Communities,
                Community, Centres, Board
<1>4. DOMAIN l.query = {"code", "page", "mode", "seq", "searchkey"}
  BY <1>2
<1>5. \A i \in FittingRules(l) : Rules[i].keeps \cap DOMAIN l.query = {"code", "mode", "seq"}
  BY <1>2, <1>3, <1>4, RuleTable DEF FittingRules, Fits
<1>6. [k \in {"code", "mode", "seq"} |-> l.query[k]]
        = [code |-> b.code, mode |-> "read", seq |-> no]
  BY <1>2
<1> QED
  BY <1>1, <1>2, <1>5, <1>6, ReadLinkFits, Kept DEF Address

LEMMA CollegeLink ==
  ASSUME NEW b \in Boards, NEW where, IsSite(b, where), NEW no, NEW p, b.type = "kau_college",
         NEW l \in Links(b, where, no, p)
  PROVE  CanonicalUrl(l) = Address(b, where, no)
<1> DEFINE q == [siteFlag |-> b.file, mnuId |-> b.file, bbsId |-> b.code, nttId |-> no,
                 bbsFlag |-> "View"]
<1>1. /\ IsUrl(l) /\ l.query = q
      /\ l.scheme = where.scheme /\ l.host = where.host
      /\ l.dir = b.dir /\ l.file = b.file /\ l.ext = b.ext /\ l.item = 0
  BY DEF Links, CollegeLinks, Url, IsUrl
<1>2. b.host = "college.kau.ac.kr" /\ b.dir = "web/pages" /\ b.ext = "do"
  BY Shapes DEF IsOfficial, Official, IsCollege, College, IsCard, CardAt, Card, Communities,
                Community, Centres, Board
<1>3. DOMAIN l.query = {"siteFlag", "mnuId", "bbsId", "nttId", "bbsFlag"}
  BY <1>1
<1>4. Fits(CollegeRule, l)
  BY <1>1, <1>2, <1>3 DEF Fits, CollegeRule, Rule, IsSite, HasMoved, Files
<1>5. FittingRules(l) # {}
  BY <1>4, RuleNumbers DEF FittingRules, Rules
<1>6. \A i \in FittingRules(l) : Rules[i].keeps \cap DOMAIN l.query = {"bbsId", "nttId", "mnuId"}
  BY <1>1, <1>2, <1>3, RuleTable DEF FittingRules, Fits
<1>7. [k \in {"bbsId", "nttId", "mnuId"} |-> l.query[k]]
        = [bbsId |-> b.code, nttId |-> no, mnuId |-> b.file]
  BY <1>1
<1> QED
  BY <1>1, <1>5, <1>6, <1>7, Kept DEF Address

\* The boards with a site of their own, and the rule of each.
LEMMA CentreLink ==
  ASSUME NEW b \in Boards, NEW where, IsSite(b, where), NEW no, NEW p,
         b.type \in {"kau_career", "kau_admission", "kau_library", "kau_lms_ubboard", "kau_amtc",
                     "kau_asbt"},
         NEW l \in Links(b, where, no, p)
  PROVE  CanonicalUrl(l) = Address(b, where, no)
<1>1. b \in Centres /\ where.host = b.host
  BY Shapes DEF IsOfficial, Official, IsCollege, College, IsCard, CardAt, Card, Communities,
                Community, Board, IsSite, HasMoved
<1>2. ASSUME NEW m \in DOMAIN Rules, Fits(Rules[m], l), NEW K,
             \A i \in FittingRules(l) : Rules[i].keeps \cap DOMAIN l.query = K,
             IsUrl(l)
      PROVE  CanonicalUrl(l)
               = [scheme |-> l.scheme, host |-> l.host, dir |-> l.dir, file |-> l.file,
                  ext |-> l.ext, item |-> l.item, query |-> [k \in K |-> l.query[k]]]
  BY <1>2, Kept DEF FittingRules
<1>3. CASE b.type = "kau_career"
  <2>1. /\ IsUrl(l) /\ l.query = [p |-> p]
        /\ l.scheme = where.scheme /\ l.host = where.host
        /\ l.dir = "ko/community/notice/view" /\ l.file = "none" /\ l.ext = b.ext /\ l.item = no
    BY <1>3 DEF Links, CareerLinks, Url, IsUrl
  <2>2. b.host = "career.kau.ac.kr" /\ b.ext = "none"
    BY <1>1, <1>3 DEF Centres, Board
  <2>3. DOMAIN l.query = {"p"}
    BY <2>1
  <2>4. Fits(CareerRule, l) /\ 2 \in DOMAIN Rules /\ Rules[2] = CareerRule
    BY <1>1, <2>1, <2>2, <2>3, RuleNumbers DEF Fits, CareerRule, Rule, Rules
  <2>5. \A i \in FittingRules(l) : Rules[i].keeps \cap DOMAIN l.query = {}
    BY <2>1, <2>2, <2>3, RuleTable DEF FittingRules, Fits
  <2>6. [k \in {} |-> l.query[k]] = [k \in {} |-> no]
    OBVIOUS
  <2> QED
    BY <1>2, <1>3, <2>1, <2>4, <2>5, <2>6 DEF Address
<1>4. CASE b.type = "kau_admission"
  <2>1. /\ IsUrl(l) /\ l.query.p_board_id = b.code /\ l.query.p_board_idx = no
        /\ l.scheme = where.scheme /\ l.host = where.host
        /\ l.dir = b.dir /\ l.file = "noticeView" /\ l.ext = b.ext /\ l.item = 0
        /\ {"p_board_id", "p_board_idx"} \subseteq DOMAIN l.query
    BY <1>4 DEF Links, AdmissionLinks, Url, IsUrl
  <2>2. b.host = "ibhak.kau.ac.kr" /\ b.dir = "admission/html/guide" /\ b.ext = "asp"
    BY <1>1, <1>4 DEF Centres, Board
  <2>4. Fits(AdmissionRule, l) /\ 12 \in DOMAIN Rules /\ Rules[12] = AdmissionRule
    BY <1>1, <2>1, <2>2, RuleNumbers DEF Fits, AdmissionRule, Rule, Rules
  <2>5. \A i \in FittingRules(l) :
          Rules[i].keeps \cap DOMAIN l.query = {"p_board_id", "p_board_idx"}
    BY <2>1, <2>2, RuleTable DEF FittingRules, Fits
  <2>6. [k \in {"p_board_id", "p_board_idx"} |-> l.query[k]]
          = [p_board_id |-> b.code, p_board_idx |-> no]
    BY <2>1
  <2> QED
    BY <1>2, <1>4, <2>1, <2>4, <2>5, <2>6 DEF Address
<1>5. CASE b.type = "kau_library"
  <2>1. /\ IsUrl(l) /\ l.query.sb_no = no
        /\ l.scheme = where.scheme /\ l.host = where.host
        /\ l.dir = b.dir /\ l.file = "default_notice_view" /\ l.ext = b.ext /\ l.item = 0
        /\ "sb_no" \in DOMAIN l.query
    BY <1>5 DEF Links, LibraryLinks, Url, IsUrl
  <2>2. b.host = "lib.kau.ac.kr" /\ b.dir = "sb" /\ b.ext = "mir"
    BY <1>1, <1>5 DEF Centres, Board
  <2>4. Fits(LibraryRule, l) /\ 6 \in DOMAIN Rules /\ Rules[6] = LibraryRule
    BY <1>1, <2>1, <2>2, RuleNumbers DEF Fits, LibraryRule, Rule, Rules
  <2>5. \A i \in FittingRules(l) : Rules[i].keeps \cap DOMAIN l.query = {"sb_no"}
    BY <2>1, <2>2, RuleTable DEF FittingRules, Fits
  <2>6. [k \in {"sb_no"} |-> l.query[k]] = [sb_no |-> no]
    BY <2>1
  <2> QED
    BY <1>2, <1>5, <2>1, <2>4, <2>5, <2>6 DEF Address
<1>6. CASE b.type = "kau_lms_ubboard"
  <2>1. /\ IsUrl(l) /\ l.query = [id |-> b.code, page |-> p, bwid |-> no]
        /\ l.scheme = where.scheme /\ l.host = where.host
        /\ l.dir = b.dir /\ l.file = "article" /\ l.ext = b.ext /\ l.item = 0
    BY <1>6 DEF Links, LmsLinks, Url, IsUrl
  <2>2. b.host = "lms.kau.ac.kr" /\ b.dir = "mod/ubboard" /\ b.ext = "php"
    BY <1>1, <1>6 DEF Centres, Board
  <2>3. DOMAIN l.query = {"id", "page", "bwid"}
    BY <2>1
  <2>4. Fits(LmsRule, l) /\ 9 \in DOMAIN Rules /\ Rules[9] = LmsRule
    BY <1>1, <2>1, <2>2, <2>3, RuleNumbers DEF Fits, LmsRule, Rule, Rules
  <2>5. \A i \in FittingRules(l) : Rules[i].keeps \cap DOMAIN l.query = {"id", "bwid"}
    BY <2>1, <2>2, <2>3, RuleTable DEF FittingRules, Fits
  <2>6. [k \in {"id", "bwid"} |-> l.query[k]] = [id |-> b.code, bwid |-> no]
    BY <2>1
  <2> QED
    BY <1>2, <1>6, <2>1, <2>4, <2>5, <2>6 DEF Address
<1>7. CASE b.type = "kau_amtc"
  <2>1. /\ IsUrl(l) /\ l.query.bo_table = b.code /\ l.query.wr_id = no
        /\ l.scheme = where.scheme /\ l.host = where.host
        /\ l.dir = b.dir /\ l.file = b.file /\ l.ext = b.ext /\ l.item = 0
        /\ DOMAIN l.query \in {{"bo_table", "wr_id"}, {"bo_table", "wr_id", "page"}}
    BY <1>7 DEF Links, AmtcLinks, Url, IsUrl
  <2>2. b.host = "amtc.kau.ac.kr" /\ b.dir = "bbs" /\ b.file = "board" /\ b.ext = "php"
    BY <1>1, <1>7 DEF Centres, Board
  <2>4. Fits(AmtcRule, l) /\ 11 \in DOMAIN Rules /\ Rules[11] = AmtcRule
    BY <1>1, <2>1, <2>2, RuleNumbers DEF Fits, AmtcRule, Rule, Rules
  <2>5. \A i \in FittingRules(l) : Rules[i].keeps \cap DOMAIN l.query = {"bo_table", "wr_id"}
    BY <2>1, <2>2, RuleTable DEF FittingRules, Fits
  <2>6. [k \in {"bo_table", "wr_id"} |-> l.query[k]] = [bo_table |-> b.code, wr_id |-> no]
    BY <2>1
  <2> QED
    BY <1>2, <1>7, <2>1, <2>4, <2>5, <2>6 DEF Address
<1>8. CASE b.type = "kau_asbt"
  <2>1. /\ IsUrl(l) /\ l.query = [ptype |-> "view", idx |-> no, page |-> p, code |-> b.code]
        /\ l.scheme = where.scheme /\ l.host = where.host
        /\ l.dir = b.dir /\ l.file = b.file /\ l.ext = b.ext /\ l.item = 0
    BY <1>8 DEF Links, AsbtLinks, Url, IsUrl
  <2>2. b.host = "asbt.kau.ac.kr" /\ b.dir = "customer" /\ b.file = "notice" /\ b.ext = "php"
    BY <1>1, <1>8 DEF Centres, Board
  <2>3. DOMAIN l.query = {"ptype", "idx", "page", "code"}
    BY <2>1
  <2>4. Fits(AsbtRule, l) /\ 10 \in DOMAIN Rules /\ Rules[10] = AsbtRule
    BY <1>1, <2>1, <2>2, <2>3, RuleNumbers DEF Fits, AsbtRule, Rule, Rules
  <2>5. \A i \in FittingRules(l) : Rules[i].keeps \cap DOMAIN l.query = {"ptype", "idx", "code"}
    BY <2>1, <2>2, <2>3, RuleTable DEF FittingRules, Fits
  <2>6. [k \in {"ptype", "idx", "code"} |-> l.query[k]]
          = [ptype |-> "view", idx |-> no, code |-> b.code]
    BY <2>1
  <2> QED
    BY <1>2, <1>8, <2>1, <2>4, <2>5, <2>6 DEF Address
<1> QED
  BY <1>3, <1>4, <1>5, <1>6, <1>7, <1>8

LEMMA BoardTypes ==
  \A b \in Boards :
      b.type \in {"kau_official", "kau_card_notice", "kau_community_php", "kau_research",
                 "kau_ctl", "kau_ftc", "kau_college", "kau_career", "kau_admission",
                 "kau_library", "kau_lms_ubboard", "kau_amtc", "kau_asbt"}
BY Shapes DEF IsOfficial, Official, IsCollege, College, IsCard, CardAt, Card, Communities,
              Community, Centres, Board

\* Every link to a notice of a configured board, from whatever page, leads to one address.
THEOREM CanonicalLink ==
  ASSUME NEW b \in Boards, NEW where, IsSite(b, where), NEW no, NEW p,
         NEW l \in Links(b, where, no, p)
  PROVE  CanonicalUrl(l) = Address(b, where, no)
BY BoardTypes, ReadLink, CollegeLink, CentreLink

LEMMA AddressFields ==
  ASSUME NEW b, NEW where, NEW no
  PROVE  LET url == Address(b, where, no)
         IN  IsUrl(url) /\ url.scheme = where.scheme /\ url.host = where.host
BY DEF Address, IsUrl

LEMMA LinksAreUrls ==
  ASSUME NEW b, NEW where, NEW no, NEW p, NEW l \in Links(b, where, no, p)
  PROVE  IsUrl(l)
BY DEF Links, CareerLinks, CollegeLinks, AdmissionLinks, LibraryLinks, LmsLinks, AmtcLinks,
       AsbtLinks, ReadLinks, Url, IsUrl

\* The number of a notice can be read off its address.
LEMMA AddressHasNumber ==
  ASSUME NEW b \in Boards, NEW s, NEW t, NEW n, NEW m,
         Address(b, s, n).item = Address(b, t, m).item,
         Address(b, s, n).query = Address(b, t, m).query
  PROVE  n = m
<1>1. CASE b.type \in {"kau_official", "kau_card_notice", "kau_community_php", "kau_research",
                       "kau_ctl", "kau_ftc"}
  <2>1. Address(b, s, n).query.seq = n /\ Address(b, t, m).query.seq = m
    BY <1>1 DEF Address
  <2> QED
    BY <2>1
<1>2. CASE b.type = "kau_college"
  <2>1. Address(b, s, n).query.nttId = n /\ Address(b, t, m).query.nttId = m
    BY <1>2 DEF Address
  <2> QED
    BY <2>1
<1>3. CASE b.type = "kau_career"
  BY <1>3 DEF Address
<1>4. CASE b.type = "kau_admission"
  <2>1. Address(b, s, n).query.p_board_idx = n /\ Address(b, t, m).query.p_board_idx = m
    BY <1>4 DEF Address
  <2> QED
    BY <2>1
<1>5. CASE b.type = "kau_library"
  <2>1. Address(b, s, n).query.sb_no = n /\ Address(b, t, m).query.sb_no = m
    BY <1>5 DEF Address
  <2> QED
    BY <2>1
<1>6. CASE b.type = "kau_lms_ubboard"
  <2>1. Address(b, s, n).query.bwid = n /\ Address(b, t, m).query.bwid = m
    BY <1>6 DEF Address
  <2> QED
    BY <2>1
<1>7. CASE b.type = "kau_amtc"
  <2>1. Address(b, s, n).query.wr_id = n /\ Address(b, t, m).query.wr_id = m
    BY <1>7 DEF Address
  <2> QED
    BY <2>1
<1>8. CASE b.type = "kau_asbt"
  <2>1. Address(b, s, n).query.idx = n /\ Address(b, t, m).query.idx = m
    BY <1>8 DEF Address
  <2> QED
    BY <2>1
<1> QED
  BY <1>1, <1>2, <1>3, <1>4, <1>5, <1>6, <1>7, <1>8, BoardTypes

\* Addresses that agree but for the scheme are of one notice: of one board, unless they
\* are at a site that several boards could have come from.
THEOREM AddressesDiffer ==
  ASSUME NEW b \in Boards, NEW c \in Boards, NEW s, NEW t, NEW n, NEW m,
         IsSite(b, s), IsSite(c, t),
         LabelKey(Address(b, s, n)) = LabelKey(Address(c, t, m))
  PROVE  s.host = t.host /\ n = m /\ (b = c \/ s.host \in OldHosts)
<1> DEFINE x == Address(b, s, n)
           y == Address(c, t, m)
<1>1. IsUrl(x) /\ IsUrl(y) /\ x.host = s.host /\ y.host = t.host
  BY AddressFields
<1>2. /\ LabelKey(x).host = x.host /\ LabelKey(x).file = x.file
      /\ LabelKey(x).item = x.item /\ LabelKey(x).query = x.query
  BY <1>1 DEF LabelKey, IsUrl
<1>3. /\ LabelKey(y).host = y.host /\ LabelKey(y).file = y.file
      /\ LabelKey(y).item = y.item /\ LabelKey(y).query = y.query
  BY <1>1 DEF LabelKey, IsUrl
<1>4. s.host = t.host /\ x.file = y.file /\ x.item = y.item /\ x.query = y.query
  BY <1>1, <1>2, <1>3
<1>5. CASE b = c
  BY <1>4, <1>5, AddressHasNumber
<1>6. CASE s.host \in OldHosts
  <2>1. b.type = "kau_card_notice" /\ c.type = "kau_card_notice"
    BY <1>4, <1>6, OldHostsAreNoBoards DEF IsSite, HasMoved
  <2>2. x.query.seq = n /\ y.query.seq = m
    BY <2>1 DEF Address
  <2> QED
    BY <1>4, <1>6, <2>2
<1>7. CASE s.host \notin OldHosts
  <2>1. b.host = c.host
    BY <1>4, <1>7 DEF IsSite, OldHosts
  <2>2. CASE IsOfficial(b) /\ IsOfficial(c)
    <3>1. b.type = "kau_official" /\ c.type = "kau_official"
      BY <2>2 DEF IsOfficial, Official, Board
    <3>2. x.file = b.file /\ x.query.code = b.code /\ y.file = c.file /\ y.query.code = c.code
      BY <3>1 DEF Address
    <3>3. b = c
      BY <1>4, <2>2, <3>2 DEF IsOfficial
    <3> QED
      BY <1>5, <3>3
  <2>3. CASE IsCollege(b) /\ IsCollege(c)
    <3>1. b.type = "kau_college" /\ c.type = "kau_college"
      BY <2>3 DEF IsCollege, College, Board
    <3>2. x.file = b.file /\ x.query.bbsId = b.code /\ y.file = c.file /\ y.query.bbsId = c.code
      BY <3>1 DEF Address
    <3>3. b = c
      BY <1>4, <2>3, <3>2 DEF IsCollege
    <3> QED
      BY <1>5, <3>3
  <2> QED
    BY <1>5, <2>1, <2>2, <2>3, HostsDiffer
<1> QED
  BY <1>6, <1>7
------------------------------------------------------------------------------
(***************************************************************************)
(* NoticeIdentity                                                          *)
(***************************************************************************)

\* Sites: a site of old ports belongs to one board.
SiteInv ==
    /\ notices \subseteq Boards \X Nat
    /\ DOMAIN site = Open
    /\ \A b \in Open : IsSite(b, site[b]) /\ site[b] = Site(site[b])
    /\ \A b, c \in Open : site[b].host \in OldHosts /\ site[b].host = site[c].host => b = c

\* What was met was met at the address of its notice.
NamedInv ==
    /\ \A x \in named :
         /\ x.notice \in notices
         /\ IsSite(x.notice[1], x.site)
         /\ x.url = Address(x.notice[1], x.site, x.notice[2])
    /\ \A x \in named : \A b \in Open :
         x.site.host \in OldHosts /\ site[b].host = x.site.host => b = x.notice[1]
    /\ \A x, y \in named :
         x.site.host \in OldHosts /\ x.site.host = y.site.host => x.notice[1] = y.notice[1]

NamesInv == SiteInv /\ NamedInv

LEMMA NamesInit == Init => NamesInv
<1> SUFFICES ASSUME Init PROVE NamesInv
  OBVIOUS
<1>1. notices \subseteq Boards \X Nat
  BY IdentityAssumption DEF Init
<1>2. \A b \in Open : b \in Boards
  BY <1>1 DEF Open
<1>3. \A b \in Open : IsSite(b, site[b]) /\ site[b] = Site(site[b])
  BY DEF Init, IsSite, Site, FormerSites, OldSites
<1>4. ASSUME NEW b \in Open, NEW c \in Open,
             site[b].host \in OldHosts, site[b].host = site[c].host
      PROVE  b = c
  <2>1. site[b] \in OldSites /\ site[c] \in OldSites
    BY <1>2, <1>3, <1>4, OldHostsAreNoBoards DEF IsSite
  <2>2. site[b] = site[c]
    BY <1>4, <2>1 DEF OldSites
  <2> QED
    BY <2>1, <2>2 DEF Init
<1> QED
  BY <1>1, <1>3, <1>4 DEF NamesInv, SiteInv, NamedInv, Init

LEMMA NamesStep == NamesInv /\ [Next]_vars => NamesInv'
<1> SUFFICES ASSUME NamesInv, [Next]_vars PROVE NamesInv'
  OBVIOUS
<1> USE DEF NamesInv
<1>1. ASSUME NEW n \in notices, NEW p \in Pages, Meet(n, p) PROVE NamesInv'
  <2>1. PICK link \in Links(n[1], site[n[1]], n[2], p) :
             named' = named \cup {[notice |-> n, site |-> site[n[1]],
                                   url |-> CanonicalUrl(link)]}
    BY <1>1 DEF Meet
  <2> DEFINE new == [notice |-> n, site |-> site[n[1]], url |-> CanonicalUrl(link)]
  <2>2. UNCHANGED <<notices, title, site, retitles, Open>>
    BY <1>1 DEF Meet, Open
  <2>3. n[1] \in Open /\ n[1] \in Boards /\ IsSite(n[1], site[n[1]])
    BY DEF SiteInv, Open
  <2>4. /\ new.notice = n /\ new.site = site[n[1]]
        /\ new.url = Address(n[1], site[n[1]], n[2])
    BY <2>3, CanonicalLink
  <2> HIDE DEF new
  <2>5. SiteInv'
    BY <2>2 DEF SiteInv
  <2>6. named' = named \cup {new}
    BY <2>1 DEF new
  <2>7. /\ \A b \in Open : new.site.host \in OldHosts /\ site[b].host = new.site.host => b = n[1]
        /\ \A x \in named : /\ x.site.host \in OldHosts /\ new.site.host = x.site.host
                            => x.notice[1] = n[1]
    BY <2>3, <2>4 DEF SiteInv, NamedInv
  <2>8. NamedInv'
    BY <2>2, <2>3, <2>4, <2>6, <2>7 DEF NamedInv
  <2> QED
    BY <2>5, <2>8
<1>2. ASSUME NEW b \in Open, NEW to \in LaterSites(b, site[b]), Move(b, to) PROVE NamesInv'
  <2>1. UNCHANGED <<notices, named, Open>> /\ site' = [site EXCEPT ![b] = to]
    BY <1>2 DEF Move, Open
  <2>2. b \in Boards
    BY DEF SiteInv, Open
  <2>3. to.host = b.host /\ to = Site(to)
    BY <1>2 DEF LaterSites, Site, SiteInv, IsSite
  <2>4. to.host \notin OldHosts
    BY <2>2, <2>3, OldHostsAreNoBoards
  <2>5. \A c \in Open : site'[c] = IF c = b THEN to ELSE site[c]
    BY <2>1 DEF SiteInv
  <2>6. SiteInv'
    BY <2>1, <2>3, <2>4, <2>5 DEF SiteInv, IsSite
  <2>7. NamedInv'
    BY <2>1, <2>4, <2>5 DEF NamedInv
  <2> QED
    BY <2>6, <2>7
<1>3. CASE UNCHANGED <<notices, site, named>>
  BY <1>3 DEF SiteInv, NamedInv, Open
<1>4. ASSUME NEW n \in notices, NEW t \in Titles, Retitle(n, t)
      PROVE  UNCHANGED <<notices, site, named>>
  BY <1>4 DEF Retitle
<1>5. ASSUME NEW i \in DOMAIN posts, Prune(i) PROVE UNCHANGED <<notices, site, named>>
  BY <1>5 DEF Prune
<1>6. ASSUME NEW i \in DOMAIN posts, NEW n \in notices, Reread(i, n)
      PROVE  UNCHANGED <<notices, site, named>>
  BY <1>6 DEF Reread
<1>7. CASE UNCHANGED vars
  BY <1>3, <1>7 DEF vars
<1> QED
  BY <1>1, <1>2, <1>3, <1>4, <1>5, <1>6, <1>7 DEF Next

\* Everything met is at the address of its notice, and a site of old ports belongs to one
\* board (_normalize_page_items, NOTICE_BOARDS).
THEOREM Names == Spec => []NamesInv
BY NamesInit, NamesStep, PTL DEF Spec

LEMMA AddressKey ==
  ASSUME NEW b, NEW s, NEW t, NEW n, s.host = t.host
  PROVE  LabelKey(Address(b, s, n)) = LabelKey(Address(b, t, n))
<1> DEFINE x == Address(b, s, n)
           y == Address(b, t, n)
<1>1. /\ x.dir = y.dir /\ x.file = y.file /\ x.ext = y.ext /\ x.item = y.item
      /\ x.query = y.query
  BY DEF Address
<1>2. IsUrl(x) /\ IsUrl(y) /\ x.host = y.host
  BY AddressFields
<1> HIDE DEF x, y
<1>3. LabelKey(x) = LabelKey(y)
  BY <1>1, <1>2 DEF LabelKey, IsUrl
<1> QED
  BY <1>3 DEF x, y

\* Addresses that were met agree but for the scheme exactly if they are of one notice at
\* one host.
LEMMA KeysOfNamed ==
  ASSUME NamesInv, NEW x \in named, NEW y \in named
  PROVE  LabelKey(x.url) = LabelKey(y.url)
           <=> x.notice = y.notice /\ x.site.host = y.site.host
<1> DEFINE b == x.notice[1]
           c == y.notice[1]
<1>1. /\ b \in Boards /\ IsSite(b, x.site) /\ x.url = Address(b, x.site, x.notice[2])
      /\ c \in Boards /\ IsSite(c, y.site) /\ y.url = Address(c, y.site, y.notice[2])
      /\ x.notice = <<b, x.notice[2]>> /\ y.notice = <<c, y.notice[2]>>
  BY DEF NamesInv, SiteInv, NamedInv
<1>2. ASSUME LabelKey(x.url) = LabelKey(y.url)
      PROVE  x.notice = y.notice /\ x.site.host = y.site.host
  <2>1. /\ x.site.host = y.site.host /\ x.notice[2] = y.notice[2]
        /\ b = c \/ x.site.host \in OldHosts
    BY <1>1, <1>2, AddressesDiffer
  <2>2. b = c
    BY <2>1 DEF NamesInv, NamedInv
  <2> QED
    BY <1>1, <2>1, <2>2
<1>3. ASSUME x.notice = y.notice, x.site.host = y.site.host
      PROVE  LabelKey(x.url) = LabelKey(y.url)
  BY <1>1, <1>3, AddressKey
<1> QED
  BY <1>2, <1>3

\* A label is found at every address of its notice at one host, and at no other notice
\* (label_url_key).
THEOREM LabelsFollow == Spec => []LabelsFollowNotices
<1>1. NamesInv => LabelsFollowNotices
  BY KeysOfNamed DEF LabelsFollowNotices
<1> QED
  BY <1>1, Names, PTL

LEMMA IdsOfNamed ==
  ASSUME NamesInv, NEW x \in named
  PROVE  NoticeId(x.url) = x.url
<1> DEFINE b == x.notice[1]
<1>1. b \in Boards /\ IsSite(b, x.site) /\ x.url = Address(b, x.site, x.notice[2])
  BY DEF NamesInv, SiteInv, NamedInv
<1>2. PICK l : l \in Links(b, x.site, x.notice[2], 1)
  BY DEF Links, CareerLinks, CollegeLinks, AdmissionLinks, LibraryLinks, LmsLinks, AmtcLinks,
         AsbtLinks, ReadLinks
<1>3. CanonicalUrl(l) = x.url /\ IsUrl(l)
  BY <1>1, <1>2, CanonicalLink, LinksAreUrls
<1> QED
  BY <1>3, CanonicalIdempotent DEF NoticeId

\* An id names one notice, at old and new addresses (canonicalize_original_url,
\* build_notice_id).
THEOREM IdsName == Spec => []IdsNameOneNotice
<1>1. ASSUME NamesInv, NEW x \in named, NEW y \in named, NoticeId(x.url) = NoticeId(y.url)
      PROVE  x.notice = y.notice
  BY <1>1, IdsOfNamed, KeysOfNamed
<1>2. NamesInv => IdsNameOneNotice
  BY <1>1 DEF IdsNameOneNotice
<1> QED
  BY <1>2, Names, PTL

\* While its site stays, a notice has one address on every page and from every link.
THEOREM OneAddress == Spec => []NoticesHaveOneAddress
<1>1. NamesInv => NoticesHaveOneAddress
  BY DEF NamesInv, NamedInv, NoticesHaveOneAddress
<1> QED
  BY <1>1, Names, PTL

-----------------------------------------------------------------------------
(***************************************************************************)
(* The published list                                                      *)
(***************************************************************************)
Met == {x.url : x \in named}
Post == [title : Titles, url : Met, sources : SUBSET Met]
ListInv == title \in [notices -> Titles] /\ posts \in Seq(Post)

LEMMA RemoveAtSeq ==
  ASSUME NEW S, NEW list \in Seq(S), NEW i \in DOMAIN list
  PROVE  RemoveAt(list, i) \in Seq(S) /\ Len(RemoveAt(list, i)) = Len(list) - 1
<1>1. i \in 1..Len(list) /\ Len(list) \in Nat
  OBVIOUS
<1>2. SubSeq(list, 1, i - 1) \in Seq(S) /\ Len(SubSeq(list, 1, i - 1)) = i - 1
  BY <1>1, SubSeqProperties
<1>3. /\ SubSeq(list, i + 1, Len(list)) \in Seq(S)
      /\ Len(SubSeq(list, i + 1, Len(list))) = Len(list) - i
  BY <1>1, SubSeqProperties
<1> DEFINE left == SubSeq(list, 1, i - 1)
           right == SubSeq(list, i + 1, Len(list))
<1> HIDE DEF left, right
<1>4. left \o right \in Seq(S) /\ Len(left \o right) = Len(left) + Len(right)
  BY <1>2, <1>3, ConcatProperties DEF left, right
<1>5. Len(left \o right) = Len(list) - 1
  BY <1>1, <1>2, <1>3, <1>4 DEF left, right
<1> QED
  BY <1>4, <1>5 DEF RemoveAt, left, right

\* Merging a notice in keeps the posts and their addresses.
LEMMA MergedKeeps ==
  ASSUME NEW M, NEW list \in Seq([title : Titles, url : M, sources : SUBSET M]),
         NEW t \in Titles, NEW url \in M
  PROVE  /\ Merged(list, t, url) \in Seq([title : Titles, url : M, sources : SUBSET M])
         /\ Ids(list) \subseteq Ids(Merged(list, t, url))
<1> DEFINE P == [title : Titles, url : M, sources : SUBSET M]
           new == [title |-> t, url |-> url, sources |-> {}]
           merged == [i \in DOMAIN list |->
                        IF list[i].title = t THEN Merge(list[i], url) ELSE list[i]]
<1>1. new \in P
  OBVIOUS
<1>2. /\ Append(list, new) \in Seq(P)
      /\ \A i \in DOMAIN list : i \in DOMAIN Append(list, new) /\ Append(list, new)[i] = list[i]
  BY <1>1, AppendProperties
<1>3. \A i \in DOMAIN list : list[i] \in P
  <2>1. list \in Seq(P)
    OBVIOUS
  <2> HIDE DEF P
  <2> QED
    BY <2>1
<1>4. \A i \in DOMAIN list : Merge(list[i], url) \in P /\ Merge(list[i], url).url = list[i].url
  BY <1>3 DEF Merge
<1>5. \A i \in DOMAIN list : merged[i] \in P /\ merged[i].url = list[i].url
  BY <1>3, <1>4
<1>6. DOMAIN merged = 1..Len(list) /\ Len(list) \in Nat
  OBVIOUS
<1> HIDE DEF P, new, merged
<1>7. merged \in Seq(P)
  <2>1. merged \in [1..Len(list) -> P]
    BY <1>5, <1>6 DEF merged
  <2> QED
    BY <1>6, <2>1, IsASeq
<1>8. Merged(list, t, url) = Append(list, new) \/ Merged(list, t, url) = merged
  BY DEF Merged, new, merged
<1>9. Ids(list) \subseteq Ids(Append(list, new)) /\ Ids(list) \subseteq Ids(merged)
  BY <1>2, <1>5, <1>6 DEF Ids
<1> QED
  BY <1>2, <1>7, <1>8, <1>9 DEF P

LEMMA ListInit == Init => ListInv
BY EmptySeq DEF Init, ListInv

IdsKept == Len(posts') >= Len(posts) => Ids(posts) \subseteq Ids(posts')

LEMMA ListStep == ListInv /\ [Next]_vars => ListInv' /\ IdsKept
<1> SUFFICES ASSUME ListInv, [Next]_vars PROVE ListInv' /\ IdsKept
  OBVIOUS
<1>1. ASSUME NEW n \in notices, NEW p \in Pages, Meet(n, p) PROVE ListInv' /\ IdsKept
  <2>1. PICK link \in Links(n[1], site[n[1]], n[2], p) :
             LET url == CanonicalUrl(link)
             IN  /\ named' = named \cup {[notice |-> n, site |-> site[n[1]], url |-> url]}
                 /\ posts' = IF url \in Known THEN posts ELSE Merged(posts, title[n], url)
    BY <1>1 DEF Meet
  <2> DEFINE url == CanonicalUrl(link)
  <2>2. url \in Met' /\ Met \subseteq Met'
    <3> DEFINE new == [notice |-> n, site |-> site[n[1]], url |-> url]
    <3>1. new.url = url /\ named' = named \cup {new}
      BY <2>1
    <3> HIDE DEF new, url
    <3> QED
      BY <3>1 DEF Met
  <2>3. Post \subseteq Post'
    BY <2>2 DEF Post
  <2>4. posts \in Seq(Post')
    BY <2>3, SeqMonotonic DEF ListInv
  <2>5. title[n] \in Titles /\ title' = title /\ notices' = notices
    BY <1>1 DEF ListInv, Meet
  <2> HIDE DEF url
  <2>6. posts' = posts \/ posts' = Merged(posts, title[n], url)
    BY <2>1 DEF url
  <2>7. posts' \in Seq(Post') /\ Ids(posts) \subseteq Ids(posts')
    <3> DEFINE M == Met'
    <3>1. Post' = [title : Titles, url : M, sources : SUBSET M]
      BY DEF Post
    <3>2. url \in M /\ posts \in Seq([title : Titles, url : M, sources : SUBSET M])
      BY <2>2, <2>4, <3>1
    <3> HIDE DEF M
    <3>3. /\ Merged(posts, title[n], url) \in Seq([title : Titles, url : M, sources : SUBSET M])
          /\ Ids(posts) \subseteq Ids(Merged(posts, title[n], url))
      BY <2>5, <3>2, MergedKeeps
    <3> QED
      BY <2>4, <2>6, <3>1, <3>3
  <2> QED
    BY <2>5, <2>7 DEF ListInv, IdsKept
<1>2. ASSUME NEW i \in DOMAIN posts, NEW n \in notices, Reread(i, n) PROVE ListInv' /\ IdsKept
  <2> DEFINE retitled == [posts EXCEPT ![i].title = title[n]]
  <2>1. title[n] \in Titles /\ Met' = Met /\ Post' = Post /\ UNCHANGED <<title, notices>>
    BY <1>2 DEF ListInv, Reread, Met, Post
  <2>2. \A j \in DOMAIN posts : posts[j] \in Post
    BY DEF ListInv
  <2>3. [posts[i] EXCEPT !.title = title[n]] \in Post
    BY <2>1, <2>2 DEF Post
  <2>4. /\ retitled \in Seq(Post) /\ Len(retitled) = Len(posts) /\ DOMAIN retitled = DOMAIN posts
        /\ \A j \in DOMAIN posts : retitled[j].url = posts[j].url
    BY <2>2, <2>3, ExceptSeq DEF ListInv, Post
  <2>5. CASE Titled(posts, title[n]) = {}
    <3>1. posts' = retitled
      BY <1>2, <2>5 DEF Reread
    <3> HIDE DEF retitled
    <3> QED
      BY <2>1, <2>4, <3>1 DEF ListInv, IdsKept, Ids
  <2>6. CASE Titled(posts, title[n]) # {}
    <3>1. PICK j \in Titled(posts, title[n]) :
               LET first == IF i < j THEN i ELSE j
                   last == IF i < j THEN j ELSE i
               IN  posts' = RemoveAt([retitled EXCEPT ![first] = Merge(@, posts[last].url)], last)
      BY <1>2, <2>6 DEF Reread
    <3> DEFINE first == IF i < j THEN i ELSE j
               last == IF i < j THEN j ELSE i
               merged == [retitled EXCEPT ![first] = Merge(@, posts[last].url)]
    <3>2. first \in DOMAIN posts /\ last \in DOMAIN posts
      BY DEF Titled
    <3> HIDE DEF retitled, first, last
    <3>3. retitled[first] \in Post /\ posts[last].url \in Met
      <4>1. retitled[first] \in Post /\ posts[last] \in Post
        BY <2>2, <2>4, <3>2
      <4> QED
        BY <4>1 DEF Post
    <3>4. Merge(retitled[first], posts[last].url) \in Post
      BY <3>3 DEF Merge, Post
    <3>5. merged \in Seq(Post) /\ Len(merged) = Len(posts) /\ DOMAIN merged = DOMAIN posts
      BY <2>4, <3>2, <3>4, ExceptSeq
    <3>6. posts' = RemoveAt(merged, last)
      BY <3>1 DEF first, last
    <3>7. posts' \in Seq(Post) /\ Len(posts') = Len(posts) - 1
      BY <3>2, <3>5, <3>6, RemoveAtSeq
    <3>8. Len(posts) \in Nat
      BY DEF ListInv
    <3> QED
      BY <2>1, <3>7, <3>8 DEF ListInv, IdsKept
  <2> QED
    BY <2>5, <2>6
<1>3. ASSUME NEW i \in DOMAIN posts, Prune(i) PROVE ListInv' /\ IdsKept
  <2>1. posts' = RemoveAt(posts, i) /\ UNCHANGED <<title, notices, Post>>
    BY <1>3 DEF Prune, Post, Met
  <2>2. posts' \in Seq(Post) /\ Len(posts') = Len(posts) - 1 /\ Len(posts) \in Nat
    BY <2>1, RemoveAtSeq DEF ListInv
  <2> QED
    BY <2>1, <2>2 DEF ListInv, IdsKept
<1>4. ASSUME NEW n \in notices, NEW t \in Titles, Retitle(n, t) PROVE ListInv' /\ IdsKept
  BY <1>4 DEF Retitle, ListInv, IdsKept, Post, Met
<1>5. ASSUME NEW b \in Open, NEW to \in LaterSites(b, site[b]), Move(b, to)
      PROVE  ListInv' /\ IdsKept
  BY <1>5 DEF Move, ListInv, IdsKept, Post, Met
<1>6. CASE UNCHANGED vars
  BY <1>6 DEF vars, ListInv, IdsKept, Post, Met
<1> QED
  BY <1>1, <1>2, <1>3, <1>4, <1>5, <1>6 DEF Next

\* A served id goes only with a post that is pruned or merged into an earlier one
\* (_merge_title_duplicate, prune_stale_posts).
THEOREM IdsStay == Spec => IdsStayWhileListed
<1>1. ListInv /\ [Next]_vars => [Len(posts') >= Len(posts) => Ids(posts) \subseteq Ids(posts')]_vars
  BY ListStep DEF IdsKept
<1> QED
  BY <1>1, ListInit, ListStep, PTL DEF Spec, IdsStayWhileListed
=============================================================================
