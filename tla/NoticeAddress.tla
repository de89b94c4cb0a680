--------------------------- MODULE NoticeAddress ----------------------------
(***************************************************************************)
(* The address a notice is known by: the boards of the crawler             *)
(* (app/crawler/config.py), the links their list pages give                *)
(* (app/crawler/parsers), the rules that make one address of them          *)
(* (app/crawler/services/url_normalizer.py), and what is made of an        *)
(* address: the notice's id and the key of its label.                      *)
(*                                                                         *)
(* A URL is [scheme, host, dir, file, ext, item, query]: item is a number  *)
(* at the end of the path, or 0, and query is a function from parameter    *)
(* names; "none" stands for what is empty.  The order of the parameters    *)
(* is left out, since every rule writes them in an order of its own.       *)
(***************************************************************************)
EXTENDS Naturals

(***************************************************************************)
(* The boards of NOTICE_BOARDS, in its order.  Four kinds of them differ   *)
(* in more than one field.                                                 *)
(***************************************************************************)

Board(type, scheme, host, dir, file, ext, code) ==
    [type |-> type, scheme |-> scheme, host |-> host, dir |-> dir, file |-> file,
     ext |-> ext, code |-> code]

Official(file, code) ==
    Board("kau_official", "https", "kau.ac.kr", "kaulife", file, "php", code)

\* _college_notice_board: mnu_id is the file's name, the code is bbs_id.
College(mnu, bbs) ==
    Board("kau_college", "http", "college.kau.ac.kr", "web/pages", mnu, "do", bbs)

\* _card_notice_board
Card(scheme, host, code) ==
    Board("kau_card_notice", scheme, host, "pages", "notice", "php", code)

Community(scheme, host, dir, file, code) ==
    Board("kau_community_php", scheme, host, dir, file, "php", code)

UniversityBoards == {
    Official("notice", "s1101"), Official("acdnoti", "s1201"), Official("scholnoti", "s1301"),
    Official("event", "s1401"), Official("bid", "s1601"), Official("covidnoti", "s1701"),
    Official("itnoti", "s1801"),
    Board("kau_career", "https", "career.kau.ac.kr", "ko/community/notice", "none", "none", "none")}

CollegeBoards == {
    College("gc63585b", "0123"), College("gc17891b", "0369"),
    Card("http", "aisw.kau.ac.kr", "s1201"),
    College("gc306b", "0372"), College("gc46051b", "0072"), College("gc87634b", "0088")}

EngineeringBoards == {
    College("gc99647b", "0395"), College("gc5953b", "0392"), College("gc46188b", "0389"),
    College("gc41675b", "0421"), College("gc64016b", "0323"), College("gc30562b", "0283"),
    College("gc46806b", "0096"), College("gc1986b", "0024"), College("gc49194b", "0402"),
    College("gc55157b", "0423"), College("gc13106b", "0101")}

AiConvergenceBoards == {
    Card("https", "ai.kau.ac.kr", "s1401"), College("gc33372b", "0127"),
    Card("https", "sse.kau.ac.kr", "s1401"), Card("https", "com.kau.ac.kr", "s1401"),
    Card("https", "eae.kau.ac.kr", "s1401"), Card("https", "ict.kau.ac.kr", "s1401"),
    College("gc84580b", "0324"), Card("http", "sw.kau.ac.kr", "s1401"),
    College("gc23761b", "0015"), Card("http", "ave.kau.ac.kr", "s1401"),
    College("gc34907b", "0319"), College("gc29417b", "0117")}

ManagementBoards == {
    College("gc10416b", "0386"), College("gc51246b", "0383"), College("gc34408b", "0399"),
    College("gc19393b", "0378"), College("gc61682b", "0003"), College("gc14416b", "0356"),
    College("gc93464b", "0048"), College("gc99805b", "0320"), College("gc25685b", "0056"),
    College("gc60453b", "0124"), College("gc84986b", "0322"), College("gc24251b", "0414")}

CentreBoards == {
    Board("kau_research", "https", "research.kau.ac.kr", "info", "info_011", "php", "s2101"),
    Board("kau_admission", "https", "ibhak.kau.ac.kr", "admission/html/guide", "notice", "asp",
          "BBS0004"),
    Board("kau_ctl", "https", "ctl.kau.ac.kr", "notice", "list", "php", "s1101"),
    Board("kau_library", "https", "lib.kau.ac.kr", "sb", "default_notice_list", "mir", "none"),
    College("gc22052b", "0142"), College("gc65332b", "0230"), College("gc73673b", "0276"),
    Board("kau_ftc", "https", "ftc.kau.ac.kr", "info", "notice_02", "php", "s1102")}

SchoolBoards == {
    Community("http", "fsc.kau.ac.kr", "info", "info_01", "s1101"),
    Community("https", "grad.kau.ac.kr", "community", "notice_02", "s1201"),
    Community("https", "gradbus.kau.ac.kr", "community", "notice_01", "s1101"),
    College("gc80226b", "0226"), College("gc91652b", "0349"), College("gc74927b", "0097"),
    College("gc34619b", "0098"),
    Board("kau_amtc", "http", "amtc.kau.ac.kr", "bbs", "board", "php", "notice"),
    College("gc63977b", "0136"), College("gc11101b", "0120"),
    Board("kau_lms_ubboard", "https", "lms.kau.ac.kr", "mod/ubboard", "view", "php", "55398"),
    Board("kau_asbt", "https", "asbt.kau.ac.kr", "customer", "notice", "php", "notice")}

Boards == UNION {UniversityBoards, CollegeBoards, EngineeringBoards, AiConvergenceBoards,
                 ManagementBoards, CentreBoards, SchoolBoards}

(***************************************************************************)
(* Sites.  The majors' boards once were at ports of ai.kau.ac.kr; a board  *)
(* at http may come to be at https.                                        *)
(***************************************************************************)
Site(b) == [scheme |-> b.scheme, host |-> b.host]

OldSites == [scheme : {"http"}, host : {"ai.kau.ac.kr:8100", "ai.kau.ac.kr:8110",
               "ai.kau.ac.kr:8120", "ai.kau.ac.kr:8130", "ai.kau.ac.kr:8140"}]

HasMoved(b) == b.type = "kau_card_notice" /\ b.scheme = "https"

FormerSites(b) == IF HasMoved(b) THEN OldSites ELSE {}

LaterSites(b, site) ==
    IF site \in OldSites THEN {Site(b)}
    ELSE IF site.scheme = "http" THEN {[site EXCEPT !.scheme = "https"]} ELSE {}

(***************************************************************************)
(* The links to a board's notice no on page p of its list: what the rows   *)
(* of the page give, and what the search for links gives that stands in    *)
(* when the rows have changed.                                             *)
(***************************************************************************)

Url(b, site, file, item, query) ==
    [scheme |-> site.scheme, host |-> site.host, dir |-> b.dir, file |-> file, ext |-> b.ext,
     item |-> item, query |-> query]

\* The links of the sites at which a board is a script: official, research, ctl,
\* ftc, community and card boards.
ReadLinks(b, site, no, p) ==
    {Url(b, site, b.file, 0,
         [code |-> b.code, page |-> p, mode |-> "read", seq |-> no, searchkey |-> "none"])}

CareerLinks(b, site, no, p) ==
    {[Url(b, site, "none", no, [p |-> p]) EXCEPT !.dir = "ko/community/notice/view"]}

\* The board is an API; the parser makes the address.  Each has a siteFlag of its own.
\* The API names the board of each item; here it is the one that was asked for.
CollegeLinks(b, site, no, p) ==
    {Url(b, site, b.file, 0, [siteFlag |-> b.file, mnuId |-> b.file, bbsId |-> b.code,
                              nttId |-> no, bbsFlag |-> "View"])}

\* The number is in an onclick, the page is written into the link.
AdmissionLinks(b, site, no, p) ==
    {Url(b, site, "noticeView", 0, query) :
       query \in {[p_board_id |-> b.code, p_board_idx |-> no, page |-> p],
                  [p_board_id |-> b.code, p_board_idx |-> no, page |-> p, searchkey |-> "none"]}}

LibraryLinks(b, site, no, p) ==
    {Url(b, site, "default_notice_view", 0, query) :
       query \in {[sb_no |-> no], [sb_no |-> no, page_num |-> p]}}

LmsLinks(b, site, no, p) ==
    {Url(b, site, "article", 0, [id |-> b.code, page |-> p, bwid |-> no])}

AmtcLinks(b, site, no, p) ==
    {Url(b, site, b.file, 0, query) :
       query \in {[bo_table |-> b.code, wr_id |-> no],
                  [bo_table |-> b.code, wr_id |-> no, page |-> p]}}

AsbtLinks(b, site, no, p) ==
    {Url(b, site, b.file, 0, [ptype |-> "view", idx |-> no, page |-> p, code |-> b.code])}

\* build_board_adapters: the parser of each type of board.
Links(b, site, no, p) ==
    CASE b.type = "kau_career" -> CareerLinks(b, site, no, p)
      [] b.type = "kau_college" -> CollegeLinks(b, site, no, p)
      [] b.type = "kau_admission" -> AdmissionLinks(b, site, no, p)
      [] b.type = "kau_library" -> LibraryLinks(b, site, no, p)
      [] b.type = "kau_lms_ubboard" -> LmsLinks(b, site, no, p)
      [] b.type = "kau_amtc" -> AmtcLinks(b, site, no, p)
      [] b.type = "kau_asbt" -> AsbtLinks(b, site, no, p)
      [] OTHER -> ReadLinks(b, site, no, p)

(***************************************************************************)
(* canonicalize_original_url: the first rule that fits a URL says which    *)
(* parameters are kept.                                                    *)
(***************************************************************************)
Hosts == {b.host : b \in Boards}
Dirs == {b.dir : b \in Boards}
Files == {b.file : b \in Boards}

Rule(hosts, dirs, files, ext, needs, keeps) ==
    [hosts |-> hosts, dirs |-> dirs, files |-> files, ext |-> ext,
     needs |-> needs, keeps |-> needs \cup keeps]

KaulifeRule == Rule(Hosts, {"kaulife"}, Files, "php", {"mode", "seq"}, {"code"})
CareerRule == Rule({"career.kau.ac.kr"}, {"ko/community/notice/view", "ko/dataroom/data/view"},
                   {"none"}, "none", {}, {})
\* Faulty variant of CollegeRule: nttId is needed but not kept.
CollegeRuleWithoutNotice ==
    [Rule({"college.kau.ac.kr"}, {"web/pages"}, Files, "do", {"bbsId", "nttId"}, {"mnuId"})
       EXCEPT !.keeps = {"bbsId", "mnuId"}]
CollegeRule ==
    Rule({"college.kau.ac.kr"}, {"web/pages"}, Files, "do", {"bbsId", "nttId"}, {"mnuId"})
ResearchRule == Rule({"research.kau.ac.kr"}, {"info"}, Files, "php", {"mode", "seq"}, {"code"})
CtlRule == Rule({"ctl.kau.ac.kr"}, {"notice"}, {"list"}, "php", {"mode", "seq"}, {"code"})
LibraryRule == Rule({"lib.kau.ac.kr"}, {"sb"}, {"default_notice_view"}, "mir", {"sb_no"}, {})
FtcRule == Rule({"ftc.kau.ac.kr"}, {"info"}, Files, "php", {"mode", "seq"}, {"code"})
\* Faulty variant of MajorRule: the new domains of the majors are not in the list.
MajorRuleOfPorts ==
    Rule({"fsc.kau.ac.kr", "grad.kau.ac.kr", "gradbus.kau.ac.kr", "aisw.kau.ac.kr",
          "sw.kau.ac.kr", "ave.kau.ac.kr"} \cup {s.host : s \in OldSites},
         Dirs, Files, "php", {"mode", "seq"}, {"code"})
MajorRule ==
    Rule({"fsc.kau.ac.kr", "grad.kau.ac.kr", "gradbus.kau.ac.kr", "aisw.kau.ac.kr",
          "ai.kau.ac.kr", "com.kau.ac.kr", "eae.kau.ac.kr", "sse.kau.ac.kr", "ict.kau.ac.kr",
          "sw.kau.ac.kr", "ave.kau.ac.kr"} \cup {s.host : s \in OldSites},
         Dirs, Files, "php", {"mode", "seq"}, {"code"})
LmsRule == Rule({"lms.kau.ac.kr"}, {"mod/ubboard"}, {"article"}, "php", {"id", "bwid"}, {})
AsbtRule == Rule({"asbt.kau.ac.kr"}, {"customer"}, {"notice"}, "php", {"ptype", "idx"}, {"code"})
AmtcRule == Rule({"amtc.kau.ac.kr"}, {"bbs"}, {"board"}, "php", {"bo_table", "wr_id"}, {})
AdmissionRule == Rule({"ibhak.kau.ac.kr"}, {"admission/html/guide"}, {"noticeView"}, "asp",
                      {"p_board_id", "p_board_idx"}, {})

Rules == <<KaulifeRule, CareerRule, CollegeRule, ResearchRule, CtlRule, LibraryRule, FtcRule,
           MajorRule, LmsRule, AsbtRule, AmtcRule, AdmissionRule>>

Fits(rule, url) ==
    /\ url.host \in rule.hosts
    /\ url.dir \in rule.dirs
    /\ url.file \in rule.files
    /\ url.ext = rule.ext
    /\ rule.needs \subseteq DOMAIN url.query
    /\ "ptype" \in rule.needs => url.query["ptype"] = "view"

Keep(url, names) ==
    [url EXCEPT !.query = [k \in names \cap DOMAIN url.query |-> url.query[k]]]

FittingRules(url) == {i \in DOMAIN Rules : Fits(Rules[i], url)}
FirstRule(url) == CHOOSE i \in FittingRules(url) : \A j \in FittingRules(url) : i <= j

\* A URL that no rule fits keeps its parameters, sorted.
CanonicalUrl(url) ==
    IF FittingRules(url) = {} THEN url ELSE Keep(url, Rules[FirstRule(url)].keeps)

\* build_notice_id: a hash of the canonical URL.  Hashes that collide are left out.
NoticeId(url) == CanonicalUrl(url)

\* label_url_key: the scheme is dropped.
\* Faulty variant of LabelKey: the scheme stays.
LabelKeyWithScheme(url) == url
LabelKey(url) == [url EXCEPT !.scheme = "none"]
=============================================================================
