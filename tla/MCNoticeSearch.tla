---------------------------- MODULE MCNoticeSearch ----------------------------
(***************************************************************************)
(* Six notices of four boards: the official one, two of departments and    *)
(* one of a graduate school.  The second notice is merged from two of      *)
(* them, the third is a 30th of February, the last one has no date.        *)
(***************************************************************************)
EXTENDS NoticeSearch

MCSources == {"home", "ai", "aero", "grad"}
MCNamed ==
    [s \in MCSources |->
        CASE s = "home" -> {"official"}
          [] s = "ai" -> {"department", "ai"}
          [] s = "aero" -> {"department", "engineering"}
          [] s = "grad" -> {"graduate", "department"}]

Notice(sources, category, department, date, title, id, hits) ==
    [sources |-> sources, topic |-> "academic", category |-> category,
     department |-> department, date |-> date, realDate |-> TRUE, title |-> title,
     id |-> id, pos |-> 7 - id, labeled |-> FALSE, targets |-> {}, hits |-> hits]

MCInfo ==
    <<Notice({"home"}, 1, None, 100, 1, 4, "exam" :> {"title"}),
      Notice({"home", "ai"}, 1, "office", 100, 2, 6, "exam" :> {"content", "synonym"}),
      [Notice({"aero"}, 2, "office", 60, 3, 1, "dorm" :> {"text"}) EXCEPT !.realDate = FALSE],
      [Notice({"ai"}, 2, None, 94, 4, 5, "exam" :> {"title", "tags"} @@ "dorm" :> {"content"})
         EXCEPT !.labeled = TRUE, !.targets = {"undergraduate"}],
      Notice({"grad"}, 1, "office", 94, 4, 2, "exam" :> {"pattern"} @@ "dorm" :> {"compact"}),
      [Notice({"ai", "aero"}, 3, None, 0, 6, 3, "exam" :> {"source"})
         EXCEPT !.labeled = TRUE, !.targets = {"graduate"}]>>

MCLists == {1 .. 6, {1, 2, 4, 5}, {3, 6}, {}}

Plain == [words |-> {}, audience |-> None, group |-> None, source |-> None, category |-> 0,
          department |-> None, target |-> None, size |-> 2]
MCQueries ==
    {Plain, [Plain EXCEPT !.size = 0], [Plain EXCEPT !.size = -1],
     [Plain EXCEPT !.audience = "department", !.group = "ai"],
     [Plain EXCEPT !.audience = "department", !.group = "exchange"],
     [Plain EXCEPT !.audience = "graduate", !.source = "grad"],
     [Plain EXCEPT !.audience = "alumni"],
     [Plain EXCEPT !.audience = "official", !.source = "ai", !.category = 1],
     [Plain EXCEPT !.target = "graduate"],
     [Plain EXCEPT !.words = {"exam"}],
     [Plain EXCEPT !.words = {"exam", "dorm"}],
     [Plain EXCEPT !.words = {"exam", "dorm"}, !.group = "ai"],
     [Plain EXCEPT !.words = {"dorm"}, !.audience = "department", !.department = "office"],
     [Plain EXCEPT !.words = {"exam"}, !.target = "undergraduate", !.category = 1]}
MCQuestions ==
    {[Plain EXCEPT !.words = {"exam"}, !.target = "graduate"],
     [Plain EXCEPT !.words = {"dorm"}, !.target = "undergraduate", !.audience = "department"],
     [Plain EXCEPT !.words = {"visa"}, !.target = "graduate"]}
===============================================================================
