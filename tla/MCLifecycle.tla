----------------------------- MODULE MCLifecycle -----------------------------
(* An instance of Lifecycle for TLC: two modules and an object that is     *)
(* none, and three files to reload between, of which one has a sleep that  *)
(* nanosleep refuses.  Times are in thousandths of a second.               *)
EXTENDS Lifecycle, TLC

CONSTANTS c1

AllNames == {"cron", "Cron", "timeout", "title", "poll", "mpd", "date",
             "daemon", "global_sleep"}
Folded == [n \in AllNames |-> IF n = "Cron" THEN "cron" ELSE n]
AllTexts == {"2.5", "-0.5", "yes", "no", "True"}
Atoi == [x \in AllTexts |-> IF x = "2.5" THEN 2 ELSE 0]
Atof == [x \in AllTexts |-> CASE x = "2.5" -> 2500
                              [] x = "-0.5" -> -500
                              [] OTHER -> 0]
Said == [x \in AllTexts |-> CASE x \in {"yes", "True"} -> 1
                              [] x = "no" -> 0
                              [] OTHER -> Null]

Named == [mpd_so |-> "mpd", date_so |-> "date", data_so |-> "date"]
Var(n, k, t) == [name |-> n, kind |-> k, timeout |-> t]
Registering == [mpd_so |-> <<Var("title", "str", 10000), Var("poll", "cron", 1000)>>,
                date_so |-> <<Var("date", "str", 1000)>>,
                data_so |-> <<>>]
Listings == {<<"mpd_so", "data_so", "date_so">>, <<"date_so", "mpd_so">>, <<>>}

In(m) == [form |-> "section", name |-> m, text |-> "True"]
Set(k, x) == [form |-> "setting", name |-> k, text |-> x]
Unset(k) == [form |-> "emptied", name |-> k, text |-> "True"]
Flag(k) == [form |-> "flag", name |-> k, text |-> "True"]

Comment(k) == [form |-> "comment", name |-> k, text |-> "True"]
Junk == [form |-> "junk", name |-> "mpd", text |-> "True"]

(* A setting before any section, and a section that is opened again under  *)
(* another case; a first setting that is emptied; a key without a value, a *)
(* key set twice, lines that count for nothing.                            *)
ThreeFiles ==
    {<<Set("title", "2.5"), In("cron"), In("timeout"), Set("title", "2.5"),
       Set("poll", "2.5"), In("Cron"), Set("poll", "yes")>>,
     <<In("timeout"), Unset("date"), Set("date", "2.5"), In("cron"), Set("poll", "2.5"),
       In("daemon"), Set("global_sleep", "-0.5")>>,
     <<In("Cron"), Flag("poll"), Comment("date"), In("mpd"), Set("Cron", "no"),
       Junk, Set("cron", "2.5"), In("timeout"), Set("title", "no")>>}
=============================================================================
