------------------------------- MODULE MCSeed -------------------------------
(* A folder with a row of two layers, and the folder after an edit: a box   *)
(* renamed and one added, and a rule without its box.                       *)
EXTENDS Seed

BoxIs(key, name) == [table |-> "strategy", key |-> key, name |-> name]
RuleIs(key, rank) == [table |-> "strategy_rule", key |-> key, match |-> "puts", rank |-> rank]
SettingIs(value) == [table |-> "notification_setting", code |-> "price", value |-> value]

Folder(boxes, rules, settings) ==
    [table \in Tables |->
        CASE table = "strategy" -> boxes
          [] table = "strategy_rule" -> rules
          [] OTHER -> settings]

MCFolders ==
    {Folder(<<BoxIs(None, "u")>>, <<RuleIs(<<"u", 1>>, 1)>>, <<SettingIs(1), SettingIs(2)>>),
     Folder(<<BoxIs(<<"u", 1>>, "x"), BoxIs(None, "x")>>, <<RuleIs(<<"u", 1>>, 2)>>, <<SettingIs(1)>>),
     Folder(<<BoxIs(None, "u")>>, <<RuleIs(<<"x", 1>>, 1)>>, <<>>)}
=============================================================================
