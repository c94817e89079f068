----------------------------- MODULE MCCommands -----------------------------
(* Two secrets and their data with "=" signs, several lines and white space *)
(* at an end, and exports with equal keys, repeated fields, and items that  *)
(* cannot be used.                                                          *)
EXTENDS Commands

Lines2 == <<<<"begin">>, <<"q", "">>>>
Key == Word("key")
User == Word("user")
TwoLineKey == <<<<"a">>, <<"b">>>>

MCNames == {"db", "api"}
MCContents == {ValueKey :> <<<<"a", "b", "">>>>,
               User :> Word("u ") @@ ValueKey :> Word("v "),
               Key :> Lines2 @@ TwoLineKey :> Word("u ")}
MCFieldOrder == <<TwoLineKey, Key, User, ValueKey>>

MCRequests ==
    {[kind |-> "map", name |-> "db", args |-> a] :
        a \in {<<Pair(ValueKey, <<<<"a", "b", "">>>>)>>,
               <<Pair(ValueKey, Word("v ")), Pair(User, Word("u ")), Pair(ValueKey, Word("v "))>>,
               <<Pair(Key, Lines2), Pair(TwoLineKey, Word("u "))>>,
               <<Pair(Key, Word("k")), Word("k")>>, <<>>}}
    \cup {[kind |-> "file", name |-> "db", args |-> a] : a \in {<<Lines2>>, <<Lines2, Lines2>>}}
MCTyped == {<<<<" ">>, <<" user", "w">>, <<"">>, <<"user", "z", "1">>, <<" ">>>>, <<<<"begin">>>>}

Parts == {"", " ", "a", "b", "begin", "key", "q", "u ", "user", " user", "value", "v ", "w", "z", "1"}
MCTrimLeft == [p \in Parts |-> IF p = " " THEN "" ELSE IF p = " user" THEN "user" ELSE p]
MCTrimRight == [p \in Parts \cup {"u", "v"} |->
                    IF p = " " THEN "" ELSE IF p = "u " THEN "u" ELSE IF p = "v " THEN "v" ELSE p]

MCManifests ==
    {[env |-> "A" :> <<"db", User>> @@ "B" :> <<"api">>,
      file |-> "F" :> <<"db">> @@ "G" :> <<"api">>],
     [env |-> <<>>, file |-> "F" :> <<"db", Key>>]}

MCNormal == [s \in {"", "Db", "-", "api", "db", "user", "pass", "username", "password", "notes",
                    "user_0", "one"} |->
                IF s = "Db" THEN "db" ELSE IF s = "-" THEN "" ELSE s]

Login(name, designation, value) ==
    [name |-> name, designation |-> designation, value |-> value]
Field(title, string, totp, ssh) ==
    [title |-> title, string |-> string, totp |-> totp, ssh |-> ssh]
Item == [category |-> "map", title |-> "Db", url |-> "", uuid |-> "u1", login |-> <<>>,
         section |-> <<>>, notes |-> "", fileName |-> "", file |-> NoFile]

Account == [Item EXCEPT
    !.login = <<Login("user", "username", "one"), Login("", "user", "two"), Login("-", "", "none")>>,
    !.section = <<Field("user", "three", "", <<>>), Field("user", "", "", <<>>),
                  Field("pass", "", "42", <<>>),
                  Field("user", "x", "", <<<<"private_key", "p">>, <<"public_key", "">>>>),
                  Field("user", "", "", <<<<"private_key", "p2">>>>)>>,
    !.notes = "n"]
\* Its own field looks like a renamed one.
Odd == [Item EXCEPT !.title = "", !.url = "api",
    !.login = <<Login("user", "", "one"), Login("user", "", "two"), Login("user_0", "", "three")>>]
Password == [Item EXCEPT !.category = "password",
    !.login = <<Login("", "", "first"), Login("", "password", "secret")>>]
Empty == [Item EXCEPT !.category = "password", !.login = <<Login("", "", "")>>]
Document == [Item EXCEPT !.category = "document", !.fileName = "api", !.file = "bytes"]
Lost == [Item EXCEPT !.category = "document"]
Note == [Item EXCEPT !.category = "securenote", !.title = "-",
    !.login = <<Login("", "username", "api")>>, !.section = <<Field("", "", "7", <<>>)>>]
Other == [Item EXCEPT !.category = "other", !.notes = "text"]

MCExports == {<<>>, <<Account, Empty, Document>>, <<Odd, Lost, Note>>,
              <<Password, Document, Other, Account>>}
MCLimits == {<<0, 2>>, <<-1, 0>>, <<3, 2>>}
=============================================================================
