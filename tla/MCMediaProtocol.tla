--------------------------- MODULE MCMediaProtocol ---------------------------
(* Pages of every kind of source, with names that need escapes, that look    *)
(* like escapes, that hold dots, and that an address reads in another way.   *)
EXTENDS MediaProtocol, TLC

Chars(s) == [i \in 1 .. Len(s) |-> SubSeq(s, i, i)]

MCHex == "/" :> <<"2", "F">> @@ "%" :> <<"2", "5">> @@ ":" :> <<"3", "A">> @@ "\\" :> <<"5", "C">>
         @@ " " :> <<"2", "0">> @@ "#" :> <<"2", "3">> @@ "?" :> <<"3", "F">>

MCAccounts == 7 :> [kind |-> "webdav", host |-> "dav", share |-> <<>>]
              @@ 3 :> [kind |-> "smb", host |-> "nas", share |-> Chars("s")]

Local == [type |-> "local", root |-> Chars("D:/a")]
Dav == [type |-> "webdav", account |-> 7, base |-> "dav"]
Smb(initial) == [type |-> "smb", account |-> 3, initial |-> Chars(initial)]
Archive(origin, abs, rel) ==
    [type |-> "archive", archive |-> abs, origin |-> origin, rel |-> rel]

Names == {Chars("p.j"), Chars("100%"), Chars("%25"), Chars("a b"), Chars("x..y"), Chars("v/%2F"),
          Chars("a#b"), Chars("c ")}

Page(d, path) == [descriptor |-> d, path |-> path]

MCPages ==
    {Page(Local, Chars("D:/a/") \o n) : n \in Names} \cup {Page(Local, Chars("D:/") \o n) : n \in Names}
    \cup {Page(d, n) : n \in Names,
            d \in {Dav, Smb("s"), Smb("s/d"), Archive([type |-> "local"], Chars("D:/a/b.z"), Nil),
                   Archive(Dav, Nil, Chars("b/%c.z")), Archive(Dav, Nil, Chars("b/c d.z")), Archive(Smb("s"), Nil, Chars("b.z")),
                   Archive(Smb("s/d"), Nil, Chars("v/b.z"))}}
    \cup {Page(d, n) : d \in {Smb("")}, n \in {Chars("v/p.j"), Chars("s/p.j")}}

MCHeaders == {Nil, [first |-> Nil, last |-> Nil]} \cup [first : {0, 1, 2}, last : {Nil, 0, 1, 2, 3}]
=============================================================================
