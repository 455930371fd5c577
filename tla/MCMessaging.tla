---- MODULE MCMessaging ----
EXTENDS Messaging, TLC
CONSTANTS T, someone

Contact(t, k) == [kind |-> "contact", tenant |-> t, subject |-> someone, company |-> k]
Company(t)    == [kind |-> "company", tenant |-> t, subject |-> someone, company |-> Nil]

MCRecords == 1..4
MCInitialRecords == <<Contact(T, 2), Company(T)>>
MCDeals == 1..2
MCInitialDeals == <<[tenant |-> T, contact |-> 1, company |-> 2]>>
MCRules == 1..2
MCInitialRules ==
  <<[tenant |-> T, trigger |-> "moved", active |-> TRUE, equals |-> Nil,
     actions |-> <<"send_whatsapp", "create_activity">>], Nil>>
MCActionLists == {<<"send_email", "log">>}
MCPayloads == {<<[id |-> 1, phone |-> someone], [id |-> 2, phone |-> Nil], [id |-> 3, phone |-> someone]>>}
AnyHandler == Permutations(Handlers)
====
