------------------------------ MODULE PlayProofs ------------------------------
(***************************************************************************)
(* Theorems about hands played by agents: the engine takes what an agent   *)
(* decides, and the rows the orchestrator stores play the hand again;      *)
(* about tournaments: standings add up and one defeat eliminates; and      *)
(* about what is made of hands once played: the coach and the taxonomy     *)
(* judge alike, and the trackers of an opponent count alike.               *)
(***************************************************************************)
EXTENDS MCPlay, EngineProofs, SequenceTheorems, FiniteSetTheorems

-----------------------------------------------------------------------------
(* Rules.                                                                  *)

(* Some rule holds, and the decision is what the first of them does.       *)
LEMMA FirstRuleHolds ==
    ASSUME NEW n \in Nat, n > 0, NEW rules, DOMAIN rules = 1 .. n, rules[n].when
    PROVE  \E i \in 1 .. n : /\ FirstRule(rules) = rules[i].does /\ rules[i].when
                             /\ \A j \in 1 .. i - 1 : ~rules[j].when
  <1> DEFINE Leads(i) == rules[i].when /\ \A j \in 1 .. i - 1 : ~rules[j].when
             S == {k \in Nat : (\E i \in 1 .. n : i <= k /\ rules[i].when)
                                  => \E i \in 1 .. n : Leads(i)}
  <1>1. 0 \in S
    OBVIOUS
  <1>2. ASSUME NEW k \in S PROVE k + 1 \in S
    <2> SUFFICES ASSUME NEW i \in 1 .. n, i <= k + 1, rules[i].when,
                        ~ \E j \in 1 .. n : j <= k /\ rules[j].when
                 PROVE  Leads(i)
      OBVIOUS
    <2>1. \A j \in 1 .. i - 1 : j \in 1 .. n /\ j <= k
      OBVIOUS
    <2> QED BY <2>1
  <1> HIDE DEF S
  <1>3. S = Nat
    BY <1>1, <1>2, ByNumber DEF S
  <1>4. \E i \in 1 .. n : i <= n /\ rules[i].when
    <2>1. n \in 1 .. n /\ n <= n
      OBVIOUS
    <2> QED BY <2>1
  <1>5. \E i \in 1 .. n : Leads(i)
    BY <1>3, <1>4 DEF S
  <1>6. DOMAIN rules = 1 .. n
    OBVIOUS
  <1> DEFINE c == CHOOSE i \in DOMAIN rules :
                      rules[i].when /\ \A j \in 1 .. i - 1 : ~rules[j].when
  <1>7. c \in 1 .. n /\ Leads(c)
    BY <1>5, <1>6
  <1>8. FirstRule(rules) = rules[c].does
    BY DEF FirstRule
  <1> HIDE DEF c
  <1> QED BY <1>7, <1>8

(* A list of rules that ends in a check or in giving up the hand.          *)
LEMMA RulesOrCheck ==
    ASSUME NEW T, NEW rules \in Seq(T)
    PROVE  \/ \E i \in 1 .. Len(rules) :
                  rules[i].when /\ FirstRule(rules \o CheckDown) = rules[i].does
           \/ /\ FirstRule(rules \o CheckDown) = Decision("check", 0)
              /\ \A i \in 1 .. Len(rules) : ~rules[i].when
  <1> DEFINE n == Len(rules)
             all == rules \o CheckDown
             r == Rule(TRUE, "check", 0)
  <1>1. n \in Nat /\ n + 1 \in Nat /\ n + 1 > 0
    OBVIOUS
  <1>4. r.when = TRUE /\ r.does = Decision("check", 0)
    BY DEF Rule
  <1>9. CheckDown = <<r>>
    BY DEF CheckDown
  <1> HIDE DEF r
  <1>2. /\ CheckDown \in Seq(T \cup {r}) /\ Len(CheckDown) = 1 /\ CheckDown[1] = r
        /\ rules \in Seq(T \cup {r})
    <2>1. /\ <<r>> \in Seq(T \cup {r}) /\ Len(<<r>>) = 1 /\ <<r>>[1] = r
      OBVIOUS
    <2>2. \A i \in 1 .. Len(rules) : rules[i] \in T \cup {r}
      OBVIOUS
    <2> QED BY <2>1, <2>2, <1>9
  <1>3. /\ DOMAIN all = 1 .. n + 1 /\ all[n + 1] = r
        /\ \A i \in 1 .. n : all[i] = rules[i]
    <2> DEFINE U == T \cup {r}
    <2>3. CheckDown \in Seq(U) /\ rules \in Seq(U)
      BY <1>2
    <2> HIDE DEF U, n
    <2>4. /\ all \in Seq(U) /\ Len(all) = Len(rules) + Len(CheckDown)
          /\ \A i \in 1 .. Len(rules) + Len(CheckDown) :
                 all[i] = IF i <= Len(rules) THEN rules[i] ELSE CheckDown[i - Len(rules)]
      BY <2>3, ConcatProperties, Zenon
    <2>1. /\ all \in Seq(U) /\ Len(all) = n + 1
          /\ \A i \in 1 .. n + 1 : all[i] = IF i <= n THEN rules[i] ELSE CheckDown[i - n]
      BY <1>2, <2>4 DEF n
    <2>2. n + 1 - n = 1 /\ n + 1 \in 1 .. n + 1 /\ \A i \in 1 .. n : i \in 1 .. n + 1 /\ i <= n
      BY <1>1
    <2> HIDE DEF all
    <2> QED BY <1>1, <1>2, <2>1, <2>2
  <1> HIDE DEF n, all
  <1>8. all[n + 1].when
    BY <1>3, <1>4
  <1>5. PICK i \in 1 .. n + 1 : /\ FirstRule(all) = all[i].does /\ all[i].when
                                /\ \A j \in 1 .. i - 1 : ~all[j].when
    BY <1>1, <1>3, <1>8, FirstRuleHolds
  <1>6. CASE i = n + 1
    <2>1. \A j \in 1 .. n : j \in 1 .. i - 1
      BY <1>1, <1>6
    <2> QED BY <1>3, <1>4, <1>5, <1>6, <2>1 DEF all, n
  <1>7. CASE i # n + 1
    <2>1. i \in 1 .. n
      BY <1>1, <1>7
    <2> QED BY <1>3, <1>5, <2>1 DEF all, n
  <1> QED BY <1>6, <1>7


LEMMA RulesOrGiveUp ==
    ASSUME NEW T, NEW rules \in Seq(T), NEW h, "fold" \in LegalActions(h)
    PROVE  \/ \E i \in 1 .. Len(rules) :
                  rules[i].when /\ FirstRule(rules \o GiveUp(h)) = rules[i].does
           \/ FirstRule(rules \o GiveUp(h)) = Decision("fold", 0)
  <1> DEFINE f == Rule("fold" \in LegalActions(h), "fold", 0)
             c == Rule(TRUE, "check", 0)
             U == T \cup {f, c}
             more == rules \o <<f>>
  <1>1. f.when /\ f.does = Decision("fold", 0)
    BY DEF Rule
  <1>2. GiveUp(h) = <<f>> \o CheckDown /\ CheckDown = <<c>>
    BY DEF GiveUp, CheckDown
  <1> HIDE DEF f, c
  <1>3. rules \in Seq(U) /\ <<f>> \in Seq(U) /\ <<c>> \in Seq(U)
    <2>1. \A i \in 1 .. Len(rules) : rules[i] \in U
      OBVIOUS
    <2> QED BY <2>1
  <1> HIDE DEF U
  <1>4. rules \o GiveUp(h) = more \o CheckDown
    BY <1>2, <1>3, ConcatAssociative
  <1>5. more \in Seq(U) /\ Len(more) = Len(rules) + 1 /\ more[Len(rules) + 1] = f
        /\ \A i \in 1 .. Len(rules) : more[i] = rules[i]
    <2>1. /\ more \in Seq(U) /\ Len(more) = Len(rules) + Len(<<f>>)
          /\ \A i \in 1 .. Len(rules) + Len(<<f>>) :
                 more[i] = IF i <= Len(rules) THEN rules[i] ELSE <<f>>[i - Len(rules)]
      BY <1>3, ConcatProperties, Zenon
    <2>2. Len(<<f>>) = 1 /\ <<f>>[1] = f /\ Len(rules) \in Nat
      OBVIOUS
    <2> HIDE DEF more
    <2>3. /\ Len(rules) + 1 - Len(rules) = 1
          /\ Len(rules) + 1 \in 1 .. Len(rules) + 1 /\ ~(Len(rules) + 1 <= Len(rules))
          /\ \A i \in 1 .. Len(rules) : i \in 1 .. Len(rules) + 1 /\ i <= Len(rules)
      BY <2>2
    <2> QED BY <2>1, <2>2, <2>3
  <1> HIDE DEF more
  <1>6. \/ \E i \in 1 .. Len(more) :
               more[i].when /\ FirstRule(more \o CheckDown) = more[i].does
        \/ \A i \in 1 .. Len(more) : ~more[i].when
    BY <1>5, RulesOrCheck
  <1>7. more[Len(more)].when /\ Len(more) \in 1 .. Len(more)
    <2>1. Len(rules) \in Nat
      OBVIOUS
    <2> QED BY <1>1, <1>5, <2>1
  <1>8. PICK i \in 1 .. Len(more) : more[i].when /\ FirstRule(more \o CheckDown) = more[i].does
    BY <1>6, <1>7
  <1>9. CASE i = Len(rules) + 1
    BY <1>1, <1>4, <1>5, <1>8, <1>9
  <1>10. CASE i # Len(rules) + 1
    <2>1. Len(rules) \in Nat
      OBVIOUS
    <2>2. i \in 1 .. Len(rules)
      BY <1>5, <1>10, <2>1
    <2> QED BY <1>4, <1>5, <1>8, <2>2
  <1> QED BY <1>9, <1>10


-----------------------------------------------------------------------------
(* What the rules of the baseline agent can decide: all in where it is     *)
(* legal; without a price a bet that is large enough, or a check; with one *)
(* a raise that is one, a call, or a fold.                                 *)
Opens(h, d) ==
    /\ Price(h) = 0 /\ "bet" \in LegalActions(h)
    /\ d.type = "bet" /\ d.amount \in Int /\ d.amount >= BigBlind
    /\ h.board = 0 => d.amount >= 2 * BigBlind
Reraises(h, d) ==
    /\ "raise" \in LegalActions(h) /\ d.type = "raise" /\ d.amount \in Int
    /\ d.amount >= h.min_raise_to /\ d.amount > h.current_bet /\ d.amount <= Shove(h)
Plain(h, d) ==
    \/ "all_in" \in LegalActions(h) /\ d = Decision("all_in", Stack(h))
    \/ Opens(h, d)
    \/ Price(h) = 0 /\ d = Decision("check", 0)
    \/ Reraises(h, d)
    \/ "call" \in LegalActions(h) /\ d = Decision("call", Price(h))
    \/ Price(h) > 0 /\ d = Decision("fold", 0)

(* The numbers a rule reads.                                               *)
LEMMA Reading ==
    ASSUME NEW h \in Hand, CanAct(h)
    PROVE  /\ Price(h) \in Nat /\ Stack(h) \in Int /\ Shove(h) \in Int
           /\ h.invested[h.acting_seat] \in Int /\ h.current_bet \in Int
           /\ h.min_raise_to \in Int /\ h.pot \in Int
           /\ Price(h) = 0 => h.invested[h.acting_seat] >= h.current_bet
           /\ Price(h) > 0 => /\ h.invested[h.acting_seat] < h.current_bet
                              /\ Shove(h) - h.current_bet = Stack(h) - Price(h)
           /\ Shove(h) = h.invested[h.acting_seat] + Stack(h)
           /\ "fold" \in LegalActions(h)
           /\ "check" \in LegalActions(h) <=> Price(h) = 0
           /\ "call" \in LegalActions(h) <=> Price(h) > 0
           /\ "bet" \in LegalActions(h) <=> Price(h) = 0 /\ Stack(h) > 0
           /\ "raise" \in LegalActions(h) <=> Price(h) > 0 /\ Stack(h) > Price(h)
           /\ "all_in" \in LegalActions(h) => Stack(h) > 0
           /\ LegalActions(h) \subseteq ActionTypes
  <1> DEFINE a == h.acting_seat
  <1>1. a \in Seats
    BY ActingSeat
  <1>2. h.invested[a] \in Int /\ h.stack[a] \in Int /\ h.current_bet \in Int
        /\ h.min_raise_to \in Int /\ h.pot \in Int
    BY <1>1 DEF Hand
  <1>3. Price(h) = IF 0 >= h.current_bet - h.invested[a] THEN 0
                   ELSE h.current_bet - h.invested[a]
    BY DEF Price, ToCall, Greatest
  <1>4. Stack(h) = h.stack[a] /\ Shove(h) = h.invested[a] + h.stack[a]
    BY DEF Stack, Shove
  <1>5. LegalActions(h) = {"fold"}
             \cup (IF Price(h) = 0 THEN {"check"} ELSE {"call"})
             \cup (IF Price(h) = 0 /\ Stack(h) > 0 THEN {"bet", "all_in"} ELSE {})
             \cup (IF Price(h) > 0 /\ Stack(h) > Price(h) THEN {"raise", "all_in"} ELSE {})
    BY DEF LegalActions, Price, Stack
  <1> HIDE DEF a
  <1>6. /\ Price(h) \in Nat /\ Stack(h) \in Int /\ Shove(h) \in Int
        /\ Price(h) = 0 => h.invested[a] >= h.current_bet
        /\ Price(h) > 0 => /\ h.invested[a] < h.current_bet
                           /\ Shove(h) - h.current_bet = Stack(h) - Price(h)
    BY <1>2, <1>3, <1>4
  <1> DEFINE p == Price(h)
             s == Stack(h)
  <1>7. p \in Nat /\ s \in Int
    BY <1>6
  <1> HIDE DEF p, s
  <1>8. LegalActions(h) = {"fold"} \cup (IF p = 0 THEN {"check"} ELSE {"call"})
             \cup (IF p = 0 /\ s > 0 THEN {"bet", "all_in"} ELSE {})
             \cup (IF p > 0 /\ s > p THEN {"raise", "all_in"} ELSE {})
    BY <1>5 DEF p, s
  <1>9. /\ "fold" \in LegalActions(h)
        /\ "check" \in LegalActions(h) <=> p = 0
        /\ "call" \in LegalActions(h) <=> p > 0
        /\ "bet" \in LegalActions(h) <=> p = 0 /\ s > 0
        /\ "raise" \in LegalActions(h) <=> p > 0 /\ s > p
        /\ "all_in" \in LegalActions(h) => s > 0
        /\ LegalActions(h) \subseteq ActionTypes
    BY <1>7, <1>8 DEF ActionTypes
  <1> QED BY <1>2, <1>4, <1>6, <1>9 DEF p, s, a

LEMMA RulesPlain ==
    ASSUME NEW h \in Hand, CanAct(h), NEW strong
    PROVE  /\ ShortRule(h, strong).when => Plain(h, ShortRule(h, strong).does)
           /\ PushRule(h, strong).when => Plain(h, PushRule(h, strong).does)
           /\ CallRule(h, strong).when => Plain(h, CallRule(h, strong).does)
           /\ \A step \in Int :
                  RaiseRule(h, strong, step).when => Plain(h, RaiseRule(h, strong, step).does)
           /\ \A amount \in Int :
                  /\ amount >= BigBlind /\ (h.board = 0 => amount >= 2 * BigBlind)
                  /\ BetRule(h, strong, amount).when
                  => Plain(h, BetRule(h, strong, amount).does)
  <1>1. ShortRule(h, strong).when => Plain(h, ShortRule(h, strong).does)
    BY DEF ShortRule, Rule, Plain
  <1>2. PushRule(h, strong).when => Plain(h, PushRule(h, strong).does)
    BY DEF PushRule, Rule, Plain
  <1>3. CallRule(h, strong).when => Plain(h, CallRule(h, strong).does)
    BY DEF CallRule, Rule, Plain
  <1>4. ASSUME NEW step \in Int, RaiseRule(h, strong, step).when
        PROVE  Plain(h, RaiseRule(h, strong, step).does)
    <2> DEFINE target == RaiseTarget(h, step)
    <2>1. target \in Int /\ target <= Shove(h)
      BY Reading DEF RaiseTarget, Least, Greatest
    <2> HIDE DEF target
    <2>2. /\ RaiseRule(h, strong, step).does = Decision("raise", target)
          /\ "raise" \in LegalActions(h) /\ target >= h.min_raise_to /\ target > h.current_bet
      BY <1>4 DEF RaiseRule, Rule, target
    <2>3. Reraises(h, Decision("raise", target))
      BY <2>1, <2>2 DEF Reraises, Decision
    <2> QED BY <2>2, <2>3 DEF Plain
  <1>5. ASSUME NEW amount \in Int, amount >= BigBlind, h.board = 0 => amount >= 2 * BigBlind,
               BetRule(h, strong, amount).when
        PROVE  Plain(h, BetRule(h, strong, amount).does)
    <2>1. /\ BetRule(h, strong, amount).does = Decision("bet", amount)
          /\ "bet" \in LegalActions(h)
      BY <1>5 DEF BetRule, Rule
    <2>2. Opens(h, Decision("bet", amount))
      BY <1>5, <2>1, Reading DEF Opens, Decision
    <2> QED BY <2>1, <2>2 DEF Plain
  <1> QED BY <1>1, <1>2, <1>3, <1>4, <1>5


(* Rules that can only decide what is plain decide so, with what they end  *)
(* in.                                                                     *)
LEMMA ListPlain ==
    ASSUME NEW h \in Hand, CanAct(h), NEW T, NEW rules \in Seq(T),
           \A i \in 1 .. Len(rules) : rules[i].when => Plain(h, rules[i].does)
    PROVE  /\ Price(h) = 0 => Plain(h, FirstRule(rules \o CheckDown))
           /\ Price(h) > 0 => Plain(h, FirstRule(rules \o GiveUp(h)))
  <1>1. ASSUME Price(h) = 0 PROVE Plain(h, FirstRule(rules \o CheckDown))
    <2>1. CASE FirstRule(rules \o CheckDown) = Decision("check", 0)
      BY <1>1, <2>1 DEF Plain
    <2>2. CASE \E i \in 1 .. Len(rules) :
                   rules[i].when /\ FirstRule(rules \o CheckDown) = rules[i].does
      BY <2>2
    <2> QED BY <2>1, <2>2, RulesOrCheck
  <1>2. ASSUME Price(h) > 0 PROVE Plain(h, FirstRule(rules \o GiveUp(h)))
    <2>1. CASE FirstRule(rules \o GiveUp(h)) = Decision("fold", 0)
      BY <1>2, <2>1 DEF Plain
    <2>2. CASE \E i \in 1 .. Len(rules) :
                   rules[i].when /\ FirstRule(rules \o GiveUp(h)) = rules[i].does
      BY <2>2
    <2>3. "fold" \in LegalActions(h)
      BY Reading
    <2> QED BY <2>1, <2>2, <2>3, RulesOrGiveUp
  <1> QED BY <1>1, <1>2

LEMMA BaselinePlain ==
    ASSUME NEW h \in Hand, CanAct(h), NEW read \in Reads
    PROVE  Plain(h, Baseline(h, read))
  <1>1. Price(h) \in Nat /\ h.pot \in Int /\ BigBlind \in Nat
    BY Reading, BlindsAssumption
  <1>2. Plain(h, DecidePreflop(h, read))
    <2> DEFINE strong == read.premium \/ read.equity >= 67
               a == ShortRule(h, read.equity >= 62)
               b == BetRule(h, read.equity >= 61, Greatest(3 * BigBlind, 6))
               c == BetRule(h, read.playable, Greatest((5 * BigBlind) \div 2, 4))
               d == ShortRule(h, read.equity >= 64)
               e == RaiseRule(h, strong, 2 * BigBlind)
               f == PushRule(h, strong)
               g == CallRule(h, Edge(h, read) >= 8 * PotAfterCall(h) /\ read.equity >= 42)
               open == <<a, b, c>>
               priced == <<d, e, f, g>>
    <2>1. /\ a.when => Plain(h, a.does)
          /\ d.when => Plain(h, d.does)
          /\ f.when => Plain(h, f.does)
          /\ g.when => Plain(h, g.does)
      BY RulesPlain
    <2>2. /\ Greatest(3 * BigBlind, 6) \in Int /\ Greatest(3 * BigBlind, 6) >= BigBlind
          /\ Greatest(3 * BigBlind, 6) >= 2 * BigBlind
          /\ Greatest((5 * BigBlind) \div 2, 4) \in Int
          /\ Greatest((5 * BigBlind) \div 2, 4) >= BigBlind
          /\ Greatest((5 * BigBlind) \div 2, 4) >= 2 * BigBlind
          /\ 2 * BigBlind \in Int
      BY <1>1 DEF Greatest
    <2>3. /\ b.when => Plain(h, b.does)
          /\ c.when => Plain(h, c.does)
          /\ e.when => Plain(h, e.does)
      BY <2>2, RulesPlain
    <2>4. DecidePreflop(h, read) = IF Price(h) = 0 THEN FirstRule(open \o CheckDown)
                                   ELSE FirstRule(priced \o GiveUp(h))
      BY Zenon DEF DecidePreflop
    <2> HIDE DEF a, b, c, d, e, f, g
    <2>5. open \in Seq({a, b, c})
          /\ \A i \in 1 .. Len(open) : open[i].when => Plain(h, open[i].does)
      BY <2>1, <2>3
    <2>6. priced \in Seq({d, e, f, g})
          /\ \A i \in 1 .. Len(priced) : priced[i].when => Plain(h, priced[i].does)
      BY <2>1, <2>3
    <2> HIDE DEF open, priced
    <2> QED BY <1>1, <2>4, <2>5, <2>6, ListPlain
  <1>3. h.board # 0 => Plain(h, DecidePostflop(h, read))
    <2> SUFFICES ASSUME h.board # 0 PROVE Plain(h, DecidePostflop(h, read))
      OBVIOUS
    <2> DEFINE share == IF read.equity >= 68 THEN 60 ELSE 50
               size == Greatest(BigBlind, (Greatest(h.pot, 2) * share) \div 100)
               step == Greatest(2 * BigBlind, h.pot \div 2)
               raising == read.equity >= 74
               a == ShortRule(h, read.equity >= 65)
               b == BetRule(h, read.paired \/ read.equity >= 60, size)
               d == ShortRule(h, read.equity >= 66)
               e == RaiseRule(h, raising, step)
               f == PushRule(h, raising)
               g == CallRule(h, Edge(h, read) >= 6 * PotAfterCall(h))
               open == <<a, b>>
               priced == <<d, e, f, g>>
    <2>1. /\ a.when => Plain(h, a.does)
          /\ d.when => Plain(h, d.does)
          /\ f.when => Plain(h, f.does)
          /\ g.when => Plain(h, g.does)
      BY RulesPlain
    <2>2. size \in Int /\ size >= BigBlind /\ step \in Int
      BY <1>1 DEF Greatest
    <2>4. DecidePostflop(h, read) = IF Price(h) = 0 THEN FirstRule(open \o CheckDown)
                                    ELSE FirstRule(priced \o GiveUp(h))
      BY Zenon DEF DecidePostflop
    <2> HIDE DEF size, step
    <2>3. /\ b.when => Plain(h, b.does)
          /\ e.when => Plain(h, e.does)
      BY <2>2, RulesPlain
    <2> HIDE DEF a, b, d, e, f, g
    <2>5. open \in Seq({a, b})
          /\ \A i \in 1 .. Len(open) : open[i].when => Plain(h, open[i].does)
      BY <2>1, <2>3
    <2>6. priced \in Seq({d, e, f, g})
          /\ \A i \in 1 .. Len(priced) : priced[i].when => Plain(h, priced[i].does)
      BY <2>1, <2>3
    <2> HIDE DEF open, priced
    <2> QED BY <1>1, <2>4, <2>5, <2>6, ListPlain
  <1> QED BY <1>2, <1>3 DEF Baseline


LEMMA PlainAgain ==
    ASSUME NEW h, NEW d, Plain(h, d)
    PROVE  Plain(h, Decision(d.type, d.amount))
  <1>1. \A type, amount : Decision(type, amount).type = type /\ Decision(type, amount).amount = amount
    BY DEF Decision
  <1>2. CASE Opens(h, d) \/ Reraises(h, d)
    <2>1. Opens(h, Decision(d.type, d.amount)) \/ Reraises(h, Decision(d.type, d.amount))
      BY <1>1, <1>2 DEF Opens, Reraises
    <2> QED BY <2>1 DEF Plain
  <1>3. CASE \E type, amount : d = Decision(type, amount)
    <2>1. Decision(d.type, d.amount) = d
      BY <1>1, <1>3
    <2> QED BY <2>1
  <1> QED BY <1>2, <1>3 DEF Plain

(* The adaptive agent folds a call and calls a fold: both had a price.     *)
LEMMA AdaptivePlain ==
    ASSUME NEW h \in Hand, CanAct(h), NEW read \in Reads, NEW counts
    PROVE  Plain(h, Adaptive(h, counts, read))
  <1> DEFINE base == Baseline(h, read)
             percent == OthersPercent(h, counts)
             total == OthersTotal(h, counts)
             a == Rule(base.type = "call" /\ percent >= 45 * total
                         /\ Edge(h, read) < 10 * PotAfterCall(h), "fold", 0)
             b == Rule(base.type = "fold" /\ percent < 25 * total
                         /\ Edge(h, read) > -2 * PotAfterCall(h)
                         /\ "call" \in LegalActions(h), "call", Price(h))
             c == Rule(TRUE, base.type, base.amount)
             rules == <<a, b, c>>
  <1>1. Plain(h, base)
    BY BaselinePlain
  <1>2. Adaptive(h, counts, read) = FirstRule(rules)
    BY Zenon DEF Adaptive
  <1> HIDE DEF base
  <1>3. a.when => Plain(h, a.does)
    <2>1. a.when => base.type = "call"
      BY DEF Rule
    <2>2. base.type = "call" => Price(h) > 0
      BY <1>1, Reading DEF Plain, Opens, Reraises, Decision
    <2>3. a.does = Decision("fold", 0)
      BY DEF Rule
    <2> QED BY <2>1, <2>2, <2>3 DEF Plain
  <1>4. b.when => Plain(h, b.does)
    <2>1. b.when => "call" \in LegalActions(h)
      BY DEF Rule
    <2>2. b.does = Decision("call", Price(h))
      BY DEF Rule
    <2> QED BY <2>1, <2>2 DEF Plain
  <1>5. c.when /\ Plain(h, c.does)
    <2>1. c.when /\ c.does = Decision(base.type, base.amount)
      BY DEF Rule
    <2> QED BY <1>1, <2>1, PlainAgain
  <1> HIDE DEF a, b, c
  <1>6. DOMAIN rules = 1 .. 3 /\ rules[3].when
        /\ \A i \in 1 .. 3 : rules[i].when => Plain(h, rules[i].does)
    BY <1>3, <1>4, <1>5
  <1> HIDE DEF rules
  <1>7. PICK i \in 1 .. 3 : FirstRule(rules) = rules[i].does /\ rules[i].when
    <2>1. 3 \in Nat /\ 3 > 0
      OBVIOUS
    <2> QED BY <1>6, <2>1, FirstRuleHolds, Zenon
  <1> QED BY <1>2, <1>6, <1>7

(* What a predicted action is sized to.                                    *)
LEMMA PredictedSized ==
    ASSUME NEW h \in Hand, CanAct(h), NEW type \in LegalActions(h),
           NEW d, d = Predicted(h, type)
    PROVE  \/ type = "bet" /\ h.current_bet > 0 /\ d = Decision("check", 0)
           \/ type = "bet" /\ ~(h.current_bet > 0) /\ d = Decision("bet", HalfPot(h))
           \/ type \in {"raise", "call"} /\ d = Decision("call", Price(h))
           \/ /\ type = "raise" /\ d = Decision("raise", RaiseTarget(h, 2 * BigBlind))
              /\ ~(RaiseTarget(h, 2 * BigBlind) < h.min_raise_to)
           \/ type = "all_in" /\ d = Decision("all_in", Stack(h))
           \/ type \in {"fold", "check"} /\ d = Decision(type, 0)
  <1> DEFINE target == RaiseTarget(h, 2 * BigBlind)
             a == Rule(type = "bet" /\ h.current_bet > 0, "check", 0)
             b == Rule(type = "bet", "bet", HalfPot(h))
             c == Rule(type = "raise" /\ target < h.min_raise_to, "call", Price(h))
             e == Rule(type = "raise", "raise", target)
             f == Rule(type = "call", "call", Price(h))
             g == Rule(type = "all_in", "all_in", Stack(h))
             r == Rule(TRUE, type, 0)
             rules == <<a, b, c, e, f, g, r>>
  <1>1. d = FirstRule(rules)
    BY Zenon DEF Predicted
  <1>2. /\ a.when <=> type = "bet" /\ h.current_bet > 0
        /\ b.when <=> type = "bet"
        /\ c.when <=> type = "raise" /\ target < h.min_raise_to
        /\ e.when <=> type = "raise"
        /\ f.when <=> type = "call"
        /\ g.when <=> type = "all_in"
        /\ r.when
    BY DEF Rule
  <1>3. /\ a.does = Decision("check", 0) /\ b.does = Decision("bet", HalfPot(h))
        /\ c.does = Decision("call", Price(h)) /\ e.does = Decision("raise", target)
        /\ f.does = Decision("call", Price(h)) /\ g.does = Decision("all_in", Stack(h))
        /\ r.does = Decision(type, 0)
    BY DEF Rule
  <1> HIDE DEF a, b, c, e, f, g, r, target
  <1>4. /\ DOMAIN rules = 1 .. 7 /\ rules[1] = a /\ rules[2] = b /\ rules[3] = c
        /\ rules[4] = e /\ rules[5] = f /\ rules[6] = g /\ rules[7] = r
    OBVIOUS
  <1> HIDE DEF rules
  <1>5. PICK i \in 1 .. 7 : /\ FirstRule(rules) = rules[i].does /\ rules[i].when
                            /\ \A j \in 1 .. i - 1 : ~rules[j].when
    <2>1. rules[7].when
      BY <1>2, <1>4
    <2>2. 7 \in Nat /\ 7 > 0
      OBVIOUS
    <2> QED BY <1>4, <2>1, <2>2, FirstRuleHolds, Zenon
  <1>6. type \in ActionTypes
    BY Reading
  <1>7. CASE i = 1
    BY <1>1, <1>2, <1>3, <1>4, <1>5, <1>7
  <1>8. CASE i = 2
    <2>1. ~a.when
      BY <1>4, <1>5, <1>8
    <2> QED BY <1>1, <1>2, <1>3, <1>4, <1>5, <1>8, <2>1
  <1>9. CASE i = 3
    BY <1>1, <1>2, <1>3, <1>4, <1>5, <1>9
  <1>10. CASE i = 4
    <2>1. ~c.when
      BY <1>4, <1>5, <1>10
    <2> QED BY <1>1, <1>2, <1>3, <1>4, <1>5, <1>10, <2>1 DEF target
  <1>11. CASE i = 5
    BY <1>1, <1>2, <1>3, <1>4, <1>5, <1>11
  <1>12. CASE i = 6
    BY <1>1, <1>2, <1>3, <1>4, <1>5, <1>12
  <1>13. CASE i = 7
    <2>1. ~b.when /\ ~e.when /\ ~f.when /\ ~g.when
      <3>1. 2 \in 1 .. i - 1 /\ 4 \in 1 .. i - 1 /\ 5 \in 1 .. i - 1 /\ 6 \in 1 .. i - 1
        BY <1>13
      <3> QED BY <1>4, <1>5, <3>1
    <2>2. type \in {"fold", "check"}
      BY <1>2, <1>6, <2>1 DEF ActionTypes
    <2> QED BY <1>1, <1>3, <1>4, <1>5, <1>13, <2>2
  <1> QED BY <1>7, <1>8, <1>9, <1>10, <1>11, <1>12, <1>13


-----------------------------------------------------------------------------
(* What the engine takes.                                                  *)

(* Where there is no price: before the flop the bet is within the big      *)
(* blind, and later there is none.                                         *)
LEMMA WithoutPrice ==
    ASSUME NEW start \in [Seats -> Nat], NEW h, Running(h, start), CanAct(h), Round(h), StreetBet(h)
    PROVE  /\ h.current_bet >= 0
           /\ h.current_bet = 0 => NoBet(h)
           /\ Price(h) = 0 => IF h.board = 0 THEN BlindBet(h) ELSE NoBet(h)
  <1> DEFINE a == h.acting_seat
  <1>1. h \in Hand /\ a \in Seats /\ h.current_bet \in Int
    BY ActingSeat DEF Running, Hand
  <1>2. h.board = 0 <=> h.street = "pre_flop"
    BY <1>1 DEF Running, BoardOn, Hand
  <1>3. ASSUME FullBet(h) PROVE Price(h) # 0
    <2>1. a \in CanBet(h) \ h.acted
      BY <1>1 DEF CanAct, CanBet, Active, Round
    <2>2. h.invested[a] < h.current_bet
      BY <1>3, <2>1 DEF FullBet
    <2> QED BY <1>1, <2>2, Reading
  <1>4. h.current_bet >= 0 /\ (h.current_bet = 0 => NoBet(h))
    BY <1>1 DEF StreetBet, NoBet, BlindBet, FullBet
  <1>5. Price(h) = 0 => IF h.board = 0 THEN BlindBet(h) ELSE NoBet(h)
    BY <1>2, <1>3 DEF StreetBet, NoBet, BlindBet
  <1> QED BY <1>4, <1>5

(* A bet that is large enough for the street, of a seat with the chips for *)
(* a raise.                                                                *)
LEMMA BetAccepted ==
    ASSUME 0 < BigBlind, NEW start \in [Seats -> Nat], NEW h, Running(h, start), CanAct(h),
           Round(h), StreetBet(h), CanMakeRaise(h), "bet" \in LegalActions(h),
           NEW amount \in Int, amount >= BigBlind,
           NoBet(h) \/ amount >= 2 * BigBlind
    PROVE  Accepts(h, "bet", amount)
  <1> DEFINE a == h.acting_seat
  <1>1. h \in Hand /\ a \in Seats /\ BigBlind \in Nat
    BY ActingSeat, BlindsAssumption DEF Running
  <1>2. Price(h) = 0 /\ Stack(h) > 0
    BY <1>1, Reading
  <1>3. NoBet(h) \/ BlindBet(h)
    BY <1>2, WithoutPrice
  <1>4. /\ h.min_raise_to <= amount /\ h.invested[a] < amount
        /\ h.invested[a] \in Int /\ h.min_raise_to \in Int
    <2>1. h.invested[a] \in Int /\ h.min_raise_to \in Int
      BY <1>1 DEF Hand
    <2>2. CASE NoBet(h)
      BY <1>1, <2>1, <2>2 DEF NoBet
    <2>3. CASE BlindBet(h) /\ ~NoBet(h)
      <3>1. h.invested[a] <= BigBlind /\ h.min_raise_to <= 2 * BigBlind
        BY <1>1, <2>3 DEF BlindBet
      <3> QED BY <1>1, <2>1, <2>3, <3>1
    <2> QED BY <1>3, <2>2, <2>3
  <1>5. Shove(h) \in Int /\ Shove(h) > h.invested[a] /\ Shove(h) >= h.min_raise_to
    BY <1>1, <1>2, <1>4, Reading DEF CanMakeRaise
  <1>6. RaiseAccepted(h, Least(Shove(h), amount))
    BY <1>4, <1>5 DEF RaiseAccepted, Least
  <1>7. ToCall(h, a) = 0
    BY <1>2 DEF Price
  <1> QED BY <1>6, <1>7 DEF Accepts

LEMMA RaiseIsAccepted ==
    ASSUME NEW h \in Hand, CanAct(h), "raise" \in LegalActions(h), NEW amount \in Int,
           amount >= h.min_raise_to, amount > h.current_bet, amount <= Shove(h)
    PROVE  Accepts(h, "raise", amount)
  <1> DEFINE a == h.acting_seat
  <1>1. Price(h) > 0
    BY Reading
  <1>2. h.invested[a] < h.current_bet /\ h.invested[a] \in Int /\ h.current_bet \in Int
    BY <1>1, Reading
  <1>3. RaiseAccepted(h, amount)
    BY <1>2 DEF RaiseAccepted
  <1> QED BY <1>1, <1>3 DEF Accepts, Price

(* What is legal without an amount is accepted.                            *)
LEMMA LegalAccepted ==
    ASSUME NEW h \in Hand, CanAct(h), NEW amount
    PROVE  /\ Accepts(h, "fold", amount)
           /\ Price(h) = 0 => Accepts(h, "check", amount)
           /\ "call" \in LegalActions(h) => Accepts(h, "call", amount)
           /\ "all_in" \in LegalActions(h) => Accepts(h, "all_in", amount)
  BY Reading DEF Accepts, Price, Stack

LEMMA PlainTyped ==
    ASSUME NEW h \in Hand, CanAct(h), NEW d, Plain(h, d)
    PROVE  d.type \in ActionTypes /\ d.amount \in Int
  BY Reading DEF Plain, Opens, Reraises, Decision, ActionTypes

LEMMA PlainAccepted ==
    ASSUME 0 < BigBlind, NEW start \in [Seats -> Nat], NEW h, Running(h, start), CanAct(h),
           Round(h), StreetBet(h), CanMakeRaise(h), NEW d, Plain(h, d)
    PROVE  Accepts(h, d.type, d.amount)
  <1>1. h \in Hand
    BY DEF Running
  <1>2. CASE Opens(h, d)
    <2>1. NoBet(h) \/ d.amount >= 2 * BigBlind
      BY <1>2, WithoutPrice DEF Opens
    <2> QED BY <1>2, <2>1, BetAccepted DEF Opens
  <1>3. CASE Reraises(h, d)
    BY <1>1, <1>3, RaiseIsAccepted DEF Reraises
  <1>4. CASE "all_in" \in LegalActions(h) /\ d = Decision("all_in", Stack(h))
    BY <1>1, <1>4, LegalAccepted DEF Decision
  <1>5. CASE Price(h) = 0 /\ d = Decision("check", 0)
    BY <1>1, <1>5, LegalAccepted DEF Decision
  <1>6. CASE "call" \in LegalActions(h) /\ d = Decision("call", Price(h))
    BY <1>1, <1>6, LegalAccepted DEF Decision
  <1>7. CASE Price(h) > 0 /\ d = Decision("fold", 0)
    BY <1>1, <1>7, LegalAccepted DEF Decision
  <1> QED BY <1>2, <1>3, <1>4, <1>5, <1>6, <1>7 DEF Plain


(* What the sizes are.                                                     *)
LEMMA Sizes ==
    ASSUME NEW h \in Hand, CanAct(h)
    PROVE  /\ HalfPot(h) \in Int /\ HalfPot(h) >= BigBlind
           /\ RaiseTarget(h, 2 * BigBlind) \in Int
           /\ RaiseTarget(h, 2 * BigBlind) <= Shove(h)
           /\ CanMakeRaise(h) => RaiseTarget(h, 2 * BigBlind) >= h.min_raise_to
           /\ 0 < BigBlind /\ "raise" \in LegalActions(h)
                 => RaiseTarget(h, 2 * BigBlind) > h.current_bet
  <1>1. /\ h.pot \in Int /\ h.current_bet \in Int /\ h.min_raise_to \in Int
        /\ Shove(h) \in Int /\ BigBlind \in Nat
    BY Reading, BlindsAssumption
  <1>2. "raise" \in LegalActions(h) => Shove(h) > h.current_bet
    <2>1. Price(h) \in Nat /\ Stack(h) \in Int
      BY Reading
    <2>2. "raise" \in LegalActions(h) => /\ Shove(h) - h.current_bet = Stack(h) - Price(h)
                                         /\ Stack(h) > Price(h)
      BY Reading
    <2> QED BY <1>1, <2>1, <2>2
  <1>3. HalfPot(h) \in Int /\ HalfPot(h) >= BigBlind
    BY <1>1 DEF HalfPot, Greatest
  <1> QED BY <1>1, <1>2, <1>3 DEF RaiseTarget, Greatest, Least, CanMakeRaise

(* A predicted action is accepted once it is sized, and so is a sampled    *)
(* one, but for a bet on a bet.                                            *)
LEMMA PredictedAccepted ==
    ASSUME NEW start \in [Seats -> Nat], NEW h, Running(h, start), CanAct(h),
           NEW type \in LegalActions(h), NEW d, d = Predicted(h, type)
    PROVE  /\ d.type \in ActionTypes /\ d.amount \in Int
           /\ 0 < BigBlind /\ Round(h) /\ StreetBet(h) /\ CanMakeRaise(h)
                 => Accepts(h, d.type, d.amount)
  <1>1. h \in Hand
    BY DEF Running
  <1>2. CASE type = "bet" /\ h.current_bet > 0 /\ d = Decision("check", 0)
    BY <1>1, <1>2, Reading, LegalAccepted DEF Decision, ActionTypes
  <1>3. CASE type = "bet" /\ ~(h.current_bet > 0) /\ d = Decision("bet", HalfPot(h))
    <2>1. d.type = "bet" /\ d.amount = HalfPot(h) /\ HalfPot(h) \in Int /\ HalfPot(h) >= BigBlind
      BY <1>1, <1>3, Sizes DEF Decision
    <2>2. Round(h) /\ StreetBet(h) => NoBet(h)
      <3>1. h.current_bet \in Int
        BY <1>1, Reading
      <3> QED BY <1>3, <3>1, WithoutPrice
    <2>3. 0 < BigBlind /\ Round(h) /\ StreetBet(h) /\ CanMakeRaise(h) => Accepts(h, "bet", HalfPot(h))
      BY <1>3, <2>1, <2>2, BetAccepted
    <2> QED BY <2>1, <2>3 DEF ActionTypes
  <1>4. CASE type \in {"raise", "call"} /\ d = Decision("call", Price(h))
    <2>1. "call" \in LegalActions(h) /\ Price(h) \in Int
      BY <1>1, <1>4, Reading
    <2> QED BY <1>1, <1>4, <2>1, LegalAccepted DEF Decision, ActionTypes
  <1>5. CASE /\ type = "raise" /\ d = Decision("raise", RaiseTarget(h, 2 * BigBlind))
             /\ ~(RaiseTarget(h, 2 * BigBlind) < h.min_raise_to)
    <2> DEFINE target == RaiseTarget(h, 2 * BigBlind)
    <2>1. /\ d.type = "raise" /\ d.amount = target /\ target \in Int /\ target <= Shove(h)
          /\ 0 < BigBlind => target > h.current_bet
      BY <1>1, <1>5, Sizes DEF Decision
    <2>2. target >= h.min_raise_to
      BY <1>1, <1>5, <2>1, Reading
    <2> HIDE DEF target
    <2>3. 0 < BigBlind => Accepts(h, "raise", target)
      BY <1>1, <1>5, <2>1, <2>2, RaiseIsAccepted
    <2> QED BY <2>1, <2>3 DEF ActionTypes
  <1>6. CASE type = "all_in" /\ d = Decision("all_in", Stack(h))
    BY <1>1, <1>6, Reading, LegalAccepted DEF Decision, ActionTypes
  <1>7. CASE type \in {"fold", "check"} /\ d = Decision(type, 0)
    BY <1>1, <1>7, Reading, LegalAccepted DEF Decision, ActionTypes
  <1> QED BY <1>1, <1>2, <1>3, <1>4, <1>5, <1>6, <1>7, PredictedSized

LEMMA SampledAccepted ==
    ASSUME NEW start \in [Seats -> Nat], NEW h, Running(h, start), CanAct(h),
           NEW type \in LegalActions(h), NEW d, d = Decision(type, SizeAction(h, type))
    PROVE  /\ d.type \in ActionTypes /\ d.amount \in Int
           /\ 0 < BigBlind /\ Round(h) /\ StreetBet(h) /\ CanMakeRaise(h)
                 => \/ Accepts(h, d.type, d.amount)
                    \/ d.type = "bet" /\ h.current_bet > 0
  <1>1. h \in Hand
    BY DEF Running
  <1>2. d.type = type /\ d.amount = SizeAction(h, type) /\ type \in ActionTypes
    BY <1>1, Reading DEF Decision
  <1>3. CASE type \in {"fold", "check"}
    <2>1. SizeAction(h, type) = 0
      BY <1>3 DEF SizeAction
    <2> QED BY <1>1, <1>2, <1>3, <2>1, Reading, LegalAccepted
  <1>4. CASE type = "call"
    <2>1. SizeAction(h, type) = Price(h)
      BY <1>4 DEF SizeAction
    <2> QED BY <1>1, <1>2, <1>4, <2>1, Reading, LegalAccepted
  <1>5. CASE type = "all_in"
    <2>1. SizeAction(h, type) = Stack(h)
      BY <1>5 DEF SizeAction
    <2> QED BY <1>1, <1>2, <1>5, <2>1, Reading, LegalAccepted
  <1>6. CASE type = "bet"
    <2> DEFINE size == Least(HalfPot(h), Stack(h))
    <2>1. SizeAction(h, type) = size
      BY <1>6 DEF SizeAction
    <2>2. /\ HalfPot(h) \in Int /\ HalfPot(h) >= BigBlind /\ Stack(h) \in Int
          /\ h.current_bet \in Int /\ h.invested[h.acting_seat] \in Int
          /\ Shove(h) = h.invested[h.acting_seat] + Stack(h)
      BY <1>1, Reading, Sizes
    <2>3. size \in Int
      BY <2>2 DEF Least
    <2>4. ASSUME 0 < BigBlind, Round(h), StreetBet(h), CanMakeRaise(h), ~(h.current_bet > 0)
          PROVE  Accepts(h, "bet", size)
      <3>1. NoBet(h)
        BY <2>2, <2>4, WithoutPrice
      <3>2. Stack(h) >= BigBlind
        <4>1. h.invested[h.acting_seat] = 0 /\ h.min_raise_to = BigBlind /\ BigBlind \in Nat
          BY <1>1, <3>1, ActingSeat, BlindsAssumption DEF NoBet
        <4> QED BY <2>2, <2>4, <4>1 DEF CanMakeRaise
      <3>3. size >= BigBlind
        BY <2>2, <3>2 DEF Least
      <3> HIDE DEF size
      <3> QED BY <1>6, <2>3, <2>4, <3>1, <3>3, BetAccepted
    <2> HIDE DEF size
    <2> QED BY <1>2, <1>6, <2>1, <2>3, <2>4
  <1>7. CASE type = "raise"
    <2> DEFINE target == RaiseTarget(h, 2 * BigBlind)
    <2>1. SizeAction(h, type) = target
      BY <1>7 DEF SizeAction
    <2>2. /\ target \in Int /\ target <= Shove(h)
          /\ CanMakeRaise(h) => target >= h.min_raise_to
          /\ 0 < BigBlind => target > h.current_bet
      BY <1>1, <1>7, Sizes
    <2> HIDE DEF target
    <2>3. 0 < BigBlind /\ CanMakeRaise(h) => Accepts(h, "raise", target)
      BY <1>1, <1>7, <2>2, RaiseIsAccepted
    <2> QED BY <1>2, <1>7, <2>1, <2>2, <2>3
  <1> QED BY <1>2, <1>3, <1>4, <1>5, <1>6, <1>7 DEF ActionTypes


LEMMA DecisionTaken ==
    ASSUME NEW start \in [Seats -> Nat], NEW h, Running(h, start), CanAct(h),
           NEW kind \in AgentKinds, NEW counts, NEW d \in Decisions(kind, h, counts)
    PROVE  /\ d.type \in ActionTypes /\ d.amount \in Int
           /\ 0 < BigBlind /\ Round(h) /\ StreetBet(h) /\ CanMakeRaise(h)
                 => \/ Accepts(h, d.type, d.amount)
                    \/ kind = "sampling" /\ d.type = "bet" /\ h.current_bet > 0
           /\ kind \in {"baseline", "adaptive"} /\ d.type = "fold" => Price(h) > 0
  <1>1. h \in Hand
    BY DEF Running
  <1>2. ASSUME Plain(h, d)
        PROVE  /\ d.type \in ActionTypes /\ d.amount \in Int
               /\ 0 < BigBlind /\ Round(h) /\ StreetBet(h) /\ CanMakeRaise(h)
                     => Accepts(h, d.type, d.amount)
               /\ d.type = "fold" => Price(h) > 0
    <2>1. d.type = "fold" => Price(h) > 0
      BY <1>2 DEF Plain, Opens, Reraises, Decision
    <2> QED BY <1>1, <1>2, <2>1, PlainTyped, PlainAccepted
  <1>3. CASE kind = "baseline"
    <2>1. PICK read \in Reads : d = Baseline(h, read)
      BY <1>3 DEF Decisions
    <2> QED BY <1>1, <1>2, <2>1, BaselinePlain
  <1>4. CASE kind = "adaptive"
    <2>1. PICK read \in Reads : d = Adaptive(h, counts, read)
      BY <1>4 DEF Decisions
    <2> QED BY <1>1, <1>2, <2>1, AdaptivePlain
  <1>5. CASE kind = "policy"
    <2>1. \/ \E read \in Reads : d = Baseline(h, read)
          \/ \E type \in LegalActions(h) : d = Predicted(h, type)
      BY <1>5 DEF Decisions
    <2>2. CASE \E read \in Reads : d = Baseline(h, read)
      BY <1>1, <1>2, <1>5, <2>2, BaselinePlain
    <2>3. CASE \E type \in LegalActions(h) : d = Predicted(h, type)
      BY <1>5, <2>3, PredictedAccepted
    <2> QED BY <2>1, <2>2, <2>3
  <1>6. CASE kind = "sampling"
    <2>1. PICK type \in LegalActions(h) : d = Decision(type, SizeAction(h, type))
      BY <1>6 DEF Decisions
    <2> QED BY <1>6, <2>1, SampledAccepted
  <1> QED BY <1>3, <1>4, <1>5, <1>6 DEF AgentKinds

-----------------------------------------------------------------------------
(* The inductive invariant.                                                *)

Row == [seat : Seats, type : ActionTypes, amount : Int]

(* The hand is one the engine has made, by the agents and over the cards   *)
(* that the table began with.                                              *)
HandInv ==
    /\ initial_stacks \in StackVectors /\ deck \in Rankings /\ agent \in [Seats -> AgentKinds]
    /\ Sound(hand, initial_stacks)
    /\ ~hand.is_terminal => Round(hand) /\ (Ordinary => StreetBet(hand))

(* What is stored rebuilds the hand, or the hand before the action that is *)
(* to be stored next.                                                      *)
StoreInv ==
    driver = "orchestrator" =>
        /\ log \in Seq(Row)
        /\ turn # "append_action" => ReplayHand(log) = RunAt(hand)
        /\ turn = "append_action" =>
               /\ applied \in Row
               /\ \E h : /\ ReplayHand(log) = RunAt(h)
                         /\ Accepts(h, applied.type, applied.amount)
                         /\ hand = ApplyAction(h, deck, applied.type, applied.amount)
        /\ final # None => final = hand /\ turn = "decide" /\ outcome # "playing"

LEMMA PlayBegins == PlayInit => HandInv /\ StoreInv
  <1> SUFFICES ASSUME PlayInit PROVE HandInv /\ StoreInv
    OBVIOUS
  <1>1. PICK button \in Seats : hand = StartNewHand(initial_stacks, button)
    BY DEF PlayInit
  <1>2. initial_stacks \in StackVectors /\ initial_stacks \in [Seats -> Nat]
    BY StacksAssumption DEF PlayInit
  <1>3. HandInv
    <2>1. Sound(hand, initial_stacks)
      BY <1>1, <1>2, StartSound
    <2>2. Ordinary => StreetBet(hand)
      BY <1>1, <1>2, StartBets
    <2>3. Round(hand)
      <3>1. hand.acted = {}
        <4>1. \A c, seat, amount : Commit(c, seat, amount).acted = c.acted
          BY DEF Commit
        <4> QED BY <1>1, <4>1 DEF StartNewHand
      <3> QED BY <3>1 DEF Round
    <2> QED BY <1>2, <2>1, <2>2, <2>3 DEF HandInv, PlayInit
  <1>4. StoreInv
    <2>1. hand.button = button
      BY <1>1, StartsAtButton
    <2>2. ReplayHand(<<>>) = RunAt(hand)
      BY <1>1, <2>1, ReplayNothing DEF ReplayHand, FreshHand
    <2>3. log = <<>> /\ turn = "decide" /\ final = None
      BY DEF PlayInit
    <2>4. <<>> \in Seq(Row)
      OBVIOUS
    <2> QED BY <2>2, <2>3, <2>4 DEF StoreInv
  <1> QED BY <1>3, <1>4

LEMMA DecisionStep ==
    HandInv /\ StoreInv /\ DecideAndApply => HandInv' /\ StoreInv'
  <1> SUFFICES ASSUME HandInv, StoreInv, DecideAndApply PROVE HandInv' /\ StoreInv'
    OBVIOUS
  <1>1. PICK d \in Options :
            /\ Accepts(hand, d.type, d.amount)
            /\ hand' = ApplyAction(hand, deck, d.type, d.amount)
            /\ applied' = [seat |-> hand.acting_seat, type |-> d.type, amount |-> d.amount]
    BY DEF DecideAndApply
  <1>2. initial_stacks \in [Seats -> Nat] /\ deck \in Rankings /\ CanAct(hand)
        /\ Sound(hand, initial_stacks)
    BY <1>1, StacksAssumption DEF HandInv, Accepts
  <1>3. Running(hand, initial_stacks) /\ hand \in Hand /\ ~hand.is_terminal
    BY <1>2 DEF Sound, Ended, CanAct, Running
  <1>4. hand.acting_seat \in Seats /\ agent[hand.acting_seat] \in AgentKinds
    BY <1>2, <1>3, ActingSeat DEF HandInv
  <1>5. d.type \in ActionTypes /\ d.amount \in Int
    BY <1>1, <1>2, <1>3, <1>4, DecisionTaken DEF Options
  <1>6. Sound(hand', initial_stacks) /\ Turns(hand', hand)
    <2>1. Round(hand)
      BY <1>3 DEF HandInv
    <2> QED BY <1>1, <1>2, <1>5, <2>1, AcceptedSound
  <1>7. UNCHANGED <<table, log, final, outcome>> /\ outcome = "playing" /\ turn = "decide"
        /\ turn' = IF driver = "orchestrator" THEN "append_action" ELSE "decide"
    BY DEF DecideAndApply
  <1>8. HandInv'
    <2>1. ~hand'.is_terminal => Round(hand') /\ (Ordinary => StreetBet(hand'))
      BY <1>3, <1>6 DEF Turns, Bids, HandInv
    <2> QED BY <1>6, <1>7, <2>1 DEF HandInv, table
  <1>9. StoreInv'
    <2> SUFFICES ASSUME driver = "orchestrator" PROVE StoreInv'
      BY <1>7 DEF StoreInv, table
    <2>1. applied' \in Row /\ applied'.type = d.type /\ applied'.amount = d.amount
      BY <1>1, <1>4, <1>5 DEF Row
    <2>2. hand'.button = hand.button
      BY <1>1, <1>5, ButtonStays
    <2>3. ReplayHand(log)' = ReplayHand(log)
      BY <1>7, <2>2 DEF ReplayHand, FreshHand, table
    <2>4. ReplayHand(log)' = RunAt(hand) /\ log' \in Seq(Row) /\ final' = None
      BY <1>7, <2>3 DEF StoreInv
    <2>5. deck' = deck /\ turn' = "append_action"
      BY <1>7 DEF table
    <2> QED BY <1>1, <2>1, <2>4, <2>5 DEF StoreInv
  <1> QED BY <1>8, <1>9

LEMMA StoreStep ==
    HandInv /\ StoreInv /\ AppendAction => HandInv' /\ StoreInv'
  <1> SUFFICES ASSUME HandInv, StoreInv, AppendAction PROVE HandInv' /\ StoreInv'
    OBVIOUS
  <1>1. /\ outcome = "playing" /\ turn = "append_action" /\ turn' = "append_trace"
        /\ log' = Append(log, applied)
        /\ UNCHANGED <<hand, table, applied, final, outcome>>
    BY DEF AppendAction
  <1>2. HandInv'
    BY <1>1 DEF HandInv, table
  <1>3. StoreInv'
    <2> SUFFICES ASSUME driver = "orchestrator" PROVE StoreInv'
      BY <1>1 DEF StoreInv, table
    <2>1. applied \in Row /\ log \in Seq(Row) /\ final = None
      BY <1>1 DEF StoreInv
    <2>2. PICK h : /\ ReplayHand(log) = RunAt(h)
                   /\ Accepts(h, applied.type, applied.amount)
                   /\ hand = ApplyAction(h, deck, applied.type, applied.amount)
      BY <1>1 DEF StoreInv
    <2>3. ReplayHand(Append(log, applied)) = ReplayRow(ReplayHand(log), deck, applied)
      BY <2>1, ReplayOneMore DEF ReplayHand
    <2>4. ReplayHand(Append(log, applied)) = RunAt(hand)
      BY <2>2, <2>3, ReplayAccepted
    <2>5. ReplayHand(log)' = ReplayHand(Append(log, applied))
      BY <1>1 DEF ReplayHand, FreshHand, table
    <2>6. log' \in Seq(Row)
      BY <1>1, <2>1
    <2> QED BY <1>1, <2>1, <2>4, <2>5, <2>6 DEF StoreInv
  <1> QED BY <1>2, <1>3

LEMMA PlayGoesOn == HandInv /\ StoreInv /\ [PlayNext]_playVars => HandInv' /\ StoreInv'
  <1> SUFFICES ASSUME HandInv, StoreInv, [PlayNext]_playVars PROVE HandInv' /\ StoreInv'
    OBVIOUS
  <1>1. CASE DecideAndApply
    BY <1>1, DecisionStep
  <1>2. CASE AppendAction
    BY <1>2, StoreStep
  <1>3. ASSUME UNCHANGED <<hand, table, log, applied>>,
               \/ UNCHANGED <<final, turn, outcome>>
               \/ turn # "append_action" /\ turn' # "append_action" /\ outcome = "playing"
                  /\ UNCHANGED <<final, outcome>>
               \/ UNCHANGED <<final, turn>> /\ outcome' # "playing"
               \/ turn = "decide" /\ turn' = turn /\ outcome' # "playing" /\ final' \in {hand, None}
        PROVE  HandInv' /\ StoreInv'
    <2>1. HandInv'
      BY <1>3 DEF HandInv, table
    <2>2. ReplayHand(log)' = ReplayHand(log) /\ driver' = driver /\ deck' = deck
      BY <1>3 DEF ReplayHand, FreshHand, table
    <2>3. StoreInv'
      BY <1>3, <2>2 DEF StoreInv
    <2> QED BY <2>1, <2>3
  <1>4. CASE DecisionRefused \/ StoreRaises
    BY <1>3, <1>4 DEF DecisionRefused, StoreRaises
  <1>5. CASE AppendTrace
    BY <1>3, <1>5 DEF AppendTrace
  <1>6. CASE Finish
    BY <1>3, <1>6 DEF Finish
  <1>7. CASE PlayOver \/ UNCHANGED playVars
    BY <1>3, <1>7 DEF PlayOver, playVars, table
  <1> QED BY <1>1, <1>2, <1>4, <1>5, <1>6, <1>7 DEF PlayNext

-----------------------------------------------------------------------------
(* Theorems.                                                               *)

(* Of blinds and stacks that are ordinary, an agent decides what the       *)
(* engine takes, as far as the seat has the chips for a raise.             *)
LEMMA TakesDecisions == Ordinary /\ HandInv => DecisionsAccepted
  <1> SUFFICES ASSUME Ordinary, HandInv, GoesOn, CanAct(hand), NEW d \in Options
               PROVE  LET kind == agent[hand.acting_seat]
                      IN  /\ \/ Accepts(hand, d.type, d.amount)
                             \/ ~CanMakeRaise(hand)
                             \/ kind = "sampling" /\ d.type = "bet" /\ hand.current_bet > 0
                          /\ kind \in {"baseline", "adaptive"} /\ d.type = "fold"
                                => Price(hand) > 0
    BY DEF DecisionsAccepted
  <1>1. initial_stacks \in [Seats -> Nat] /\ Running(hand, initial_stacks) /\ hand \in Hand
    BY StacksAssumption DEF HandInv, Sound, Ended, CanAct, Running
  <1>2. Round(hand) /\ StreetBet(hand) /\ 0 < BigBlind
    BY DEF HandInv, CanAct, Ordinary
  <1>3. agent[hand.acting_seat] \in AgentKinds
    BY <1>1, ActingSeat DEF HandInv
  <1> QED BY <1>1, <1>2, <1>3, DecisionTaken DEF Options

LEMMA StoreReplays == StoreInv => LogReplays
  <1> SUFFICES ASSUME StoreInv, driver = "orchestrator"
               PROVE  /\ ReplayHand(log).ok
                      /\ turn # "append_action" => ReplayHand(log).hand = hand
                      /\ final # None => final = ReplayHand(log).hand
    BY DEF LogReplays
  <1>1. \A h : RunAt(h).ok /\ RunAt(h).hand = h
    BY DEF RunAt
  <1> QED BY <1>1 DEF StoreInv

(* Whatever raises in between, the rows the orchestrator has stored play   *)
(* the hand again, and the final snapshot is what they rebuild.            *)
THEOREM StoredRowsReplay == PlaySpec => []LogReplays
  <1> QED BY PlayBegins, PlayGoesOn, StoreReplays, PTL DEF PlaySpec


(* In the composition the hand is the hand of the orchestrator's module.   *)
LEMMA PartsPlay == (PartsInit => PlayInit) /\ ([PartsNext]_partsVars => [PlayNext]_playVars)
  <1>1. PartsInit => PlayInit
    BY DEF PartsInit
  <1>2. PartsNext => PlayNext \/ UNCHANGED playVars
    BY DEF PartsNext, PlaysHand, PlaysTournament, Ranks, Values, Learns, Trains, Coaches,
           Profiled, Bends, Notices, Solves, Believes, partsVars
  <1>3. UNCHANGED partsVars => UNCHANGED playVars
    BY DEF partsVars
  <1> QED BY <1>1, <1>2, <1>3

(* Agents decide what the engine takes, and what the orchestrator stores   *)
(* of a hand plays it again, whatever an agent reads in the cards, for any *)
(* number of seats, any ordinary blinds and stacks, and any cap.           *)
THEOREM HandsAreHeld == Ordinary => (PartsSpec => []HandsHold)
  <1> SUFFICES ASSUME Ordinary PROVE PartsSpec => []HandsHold
    OBVIOUS
  <1>1. HandInv /\ StoreInv => HandsHold
    BY TakesDecisions, StoreReplays DEF HandsHold
  <1> QED BY <1>1, PlayBegins, PlayGoesOn, PartsPlay, PTL DEF PartsSpec


-----------------------------------------------------------------------------
(* Knockout tournaments.                                                   *)

Entered == \A i, j \in DOMAIN entrants : entrants[i] = entrants[j] => i = j

Competitors == Names \cup {NoName}
MatchRecords ==
    [seat0 : Competitors, seat1 : Competitors, hands : Int, profit : Int, wins0 : Int, wins1 : Int]
FixtureRecords ==
    [seat0 : Competitors, seat1 : Competitors, profit : Int, winner : Competitors]

(* The round under way: the winners so far are of the pairs before, in     *)
(* their order, and the match is that of the next pair.                    *)
Bracket(rem, nr, m) ==
    /\ rem \in Seq(Names) /\ \A i, j \in 1 .. Len(rem) : rem[i] = rem[j] => i = j
    /\ nr \in Seq(Names) /\ 2 * Len(nr) <= Len(rem)
    /\ \A j \in 1 .. Len(nr) : nr[j] \in {rem[2 * j - 1], rem[2 * j]}
    /\ m \in MatchRecords
    /\ \/ m = NoMatch
       \/ /\ 2 * Len(nr) + 2 <= Len(rem)
          /\ m.seat0 = rem[2 * Len(nr) + 1] /\ m.seat1 = rem[2 * Len(nr) + 2]

Has(rem, nr, name) ==
    \/ \E i \in 2 * Len(nr) + 1 .. Len(rem) : name = rem[i]
    \/ \E j \in 1 .. Len(nr) : name = nr[j]

Lost(past, name) ==
    {i \in DOMAIN past : /\ past[i].seat1 # NoName
                           /\ name \in {past[i].seat0, past[i].seat1}
                           /\ past[i].winner # name}

(* An entrant still in has lost no match, and any other exactly one.       *)
Judged(rem, nr, past) ==
    /\ past \in Seq(FixtureRecords)
    /\ \A name \in ToSet(entrants) :
          IF Has(rem, nr, name) THEN Lost(past, name) = {}
          ELSE \E i \in DOMAIN past : Lost(past, name) = {i}

KnockoutInv ==
    /\ entrants \in Seq(Names)
    /\ mode = "knockout" /\ Entered =>
           Bracket(remaining, next_round, match) /\ Judged(remaining, next_round, fixtures)

(* A pair has been played: who has lost it is out and nobody else.         *)
LEMMA OneOut ==
    ASSUME NEW rem, NEW nr, NEW m, Bracket(rem, nr, m), 2 * Len(nr) + 2 <= Len(rem),
           NEW winner, NEW loser,
           {winner, loser} = {rem[2 * Len(nr) + 1], rem[2 * Len(nr) + 2]}, winner # loser
    PROVE  /\ winner \in Names /\ loser \in Names
           /\ Bracket(rem, Append(nr, winner), NoMatch)
           /\ \A x : Has(rem, Append(nr, winner), x) <=> Has(rem, nr, x) /\ x # loser
  <1> DEFINE p == Len(nr)
             n == Len(rem)
             more == Append(nr, winner)
  <1>1. /\ p \in Nat /\ n \in Nat /\ 2 * p + 2 <= n /\ nr \in Seq(Names) /\ rem \in Seq(Names)
        /\ \A i \in 1 .. n : rem[i] \in Names
        /\ \A i, j \in 1 .. n : rem[i] = rem[j] => i = j
        /\ \A j \in 1 .. p : nr[j] \in {rem[2 * j - 1], rem[2 * j]}
    BY DEF Bracket
  <1>2. PICK a \in 1 .. n, b \in 1 .. n :
               /\ winner = rem[a] /\ loser = rem[b]
               /\ (a = 2 * p + 1 /\ b = 2 * p + 2) \/ (a = 2 * p + 2 /\ b = 2 * p + 1)
    <2>1. PICK k \in 1 .. n, l \in 1 .. n : k = 2 * p + 1 /\ l = 2 * p + 2
      BY <1>1
    <2>2. {winner, loser} = {rem[k], rem[l]}
      BY <2>1
    <2>3. (winner = rem[k] /\ loser = rem[l]) \/ (winner = rem[l] /\ loser = rem[k])
      BY <2>2
    <2> QED BY <2>1, <2>3
  <1>3. winner \in Names /\ loser \in Names
    BY <1>1, <1>2
  <1>4. /\ more \in Seq(Names) /\ Len(more) = p + 1 /\ more[p + 1] = winner
        /\ \A j \in 1 .. p : more[j] = nr[j]
    BY <1>1, <1>3
  <1> HIDE DEF p, n, more
  <1>5. \A j \in 1 .. p + 1 : j = p + 1 \/ j \in 1 .. p
    BY <1>1
  <1>6. Bracket(rem, more, NoMatch)
    <2>1. NoMatch \in MatchRecords
      BY DEF NoMatch, MatchRecords, Competitors
    <2>2. 2 * Len(more) <= n
      BY <1>1, <1>4
    <2>3. more[p + 1] \in {rem[2 * (p + 1) - 1], rem[2 * (p + 1)]}
      <3>1. 2 * (p + 1) - 1 = 2 * p + 1 /\ 2 * (p + 1) = 2 * p + 2
        BY <1>1
      <3> QED BY <1>2, <1>4, <3>1
    <2>4. \A j \in 1 .. Len(more) : more[j] \in {rem[2 * j - 1], rem[2 * j]}
      BY <1>1, <1>4, <1>5, <2>3
    <2> QED BY <1>1, <1>4, <2>1, <2>2, <2>4 DEF Bracket, n
  <1>7. \A x : /\ Has(rem, nr, x) <=> \/ \E i \in 2 * p + 1 .. n : x = rem[i]
                                      \/ \E j \in 1 .. p : x = nr[j]
               /\ Has(rem, more, x) <=> \/ \E i \in 2 * (p + 1) + 1 .. n : x = rem[i]
                                        \/ \E j \in 1 .. p + 1 : x = more[j]
    BY <1>4 DEF Has, p, n
  <1>8. ASSUME NEW x, NEW i \in 2 * (p + 1) + 1 .. n, x = rem[i]
        PROVE  (\E k \in 2 * p + 1 .. n : x = rem[k]) /\ x # loser
    <2>1. i \in 2 * p + 1 .. n /\ i \in 1 .. n /\ i # b
      BY <1>1, <1>2, <1>8
    <2> QED BY <1>1, <1>2, <1>8, <2>1
  <1>9. winner # loser /\ \E k \in 2 * p + 1 .. n : winner = rem[k]
    <2>1. a \in 2 * p + 1 .. n
      BY <1>1, <1>2
    <2> QED BY <1>2, <2>1
  <1>10. ASSUME NEW x, NEW j \in 1 .. p, x = nr[j] PROVE x # loser
    <2>1. nr[j] \in {rem[2 * j - 1], rem[2 * j]}
      BY <1>1
    <2>2. 2 * j - 1 \in 1 .. n /\ 2 * j \in 1 .. n /\ 2 * j - 1 # b /\ 2 * j # b
      BY <1>1, <1>2
    <2> QED BY <1>1, <1>2, <1>10, <2>1, <2>2
  <1>11. ASSUME NEW x, Has(rem, more, x) PROVE Has(rem, nr, x) /\ x # loser
    <2>1. CASE \E i \in 2 * (p + 1) + 1 .. n : x = rem[i]
      BY <1>7, <1>8, <2>1
    <2>2. ASSUME NEW j \in 1 .. p + 1, x = more[j] PROVE Has(rem, nr, x) /\ x # loser
      BY <1>4, <1>5, <1>7, <1>9, <1>10, <2>2
    <2> QED BY <1>7, <1>11, <2>1, <2>2
  <1>12. ASSUME NEW x, Has(rem, nr, x), x # loser PROVE Has(rem, more, x)
    <2>1. ASSUME NEW i \in 2 * p + 1 .. n, x = rem[i] PROVE Has(rem, more, x)
      <3>1. CASE i \in {a, b}
        <4>1. x = winner /\ p + 1 \in 1 .. p + 1
          BY <1>1, <1>2, <1>12, <2>1, <3>1
        <4> QED BY <1>4, <1>7, <4>1
      <3>2. CASE i \notin {a, b}
        <4>1. i \in 2 * (p + 1) + 1 .. n
          BY <1>1, <1>2, <3>2
        <4> QED BY <1>7, <2>1, <4>1
      <3> QED BY <3>1, <3>2
    <2>2. ASSUME NEW j \in 1 .. p, x = nr[j] PROVE Has(rem, more, x)
      <3>1. j \in 1 .. p + 1 /\ x = more[j]
        BY <1>1, <1>4, <2>2
      <3> QED BY <1>7, <3>1
    <2> QED BY <1>7, <1>12, <2>1, <2>2
  <1> QED BY <1>3, <1>6, <1>11, <1>12 DEF more

(* The pairs of a round have been played: the winners and who had a bye    *)
(* make up the next round, and nobody is out by that.                      *)
LEMMA NextRoundBegins ==
    ASSUME Bracket(remaining, next_round, NoMatch), ~PairLeft
    PROVE  /\ Bracket(next_round \o Bye, <<>>, NoMatch)
           /\ \A x : Has(next_round \o Bye, <<>>, x) <=> Has(remaining, next_round, x)
  <1> DEFINE p == Len(next_round)
             n == Len(remaining)
             on == next_round \o Bye
  <1>1. /\ p \in Nat /\ n \in Nat /\ 2 * p <= n
        /\ next_round \in Seq(Names) /\ remaining \in Seq(Names)
        /\ \A i \in 1 .. n : remaining[i] \in Names
        /\ \A i, j \in 1 .. n : remaining[i] = remaining[j] => i = j
        /\ \A j \in 1 .. p : next_round[j] \in {remaining[2 * j - 1], remaining[2 * j]}
    BY DEF Bracket
  <1>2. n = 2 * p \/ n = 2 * p + 1
    BY <1>1 DEF PairLeft, PairsPlayed
  <1>3. PICK q : /\ q \in Nat /\ on \in Seq(Names) /\ Len(on) = q
                 /\ \A j \in 1 .. p : on[j] = next_round[j]
                 /\ \/ q = p /\ n = 2 * p
                    \/ q = p + 1 /\ n = 2 * p + 1 /\ on[p + 1] = remaining[n]
    <2>1. CASE n = 2 * p
      <3>1. n % 2 = 0
        BY <1>1, <2>1
      <3>2. Bye = <<>>
        BY <3>1 DEF Bye
      <3>3. on = next_round
        BY <1>1, <3>2
      <3> QED BY <1>1, <2>1, <3>3
    <2>2. CASE n = 2 * p + 1
      <3>1. n % 2 = 1 /\ n \in 1 .. n
        BY <1>1, <2>2
      <3>2. Bye = <<remaining[n]>> /\ remaining[n] \in Names
        BY <1>1, <3>1 DEF Bye
      <3>3. /\ on \in Seq(Names) /\ Len(on) = p + 1 /\ on[p + 1] = remaining[n]
            /\ \A j \in 1 .. p : on[j] = next_round[j]
        BY <1>1, <3>2
      <3> QED BY <1>1, <2>2, <3>3
    <2> QED BY <1>2, <2>1, <2>2
  <1> HIDE DEF p, n, on
  <1>4. ASSUME NEW j \in 1 .. q
        PROVE  \E k \in 1 .. n : on[j] = remaining[k] /\ (k = 2 * j - 1 \/ k = 2 * j)
    <2>1. CASE j \in 1 .. p
      <3>1. 2 * j - 1 \in 1 .. n /\ 2 * j \in 1 .. n
        BY <1>1, <2>1
      <3> QED BY <1>1, <1>3, <2>1, <3>1
    <2>2. CASE j \notin 1 .. p
      <3>1. j = p + 1 /\ n = 2 * j - 1 /\ n \in 1 .. n /\ on[j] = remaining[n]
        BY <1>1, <1>3, <2>2
      <3> QED BY <3>1
    <2> QED BY <2>1, <2>2
  <1>5. ASSUME NEW i \in 1 .. q, NEW j \in 1 .. q, on[i] = on[j] PROVE i = j
    <2>1. PICK k \in 1 .. n : on[i] = remaining[k] /\ (k = 2 * i - 1 \/ k = 2 * i)
      BY <1>4
    <2>2. PICK l \in 1 .. n : on[j] = remaining[l] /\ (l = 2 * j - 1 \/ l = 2 * j)
      BY <1>4
    <2>3. k = l
      BY <1>1, <1>5, <2>1, <2>2
    <2> QED BY <1>3, <2>1, <2>2, <2>3
  <1>6. NoMatch \in MatchRecords /\ Len(<<>>) = 0 /\ <<>> \in Seq(Names)
    BY DEF NoMatch, MatchRecords, Competitors
  <1>7. Bracket(on, <<>>, NoMatch)
    BY <1>3, <1>5, <1>6 DEF Bracket
  <1>8. \A x : Has(on, <<>>, x) <=> \E i \in 1 .. q : x = on[i]
    BY <1>3, <1>6 DEF Has
  <1>9. \A x : Has(remaining, next_round, x) <=> \/ \E i \in 2 * p + 1 .. n : x = remaining[i]
                                                 \/ \E j \in 1 .. p : x = next_round[j]
    BY DEF Has, p, n
  <1>10. ASSUME NEW x, NEW i \in 1 .. q, x = on[i] PROVE Has(remaining, next_round, x)
    <2>1. CASE i \in 1 .. p
      BY <1>3, <1>9, <1>10, <2>1
    <2>2. CASE i \notin 1 .. p
      <3>1. i = p + 1 /\ n = 2 * p + 1 /\ on[p + 1] = remaining[n] /\ n \in 2 * p + 1 .. n
        BY <1>1, <1>3, <2>2
      <3> QED BY <1>9, <1>10, <3>1
    <2> QED BY <2>1, <2>2
  <1>11. ASSUME NEW x, NEW i \in 2 * p + 1 .. n, x = remaining[i] PROVE \E k \in 1 .. q : x = on[k]
    <2>1. i = n /\ q = p + 1 /\ on[p + 1] = remaining[n] /\ p + 1 \in 1 .. q
      BY <1>1, <1>3
    <2> QED BY <1>11, <2>1
  <1>12. ASSUME NEW x, NEW j \in 1 .. p, x = next_round[j] PROVE \E k \in 1 .. q : x = on[k]
    <2>1. j \in 1 .. q
      BY <1>1, <1>3
    <2> QED BY <1>3, <1>12, <2>1
  <1> QED BY <1>7, <1>8, <1>9, <1>10, <1>11, <1>12 DEF on

(* A match more in the list is one defeat more for one name.               *)
LEMMA LostOneMore ==
    ASSUME NEW past \in Seq(FixtureRecords), NEW f \in FixtureRecords, NEW name
    PROVE  /\ Append(past, f) \in Seq(FixtureRecords)
           /\ Lost(Append(past, f), name) =
                IF f.seat1 # NoName /\ name \in {f.seat0, f.seat1} /\ f.winner # name
                THEN Lost(past, name) \cup {Len(past) + 1} ELSE Lost(past, name)
  <1> DEFINE n == Len(past)
             more == Append(past, f)
  <1>1. /\ n \in Nat /\ DOMAIN past = 1 .. n /\ DOMAIN more = 1 .. n + 1
        /\ more[n + 1] = f /\ \A i \in 1 .. n : more[i] = past[i]
        /\ more \in Seq(FixtureRecords)
    OBVIOUS
  <1> HIDE DEF n, more
  <1>2. /\ \A i \in 1 .. n + 1 : i = n + 1 \/ i \in 1 .. n
        /\ \A i \in 1 .. n : i \in 1 .. n + 1 /\ i # n + 1
        /\ n + 1 \in 1 .. n + 1
    BY <1>1
  <1> QED BY <1>1, <1>2 DEF Lost, n, more

(* Results with one name only, or none, leave every defeat where it was.   *)
LEMMA ByesCostNothing ==
    ASSUME NEW past \in Seq(FixtureRecords), NEW more \in Seq(FixtureRecords), NEW name,
           \A i \in DOMAIN more : more[i].seat1 = NoName
    PROVE  past \o more \in Seq(FixtureRecords) /\ Lost(past \o more, name) = Lost(past, name)
  <1> DEFINE n == Len(past)
             l == Len(more)
             all == past \o more
  <1>1. /\ n \in Nat /\ l \in Nat /\ DOMAIN past = 1 .. n /\ DOMAIN all = 1 .. n + l
        /\ \A i \in 1 .. n : all[i] = past[i]
        /\ \A i \in n + 1 .. n + l : all[i] = more[i - n] /\ i - n \in DOMAIN more
        /\ all \in Seq(FixtureRecords)
    OBVIOUS
  <1> HIDE DEF n, l, all
  <1>2. \A i \in 1 .. n + l : i \in 1 .. n \/ i \in n + 1 .. n + l
    BY <1>1
  <1>3. \A i \in 1 .. n : i \in 1 .. n + l
    BY <1>1
  <1> QED BY <1>1, <1>2, <1>3 DEF Lost, all

LEMMA MatchBegins ==
    ASSUME NEW a \in Names, NEW b \in Names
    PROVE  /\ NewMatch(a, b) \in MatchRecords
           /\ NewMatch(a, b).seat0 = a /\ NewMatch(a, b).seat1 = b /\ NewMatch(a, b).hands = 0
           /\ NewMatch(a, b).wins0 = 0 /\ NewMatch(a, b).wins1 = 0
  <1>1. PICK m : m = NewMatch(a, b)
    OBVIOUS
  <1>2. m = [seat0 |-> a, seat1 |-> b, hands |-> 0, profit |-> 0, wins0 |-> 0, wins1 |-> 0]
    BY <1>1 DEF NewMatch, NoMatch
  <1>3. /\ m \in MatchRecords /\ m.seat0 = a /\ m.seat1 = b /\ m.hands = 0
        /\ m.wins0 = 0 /\ m.wins1 = 0
    BY <1>2 DEF MatchRecords, Competitors
  <1> QED BY <1>1, <1>3

LEMMA HandOfMatch ==
    ASSUME match \in MatchRecords, PlayHand
    PROVE  /\ match' \in MatchRecords
           /\ match'.seat0 = match.seat0 /\ match'.seat1 = match.seat1
           /\ match'.hands = match.hands + 1
           /\ match'.wins0 \in {match.wins0, match.wins0 + 1}
           /\ match'.wins1 \in {match.wins1, match.wins1 + 1}
  <1>1. PICK swing \in -MaxSwing .. MaxSwing :
           match' = [match EXCEPT !.hands = @ + 1,
                                  !.profit = @ + swing,
                                  !.wins0 = @ + (IF swing > 0 THEN 1 ELSE 0),
                                  !.wins1 = @ + (IF swing < 0 THEN 1 ELSE 0)]
    BY DEF PlayHand
  <1>2. swing \in Int
    BY MatchAssumption
  <1>3. PICK one \in {0, 1}, other \in {0, 1} :
           match' = [match EXCEPT !.hands = @ + 1, !.profit = @ + swing,
                                  !.wins0 = @ + one, !.wins1 = @ + other]
    BY <1>1
  <1>4. PICK m \in MatchRecords : m = match
    OBVIOUS
  <1>5. /\ m.seat0 \in Competitors /\ m.seat1 \in Competitors /\ m.hands \in Int
        /\ m.profit \in Int /\ m.wins0 \in Int /\ m.wins1 \in Int
    BY DEF MatchRecords
  <1>6. match' = [seat0 |-> m.seat0, seat1 |-> m.seat1, hands |-> m.hands + 1,
                  profit |-> m.profit + swing, wins0 |-> m.wins0 + one, wins1 |-> m.wins1 + other]
    BY <1>3, <1>4 DEF MatchRecords
  <1>7. /\ m.hands + 1 \in Int /\ m.profit + swing \in Int /\ m.wins0 + one \in Int
        /\ m.wins1 + other \in Int
    BY <1>2, <1>5
  <1>8. m.wins0 + one \in {m.wins0, m.wins0 + 1} /\ m.wins1 + other \in {m.wins1, m.wins1 + 1}
    BY <1>5
  <1> QED BY <1>4, <1>5, <1>6, <1>7, <1>8 DEF MatchRecords

LEMMA TournamentStart == TournamentInit => KnockoutInv
  <1> SUFFICES ASSUME TournamentInit PROVE KnockoutInv
    OBVIOUS
  <1>0. entrants \in Seq(Names)
    BY FieldsAssumption DEF TournamentInit, Modes
  <1> SUFFICES ASSUME mode = "knockout", Entered
               PROVE  /\ Bracket(remaining, next_round, match)
                      /\ Judged(remaining, next_round, fixtures)
    BY <1>0 DEF KnockoutInv
  <1>1. /\ entrants \in Seq(Names) /\ remaining = entrants /\ fixtures = <<>>
        /\ next_round = <<>> /\ match = NoMatch
    BY FieldsAssumption DEF TournamentInit, Modes
  <1> DEFINE n == Len(entrants)
  <1>2. /\ n \in Nat /\ DOMAIN entrants = 1 .. n
        /\ \A i, j \in 1 .. n : entrants[i] = entrants[j] => i = j
    BY <1>1 DEF Entered
  <1> HIDE DEF n
  <1>3. NoMatch \in MatchRecords /\ Len(<<>>) = 0 /\ <<>> \in Seq(Names)
    BY DEF NoMatch, MatchRecords, Competitors
  <1>4. Bracket(entrants, <<>>, NoMatch)
    BY <1>1, <1>2, <1>3 DEF Bracket, n
  <1>5. \A x : Has(entrants, <<>>, x) <=> \E i \in 1 .. n : x = entrants[i]
    BY <1>3, <1>2 DEF Has, n
  <1>6. \A x \in ToSet(entrants) : Has(entrants, <<>>, x)
    BY <1>2, <1>5 DEF ToSet
  <1>7. <<>> \in Seq(FixtureRecords) /\ \A x : Lost(<<>>, x) = {}
    BY DEF Lost
  <1> QED BY <1>1, <1>4, <1>6, <1>7 DEF Judged

LEMMA TournamentGoesOn == KnockoutInv /\ [TournamentNext]_tournamentVars => KnockoutInv'
  <1> SUFFICES ASSUME KnockoutInv, [TournamentNext]_tournamentVars PROVE KnockoutInv'
    OBVIOUS
  <1>1. mode' = mode /\ entrants' = entrants
    BY DEF TournamentNext, tournamentVars, StartFixture, PlayHand, FinishFixture, StartPair,
           FinishPair, EndRound, TournamentStays
  <1> SUFFICES ASSUME mode' = "knockout", Entered'
               PROVE  /\ Bracket(remaining', next_round', match')
                      /\ Judged(remaining, next_round, fixtures)'
    BY <1>1 DEF KnockoutInv, Bracket
  <1>2. mode = "knockout" /\ Entered
    BY <1>1 DEF Entered
  <1>3. Bracket(remaining, next_round, match) /\ Judged(remaining, next_round, fixtures)
    BY <1>2 DEF KnockoutInv
  <1>4. ASSUME UNCHANGED <<remaining, next_round, fixtures>>
        PROVE  Judged(remaining, next_round, fixtures)'
    BY <1>1, <1>3, <1>4 DEF Judged
  <1>5. CASE PlayHand
    <2>1. /\ match \in MatchRecords /\ match # NoMatch
          /\ UNCHANGED <<remaining, next_round, fixtures>>
      BY <1>3, <1>5 DEF Bracket, PlayHand, Idle
    <2>2. match' \in MatchRecords /\ match'.seat0 = match.seat0 /\ match'.seat1 = match.seat1
      BY <1>5, <2>1, HandOfMatch
    <2> QED BY <1>3, <1>4, <2>1, <2>2 DEF Bracket
  <1>6. CASE StartPair
    <2> DEFINE p == Len(next_round)
    <2>1. /\ 2 * p + 1 < Len(remaining) /\ UNCHANGED <<remaining, next_round, fixtures>>
          /\ match' = NewMatch(remaining[2 * p + 1], remaining[2 * p + 2])
      BY <1>6 DEF StartPair, PairLeft, PairsPlayed
    <2>2. /\ p \in Nat /\ Len(remaining) \in Nat /\ remaining \in Seq(Names)
      BY <1>3 DEF Bracket
    <2> HIDE DEF p
    <2>3. PICK a \in Names, b \in Names : a = remaining[2 * p + 1] /\ b = remaining[2 * p + 2]
      BY <2>1, <2>2
    <2>4. match' \in MatchRecords /\ match'.seat0 = a /\ match'.seat1 = b
      BY <2>1, <2>3, MatchBegins
    <2>5. 2 * p + 2 <= Len(remaining)
      BY <2>1, <2>2
    <2> QED BY <1>3, <1>4, <2>1, <2>3, <2>4, <2>5 DEF Bracket, p
  <1>7. CASE FinishPair
    <2> DEFINE p == Len(next_round)
               winner == IF match.profit >= 0 THEN match.seat0 ELSE match.seat1
               loser == IF match.profit >= 0 THEN match.seat1 ELSE match.seat0
               f == [seat0 |-> match.seat0, seat1 |-> match.seat1,
                     profit |-> match.profit, winner |-> winner]
    <2>1. /\ match # NoMatch /\ match' = NoMatch /\ remaining' = remaining
          /\ next_round' = Append(next_round, winner) /\ fixtures' = Append(fixtures, f)
      BY <1>7 DEF FinishPair, MatchOver, Idle, Fixture
    <2>2. /\ 2 * p + 2 <= Len(remaining) /\ match \in MatchRecords
          /\ match.seat0 = remaining[2 * p + 1] /\ match.seat1 = remaining[2 * p + 2]
      BY <1>3, <2>1 DEF Bracket
    <2>3. /\ p \in Nat /\ Len(remaining) \in Nat /\ remaining \in Seq(Names)
          /\ \A i, j \in 1 .. Len(remaining) : remaining[i] = remaining[j] => i = j
      BY <1>3 DEF Bracket
    <2>4. match.seat0 # match.seat1 /\ match.seat0 \in Names /\ match.seat1 \in Names
      <3> HIDE DEF p
      <3>1. 2 * p + 1 \in 1 .. Len(remaining) /\ 2 * p + 2 \in 1 .. Len(remaining)
        BY <2>2, <2>3
      <3>2. 2 * p + 1 # 2 * p + 2
        BY <2>3
      <3> QED BY <2>2, <2>3, <3>1, <3>2
    <2>5. /\ {winner, loser} = {remaining[2 * p + 1], remaining[2 * p + 2]} /\ winner # loser
          /\ winner \in {match.seat0, match.seat1}
          /\ {winner, loser} = {match.seat0, match.seat1}
      BY <2>2, <2>4
    <2>6. f \in FixtureRecords /\ f.seat1 # NoName /\ f.seat0 = match.seat0
          /\ f.seat1 = match.seat1 /\ f.winner = winner
      BY <2>2, <2>4, <2>5, NamesAssumption DEF FixtureRecords, MatchRecords, Competitors
    <2> HIDE DEF winner, loser, f
    <2>7. /\ winner \in Names /\ loser \in Names
          /\ Bracket(remaining, Append(next_round, winner), NoMatch)
          /\ \A x : Has(remaining, Append(next_round, winner), x)
                        <=> Has(remaining, next_round, x) /\ x # loser
      BY <1>3, <2>2, <2>5, OneOut
    <2>8. fixtures \in Seq(FixtureRecords)
      BY <1>3 DEF Judged
    <2>9. /\ fixtures' \in Seq(FixtureRecords) /\ Len(fixtures) \in Nat
          /\ DOMAIN fixtures = 1 .. Len(fixtures) /\ DOMAIN fixtures' = 1 .. Len(fixtures) + 1
          /\ \A name : Lost(fixtures', name) = IF name = loser
                                               THEN Lost(fixtures, name) \cup {Len(fixtures) + 1}
                                               ELSE Lost(fixtures, name)
      <3>1. ASSUME NEW name
            PROVE  Lost(fixtures', name) = IF name = loser
                                           THEN Lost(fixtures, name) \cup {Len(fixtures) + 1}
                                           ELSE Lost(fixtures, name)
        <4>1. Lost(fixtures', name) =
                IF f.seat1 # NoName /\ name \in {f.seat0, f.seat1} /\ f.winner # name
                THEN Lost(fixtures, name) \cup {Len(fixtures) + 1} ELSE Lost(fixtures, name)
          BY <2>1, <2>6, <2>8, LostOneMore
        <4>2. name \in {f.seat0, f.seat1} /\ f.winner # name <=> name = loser
          BY <2>5, <2>6
        <4> QED BY <2>6, <4>1, <4>2
      <3>2. /\ fixtures' \in Seq(FixtureRecords) /\ Len(fixtures) \in Nat
            /\ DOMAIN fixtures = 1 .. Len(fixtures) /\ DOMAIN fixtures' = 1 .. Len(fixtures) + 1
        BY <2>1, <2>6, <2>8
      <3> QED BY <3>1, <3>2
    <2>10. ASSUME NEW name \in ToSet(entrants)
           PROVE  IF Has(remaining', next_round', name) THEN Lost(fixtures', name) = {}
                  ELSE \E i \in DOMAIN fixtures' : Lost(fixtures', name) = {i}
      <3>1. /\ Has(remaining, next_round, name) => Lost(fixtures, name) = {}
            /\ ~Has(remaining, next_round, name) =>
                   \E i \in DOMAIN fixtures : Lost(fixtures, name) = {i}
        BY <1>3 DEF Judged
      <3>2. Has(remaining', next_round', name) <=> Has(remaining, next_round, name) /\ name # loser
        BY <2>1, <2>7
      <3>3. Has(remaining, next_round, loser)
        <4>1. PICK k \in 2 * p + 1 .. Len(remaining) : loser = remaining[k]
          BY <2>2, <2>3, <2>5
        <4> QED BY <4>1 DEF Has
      <3>4. /\ \A i \in DOMAIN fixtures : i \in DOMAIN fixtures'
            /\ Len(fixtures) + 1 \in DOMAIN fixtures'
        BY <2>9
      <3>5. CASE name = loser
        BY <2>9, <3>1, <3>2, <3>3, <3>4, <3>5
      <3>6. CASE name # loser
        BY <2>9, <3>1, <3>2, <3>4, <3>6
      <3> QED BY <3>5, <3>6
    <2> QED BY <1>1, <2>1, <2>7, <2>9, <2>10 DEF Judged
  <1>8. CASE EndRound
    <2> DEFINE byes == [i \in DOMAIN Bye |-> [seat0 |-> Bye[i], seat1 |-> NoName, profit |-> 0,
                                              winner |-> Bye[i]]]
    <2>1. /\ match = NoMatch /\ match' = match /\ ~PairLeft /\ remaining' = next_round \o Bye
          /\ next_round' = <<>> /\ fixtures' = fixtures \o byes
      BY <1>8 DEF EndRound, Idle
    <2>2. Bye \in Seq(Names)
      <3>1. remaining \in Seq(Names)
        BY <1>3 DEF Bracket
      <3>2. Len(remaining) % 2 = 1 => Len(remaining) # 0
        BY <3>1
      <3>3. Len(remaining) % 2 = 1 => remaining[Len(remaining)] \in Names
        BY <3>1, <3>2
      <3> QED BY <3>3 DEF Bye
    <2>3. byes \in Seq(FixtureRecords) /\ \A i \in DOMAIN byes : byes[i].seat1 = NoName
      <3> DEFINE l == Len(Bye)
      <3>1. l \in Nat /\ DOMAIN Bye = 1 .. l /\ \A i \in 1 .. l : Bye[i] \in Names
        BY <2>2
      <3> HIDE DEF l
      <3>2. \A i \in 1 .. l : [seat0 |-> Bye[i], seat1 |-> NoName, profit |-> 0,
                               winner |-> Bye[i]] \in FixtureRecords
        BY <3>1 DEF FixtureRecords, Competitors
      <3>3. byes \in [1 .. l -> FixtureRecords]
        BY <3>1, <3>2
      <3> QED BY <3>1, <3>3, SeqDef
    <2> HIDE DEF byes
    <2>4. /\ Bracket(remaining', next_round', match')
          /\ \A x : Has(remaining', next_round', x) <=> Has(remaining, next_round, x)
      BY <1>3, <2>1, NextRoundBegins
    <2>5. fixtures \in Seq(FixtureRecords)
      BY <1>3 DEF Judged
    <2>6. fixtures' \in Seq(FixtureRecords) /\ \A name : Lost(fixtures', name) = Lost(fixtures, name)
      BY <2>1, <2>3, <2>5, ByesCostNothing
    <2>7. \A i \in DOMAIN fixtures : i \in DOMAIN fixtures'
      BY <2>1, <2>3, <2>5
    <2>8. Judged(remaining, next_round, fixtures)'
      BY <1>1, <1>3, <2>4, <2>6, <2>7 DEF Judged
    <2> QED BY <2>4, <2>8
  <1>9. CASE UNCHANGED tournamentVars
    BY <1>3, <1>4, <1>9 DEF tournamentVars
  <1> QED BY <1>2, <1>5, <1>6, <1>7, <1>8, <1>9
          DEF TournamentNext, StartFixture, FinishFixture, TournamentStays

(* Who has lost a match is out and nobody else, in the words of the        *)
(* property.                                                               *)
LEMMA DefeatEliminates == KnockoutInv => OneDefeatEliminates
  <1>1. ASSUME KnockoutInv, mode = "knockout", \A name \in Names : Entries(name) <= 1
        PROVE  \A name \in ToSet(entrants) :
                   Losses(name) = (IF name \in StillIn THEN 0 ELSE 1)
    <2>1. entrants \in Seq(Names)
      BY <1>1 DEF KnockoutInv
    <2>2. Entered
      <3> DEFINE n == Len(entrants)
      <3>1. n \in Nat /\ DOMAIN entrants = 1 .. n /\ \A i \in 1 .. n : entrants[i] \in Names
        BY <2>1
      <3> HIDE DEF n
      <3> SUFFICES ASSUME NEW i \in 1 .. n, NEW j \in 1 .. n, entrants[i] = entrants[j], i # j
                   PROVE  FALSE
        BY <3>1 DEF Entered
      <3> DEFINE places == {k \in DOMAIN entrants : entrants[k] = entrants[i]}
      <3>2. IsFiniteSet(1 .. n)
        BY <3>1, FS_Interval
      <3>3. IsFiniteSet(places) /\ Cardinality(places) \in Nat
        BY <3>1, <3>2, FS_Subset, FS_CardinalityType
      <3>4. Cardinality(places) <= 1
        BY <1>1, <3>1 DEF Entries
      <3>5. i \in places /\ j \in places
        BY <3>1
      <3> HIDE DEF places
      <3>6. Cardinality(places) = 0 \/ Cardinality(places) = 1
        BY <3>3, <3>4
      <3>7. CASE Cardinality(places) = 0
        BY <3>3, <3>5, <3>7, FS_EmptySet
      <3>8. CASE Cardinality(places) = 1
        <4>1. PICK x : places = {x}
          BY <3>3, <3>8, FS_Singleton
        <4> QED BY <3>5, <4>1
      <3> QED BY <3>6, <3>7, <3>8
    <2>3. Bracket(remaining, next_round, match) /\ Judged(remaining, next_round, fixtures)
      BY <1>1, <2>2 DEF KnockoutInv
    <2>4. ASSUME NEW name \in ToSet(entrants)
          PROVE  Losses(name) = (IF name \in StillIn THEN 0 ELSE 1)
      <3>1. Losses(name) = Cardinality(Lost(fixtures, name))
        <4>1. {i \in Played : LostIn(name, i)} = Lost(fixtures, name)
          BY DEF Played, LostIn, Lost
        <4> QED BY <4>1 DEF Losses
      <3>2. name \in StillIn <=> Has(remaining, next_round, name)
        <4>1. DOMAIN next_round = 1 .. Len(next_round)
          BY <2>3 DEF Bracket
        <4> QED BY <4>1 DEF StillIn, PairsPlayed, ToSet, Has
      <3>3. IF Has(remaining, next_round, name) THEN Lost(fixtures, name) = {}
            ELSE \E i \in DOMAIN fixtures : Lost(fixtures, name) = {i}
        BY <2>3 DEF Judged
      <3> QED BY <3>1, <3>2, <3>3, FS_EmptySet, FS_Singleton
    <2> QED BY <2>4
  <1> QED BY <1>1 DEF OneDefeatEliminates

-----------------------------------------------------------------------------
(* Sums over finite sets, as MapThenSumSet computes them.                  *)

Sums(g, f, S) ==
    g = [s \in SUBSET S |->
            IF s = {} THEN 0
            ELSE LET x == CHOOSE x \in s : TRUE IN f[x] + g[s \ {x}]]

LEMMA SmallerSet ==
    ASSUME NEW s, IsFiniteSet(s), s # {}, NEW n \in Nat, Cardinality(s) <= n + 1
    PROVE  /\ (CHOOSE x \in s : TRUE) \in s
           /\ IsFiniteSet(s \ {CHOOSE x \in s : TRUE})
           /\ Cardinality(s \ {CHOOSE x \in s : TRUE}) <= n
  <1> DEFINE x == CHOOSE x \in s : TRUE
  <1>1. x \in s
    OBVIOUS
  <1> HIDE DEF x
  <1>2. /\ IsFiniteSet(s \ {x}) /\ Cardinality(s \ {x}) = Cardinality(s) - 1
        /\ Cardinality(s) \in Nat
    BY <1>1, FS_RemoveElement, FS_CardinalityType
  <1>3. Cardinality(s \ {x}) <= n
    BY <1>2
  <1> QED BY <1>1, <1>2, <1>3 DEF x

(* A sum is one function of the set: there is one, and it is of whole      *)
(* numbers.                                                                *)
LEMMA SumsExist ==
    ASSUME NEW S, IsFiniteSet(S), NEW f
    PROVE  \E g : Sums(g, f, S)
  <1> DEFINE UpTo(n) == {s \in SUBSET S : Cardinality(s) <= n}
             Part(g, n) ==
                 g = [s \in UpTo(n) |->
                         IF s = {} THEN 0
                         ELSE LET x == CHOOSE x \in s : TRUE IN f[x] + g[s \ {x}]]
             N == {n \in Nat : \E g : Part(g, n)}
  <1>1. \A s \in SUBSET S : IsFiniteSet(s) /\ Cardinality(s) \in Nat
    BY FS_Subset, FS_CardinalityType
  <1>2. 0 \in N
    <2> DEFINE g == [s \in UpTo(0) |-> 0]
    <2>1. \A s \in UpTo(0) : s = {}
      BY <1>1, FS_EmptySet
    <2>2. Part(g, 0)
      <3> HIDE DEF UpTo
      <3> QED BY <2>1
    <2> HIDE DEF g, UpTo
    <2> QED BY <2>2
  <1>3. ASSUME NEW n \in N PROVE n + 1 \in N
    <2>1. PICK g : Part(g, n)
      BY <1>3
    <2> DEFINE h == [s \in UpTo(n + 1) |->
                        IF s = {} THEN 0
                        ELSE LET x == CHOOSE x \in s : TRUE IN f[x] + g[s \ {x}]]
    <2>2. n \in Nat /\ \A s \in UpTo(n) : s \in UpTo(n + 1)
      BY <1>1
    <2> HIDE DEF UpTo, N
    <2>3. ASSUME NEW s \in UpTo(n) PROVE h[s] = g[s]
      BY <2>1, <2>2
    <2>4. ASSUME NEW s \in UpTo(n + 1), s # {}, NEW x, x = CHOOSE y \in s : TRUE
          PROVE  h[s \ {x}] = g[s \ {x}]
      <3>1. s \in SUBSET S /\ IsFiniteSet(s) /\ Cardinality(s) <= n + 1
        BY <1>1 DEF UpTo
      <3>2. s \ {x} \in SUBSET S /\ Cardinality(s \ {x}) <= n
        BY <2>2, <2>4, <3>1, SmallerSet
      <3>3. s \ {x} \in UpTo(n)
        BY <3>2 DEF UpTo
      <3> HIDE DEF h
      <3> QED BY <2>3, <3>3
    <2>5. ASSUME NEW s \in UpTo(n + 1)
          PROVE  h[s] = IF s = {} THEN 0
                        ELSE LET x == CHOOSE x \in s : TRUE IN f[x] + h[s \ {x}]
      <3> DEFINE x == CHOOSE y \in s : TRUE
      <3>1. h[s] = IF s = {} THEN 0 ELSE f[x] + g[s \ {x}]
        OBVIOUS
      <3>2. s # {} => h[s \ {x}] = g[s \ {x}]
        BY <2>4
      <3> HIDE DEF h
      <3> QED BY <3>1, <3>2
    <2>6. h = [s \in UpTo(n + 1) |-> h[s]]
      OBVIOUS
    <2> HIDE DEF h
    <2>7. Part(h, n + 1)
      BY <2>5, <2>6, Zenon
    <2> HIDE DEF Part
    <2> QED BY <2>2, <2>7 DEF N
  <1> HIDE DEF N
  <1>4. N = Nat
    BY <1>2, <1>3, ByNumber DEF N
  <1>5. Cardinality(S) \in Nat
    BY FS_CardinalityType
  <1>6. PICK g : Part(g, Cardinality(S))
    BY <1>4, <1>5 DEF N
  <1>7. UpTo(Cardinality(S)) = SUBSET S
    BY <1>1, FS_Subset
  <1> HIDE DEF UpTo
  <1> QED BY <1>6, <1>7 DEF Sums

(* When one of the numbers changes the sum changes by as much.             *)
LEMMA SumChanges ==
    ASSUME NEW S, IsFiniteSet(S), NEW f \in [S -> Int], NEW e \in [S -> Int], NEW y \in S,
           \A x \in S \ {y} : e[x] = f[x], NEW g, NEW h, Sums(g, f, S), Sums(h, e, S)
    PROVE  h[S] = g[S] + (e[y] - f[y]) /\ g[S] \in Int
  <1> DEFINE Right(s) == /\ g[s] \in Int
                         /\ h[s] = IF y \in s THEN g[s] + (e[y] - f[y]) ELSE g[s]
             N == {n \in Nat : \A s \in SUBSET S : Cardinality(s) <= n => Right(s)}
  <1>1. \A s \in SUBSET S : IsFiniteSet(s) /\ Cardinality(s) \in Nat
    BY FS_Subset, FS_CardinalityType
  <1>2. ASSUME NEW s \in SUBSET S
        PROVE  /\ g[s] = IF s = {} THEN 0
                         ELSE LET x == CHOOSE x \in s : TRUE IN f[x] + g[s \ {x}]
               /\ h[s] = IF s = {} THEN 0
                         ELSE LET x == CHOOSE x \in s : TRUE IN e[x] + h[s \ {x}]
    BY DEF Sums
  <1>3. Right({})
    BY <1>2
  <1>4. 0 \in N
    <2>1. \A s \in SUBSET S : Cardinality(s) <= 0 => s = {}
      BY <1>1, FS_EmptySet
    <2> HIDE DEF Right
    <2> QED BY <1>3, <2>1
  <1>5. ASSUME NEW n \in N PROVE n + 1 \in N
    <2>1. n \in Nat /\ \A s \in SUBSET S : Cardinality(s) <= n => Right(s)
      BY <1>5
    <2>2. ASSUME NEW s \in SUBSET S, Cardinality(s) <= n + 1, s # {} PROVE Right(s)
      <3>1. PICK x : x = CHOOSE z \in s : TRUE
        OBVIOUS
      <3>2. x \in s /\ x \in S /\ s \ {x} \in SUBSET S /\ Cardinality(s \ {x}) <= n
        BY <1>1, <2>1, <2>2, <3>1, SmallerSet
      <3>3. Right(s \ {x})
        BY <2>1, <3>2
      <3>4. g[s] = f[x] + g[s \ {x}] /\ h[s] = e[x] + h[s \ {x}]
        BY <1>2, <2>2, <3>1
      <3>5. f[x] \in Int /\ e[x] \in Int /\ f[y] \in Int /\ e[y] \in Int
        BY <3>2
      <3>6. CASE x = y
        <4>1. y \in s /\ y \notin s \ {x}
          BY <3>2, <3>6
        <4> QED BY <3>3, <3>4, <3>5, <3>6, <4>1
      <3>7. CASE x # y
        <4>1. e[x] = f[x] /\ (y \in s <=> y \in s \ {x})
          BY <3>2, <3>7
        <4> QED BY <3>3, <3>4, <3>5, <4>1
      <3> QED BY <3>6, <3>7
    <2>3. ASSUME NEW s \in SUBSET S, s = {} PROVE Right(s)
      BY <1>2, <2>3
    <2> HIDE DEF Right
    <2>4. \A s \in SUBSET S : Cardinality(s) <= n + 1 => Right(s)
      BY <2>2, <2>3
    <2> QED BY <2>1, <2>4
  <1> HIDE DEF N
  <1>6. N = Nat
    BY <1>4, <1>5, ByNumber DEF N
  <1>7. Cardinality(S) \in Nat /\ S \in SUBSET S
    BY FS_CardinalityType
  <1>8. Right(S)
    <2> HIDE DEF Right
    <2> QED BY <1>6, <1>7 DEF N
  <1> QED BY <1>8

(* No sum of nothing is not 0.                                             *)
LEMMA SumOfZeros ==
    ASSUME NEW S, IsFiniteSet(S), NEW g, NEW f, Sums(g, f, S), \A x \in S : f[x] = 0
    PROVE  g[S] = 0
  <1> DEFINE N == {n \in Nat : \A s \in SUBSET S : Cardinality(s) <= n => g[s] = 0}
  <1>1. \A s \in SUBSET S : IsFiniteSet(s) /\ Cardinality(s) \in Nat
    BY FS_Subset, FS_CardinalityType
  <1>2. ASSUME NEW s \in SUBSET S
        PROVE  g[s] = IF s = {} THEN 0
                      ELSE LET x == CHOOSE x \in s : TRUE IN f[x] + g[s \ {x}]
    BY DEF Sums
  <1>3. 0 \in N
    <2>1. \A s \in SUBSET S : Cardinality(s) <= 0 => s = {}
      BY <1>1, FS_EmptySet
    <2> QED BY <1>2, <2>1
  <1>4. ASSUME NEW n \in N PROVE n + 1 \in N
    <2>1. n \in Nat /\ \A s \in SUBSET S : Cardinality(s) <= n => g[s] = 0
      BY <1>4
    <2>2. ASSUME NEW s \in SUBSET S, Cardinality(s) <= n + 1, s # {} PROVE g[s] = 0
      <3>1. PICK x : x = CHOOSE z \in s : TRUE
        OBVIOUS
      <3>2. x \in s /\ x \in S /\ s \ {x} \in SUBSET S /\ Cardinality(s \ {x}) <= n
        BY <1>1, <2>1, <2>2, <3>1, SmallerSet
      <3>3. g[s] = f[x] + g[s \ {x}]
        BY <1>2, <2>2, <3>1
      <3> QED BY <2>1, <3>2, <3>3
    <2>3. \A s \in SUBSET S : Cardinality(s) <= n + 1 => g[s] = 0
      BY <1>2, <2>2
    <2> QED BY <2>1, <2>3
  <1> HIDE DEF N
  <1>5. N = Nat
    BY <1>3, <1>4, ByNumber DEF N
  <1>6. Cardinality(S) \in Nat /\ S \in SUBSET S
    BY FS_CardinalityType
  <1> QED BY <1>5, <1>6 DEF N

-----------------------------------------------------------------------------
(* Round robins.                                                           *)

BoardRows ==
    [matches : Int, hands : Int, profit : Int, wins : Int, opponents_beaten : Int]

(* The numbers of one kind in the rows of a leaderboard.                   *)
Column(board, field) == [name \in Names |-> board[name][field]]

(* The sum of a column is d more than it was.                              *)
SumGrows(g, h, board, new, field, d) ==
    Sums(g, Column(board, field), Names) /\ Sums(h, Column(new, field), Names)
        => h[Names] = g[Names] + d /\ g[Names] \in Int

LEMMA SumOfProfits ==
    \E g : /\ Sums(g, Column(leaderboard, "profit"), Names)
           /\ SumOfRows(LAMBDA row : row.profit) = g[Names]
  <1> DEFINE Iter(g) == g = [s \in SUBSET Names |->
                                IF s = {} THEN 0
                                ELSE LET x == CHOOSE x \in s : TRUE
                                     IN  leaderboard[x].profit + g[s \ {x}]]
             f == Column(leaderboard, "profit")
  <1>1. SumOfRows(LAMBDA row : row.profit) = (CHOOSE g : Iter(g))[Names]
    BY Zenon DEF SumOfRows, MapThenSumSet, MapThenFoldSet
  <1>2. ASSUME NEW g PROVE Iter(g) <=> Sums(g, f, Names)
    <2>1. \A x \in Names : f[x] = leaderboard[x].profit
      BY DEF Column
    <2> HIDE DEF f
    <2>2. [s \in SUBSET Names |-> IF s = {} THEN 0
                                  ELSE LET x == CHOOSE x \in s : TRUE
                                       IN  leaderboard[x].profit + g[s \ {x}]]
          = [s \in SUBSET Names |-> IF s = {} THEN 0
                                    ELSE LET x == CHOOSE x \in s : TRUE IN f[x] + g[s \ {x}]]
      BY <2>1
    <2> QED BY <2>2, Zenon DEF Sums
  <1> HIDE DEF Iter, f
  <1>3. PICK g : Sums(g, f, Names)
    BY SumsExist, NamesAssumption
  <1>4. Iter(CHOOSE h : Iter(h))
    BY <1>2, <1>3, Zenon
  <1> QED BY <1>1, <1>2, <1>4 DEF f

LEMMA SumOfMatches ==
    \E g : /\ Sums(g, Column(leaderboard, "matches"), Names)
           /\ SumOfRows(LAMBDA row : row.matches) = g[Names]
  <1> DEFINE Iter(g) == g = [s \in SUBSET Names |->
                                IF s = {} THEN 0
                                ELSE LET x == CHOOSE x \in s : TRUE
                                     IN  leaderboard[x].matches + g[s \ {x}]]
             f == Column(leaderboard, "matches")
  <1>1. SumOfRows(LAMBDA row : row.matches) = (CHOOSE g : Iter(g))[Names]
    BY Zenon DEF SumOfRows, MapThenSumSet, MapThenFoldSet
  <1>2. ASSUME NEW g PROVE Iter(g) <=> Sums(g, f, Names)
    <2>1. \A x \in Names : f[x] = leaderboard[x].matches
      BY DEF Column
    <2> HIDE DEF f
    <2>2. [s \in SUBSET Names |-> IF s = {} THEN 0
                                  ELSE LET x == CHOOSE x \in s : TRUE
                                       IN  leaderboard[x].matches + g[s \ {x}]]
          = [s \in SUBSET Names |-> IF s = {} THEN 0
                                    ELSE LET x == CHOOSE x \in s : TRUE IN f[x] + g[s \ {x}]]
      BY <2>1
    <2> QED BY <2>2, Zenon DEF Sums
  <1> HIDE DEF Iter, f
  <1>3. PICK g : Sums(g, f, Names)
    BY SumsExist, NamesAssumption
  <1>4. Iter(CHOOSE h : Iter(h))
    BY <1>2, <1>3, Zenon
  <1> QED BY <1>1, <1>2, <1>4 DEF f

LEMMA SumOfBeaten ==
    \E g : /\ Sums(g, Column(leaderboard, "opponents_beaten"), Names)
           /\ SumOfRows(LAMBDA row : row.opponents_beaten) = g[Names]
  <1> DEFINE Iter(g) == g = [s \in SUBSET Names |->
                                IF s = {} THEN 0
                                ELSE LET x == CHOOSE x \in s : TRUE
                                     IN  leaderboard[x].opponents_beaten + g[s \ {x}]]
             f == Column(leaderboard, "opponents_beaten")
  <1>1. SumOfRows(LAMBDA row : row.opponents_beaten) = (CHOOSE g : Iter(g))[Names]
    BY Zenon DEF SumOfRows, MapThenSumSet, MapThenFoldSet
  <1>2. ASSUME NEW g PROVE Iter(g) <=> Sums(g, f, Names)
    <2>1. \A x \in Names : f[x] = leaderboard[x].opponents_beaten
      BY DEF Column
    <2> HIDE DEF f
    <2>2. [s \in SUBSET Names |-> IF s = {} THEN 0
                                  ELSE LET x == CHOOSE x \in s : TRUE
                                       IN  leaderboard[x].opponents_beaten + g[s \ {x}]]
          = [s \in SUBSET Names |-> IF s = {} THEN 0
                                    ELSE LET x == CHOOSE x \in s : TRUE IN f[x] + g[s \ {x}]]
      BY <2>1
    <2> QED BY <2>2, Zenon DEF Sums
  <1> HIDE DEF Iter, f
  <1>3. PICK g : Sums(g, f, Names)
    BY SumsExist, NamesAssumption
  <1>4. Iter(CHOOSE h : Iter(h))
    BY <1>2, <1>3, Zenon
  <1> QED BY <1>1, <1>2, <1>4 DEF f

Credited(board, name, profit, wins, one) ==
    [board EXCEPT ![name].matches = @ + 1,
                  ![name].hands = @ + HandsPerMatch,
                  ![name].profit = @ + profit,
                  ![name].wins = @ + wins,
                  ![name].opponents_beaten = @ + one]

(* The second leaderboard has a match more for the name, with what came of *)
(* it, and is the first otherwise.                                         *)
OneMore(board, new, name, profit, one) ==
    /\ new \in [Names -> BoardRows]
    /\ \A n \in Names : board[n].wins <= board[n].hands => new[n].wins <= new[n].hands
    /\ \A n \in Names : new[n].matches = board[n].matches + (IF n = name THEN 1 ELSE 0)
    /\ \A g, h : SumGrows(g, h, board, new, "profit", profit)
    /\ \A g, h : SumGrows(g, h, board, new, "matches", 1)
    /\ \A g, h : SumGrows(g, h, board, new, "opponents_beaten", one)

(* A match is credited to one of its names.                                *)
LEMMA CreditAdds ==
    ASSUME NEW board \in [Names -> BoardRows], NEW name \in Names, NEW profit \in Int,
           NEW wins \in Int, wins <= HandsPerMatch, NEW one \in {0, 1},
           NEW new, new = Credited(board, name, profit, wins, one)
    PROVE  OneMore(board, new, name, profit, one)
  <1>1. one \in Int /\ HandsPerMatch \in Int /\ IsFiniteSet(Names)
    BY MatchAssumption, NamesAssumption
  <1>2. PICK row \in BoardRows : row = board[name]
    OBVIOUS
  <1>3. /\ row.matches \in Int /\ row.hands \in Int /\ row.profit \in Int /\ row.wins \in Int
        /\ row.opponents_beaten \in Int
    BY DEF BoardRows
  <1>4. PICK then : then = [matches |-> row.matches + 1, hands |-> row.hands + HandsPerMatch,
                            profit |-> row.profit + profit, wins |-> row.wins + wins,
                            opponents_beaten |-> row.opponents_beaten + one]
    OBVIOUS
  <1>5. then \in BoardRows
    BY <1>1, <1>3, <1>4 DEF BoardRows
  <1>6. new = [board EXCEPT ![name] = then]
    <2> DEFINE b1 == [board EXCEPT ![name].matches = @ + 1]
               b2 == [b1 EXCEPT ![name].hands = @ + HandsPerMatch]
               b3 == [b2 EXCEPT ![name].profit = @ + profit]
               b4 == [b3 EXCEPT ![name].wins = @ + wins]
               b5 == [b4 EXCEPT ![name].opponents_beaten = @ + one]
               r1 == [row EXCEPT !.matches = @ + 1]
               r2 == [r1 EXCEPT !.hands = @ + HandsPerMatch]
               r3 == [r2 EXCEPT !.profit = @ + profit]
               r4 == [r3 EXCEPT !.wins = @ + wins]
               r5 == [r4 EXCEPT !.opponents_beaten = @ + one]
    <2>1. new = b5
      BY DEF Credited
    <2>2. r5 = then
      <3>1. r1 = [matches |-> row.matches + 1, hands |-> row.hands, profit |-> row.profit,
                  wins |-> row.wins, opponents_beaten |-> row.opponents_beaten]
        BY DEF BoardRows
      <3> HIDE DEF r1
      <3>2. r2 = [matches |-> row.matches + 1, hands |-> row.hands + HandsPerMatch,
                  profit |-> row.profit, wins |-> row.wins,
                  opponents_beaten |-> row.opponents_beaten]
        BY <3>1
      <3> HIDE DEF r2
      <3>3. r3 = [matches |-> row.matches + 1, hands |-> row.hands + HandsPerMatch,
                  profit |-> row.profit + profit, wins |-> row.wins,
                  opponents_beaten |-> row.opponents_beaten]
        BY <3>2
      <3> HIDE DEF r3
      <3>4. r4 = [matches |-> row.matches + 1, hands |-> row.hands + HandsPerMatch,
                  profit |-> row.profit + profit, wins |-> row.wins + wins,
                  opponents_beaten |-> row.opponents_beaten]
        BY <3>3
      <3> HIDE DEF r4
      <3> QED BY <1>4, <3>4
    <2>3. b1 = [board EXCEPT ![name] = r1]
      BY <1>2
    <2> HIDE DEF b1, r1
    <2>4. b2 = [board EXCEPT ![name] = r2]
      BY <2>3
    <2> HIDE DEF b2, r2
    <2>5. b3 = [board EXCEPT ![name] = r3]
      BY <2>4
    <2> HIDE DEF b3, r3
    <2>6. b4 = [board EXCEPT ![name] = r4]
      BY <2>5
    <2> HIDE DEF b4, r4
    <2>7. b5 = [board EXCEPT ![name] = r5]
      BY <2>6
    <2> HIDE DEF b5, r5
    <2> QED BY <2>1, <2>2, <2>7
  <1>7. /\ new \in [Names -> BoardRows] /\ new[name] = then
        /\ \A n \in Names \ {name} : new[n] = board[n]
    BY <1>5, <1>6
  <1>8. ASSUME NEW n \in Names, board[n].wins <= board[n].hands PROVE new[n].wins <= new[n].hands
    <2>1. CASE n = name
      <3>1. new[n].wins = row.wins + wins /\ new[n].hands = row.hands + HandsPerMatch
        BY <1>4, <1>7, <2>1
      <3> QED BY <1>1, <1>2, <1>3, <1>8, <2>1, <3>1
    <2>2. CASE n # name
      BY <1>7, <1>8, <2>2
    <2> QED BY <2>1, <2>2
  <1>12. \A n \in Names : new[n].matches = board[n].matches + (IF n = name THEN 1 ELSE 0)
    <2>1. new[name].matches = board[name].matches + 1
      BY <1>2, <1>4, <1>7
    <2>2. ASSUME NEW n \in Names, n # name PROVE new[n].matches = board[n].matches + 0
      <3>1. PICK r \in BoardRows : r = board[n] /\ new[n] = r
        BY <1>7, <2>2
      <3>2. r.matches \in Int
        BY DEF BoardRows
      <3> QED BY <3>1, <3>2
    <2> QED BY <2>1, <2>2
  <1>9. ASSUME NEW g, NEW h, Sums(g, Column(board, "profit"), Names),
               Sums(h, Column(new, "profit"), Names)
        PROVE  h[Names] = g[Names] + profit /\ g[Names] \in Int
    <2> DEFINE old == Column(board, "profit")
               sum == Column(new, "profit")
    <2>1. old \in [Names -> Int] /\ sum \in [Names -> Int]
      BY <1>7 DEF Column, BoardRows
    <2>2. old[name] = row.profit /\ sum[name] = row.profit + profit
      BY <1>2, <1>4, <1>7 DEF Column
    <2>3. \A n \in Names \ {name} : sum[n] = old[n]
      BY <1>7 DEF Column
    <2> HIDE DEF old, sum
    <2>4. h[Names] = g[Names] + (sum[name] - old[name]) /\ g[Names] \in Int
      BY <1>1, <1>9, <2>1, <2>3, SumChanges DEF old, sum
    <2> QED BY <1>1, <1>3, <2>2, <2>4
  <1>10. ASSUME NEW g, NEW h, Sums(g, Column(board, "matches"), Names),
               Sums(h, Column(new, "matches"), Names)
        PROVE  h[Names] = g[Names] + 1 /\ g[Names] \in Int
    <2> DEFINE old == Column(board, "matches")
               sum == Column(new, "matches")
    <2>1. old \in [Names -> Int] /\ sum \in [Names -> Int]
      BY <1>7 DEF Column, BoardRows
    <2>2. old[name] = row.matches /\ sum[name] = row.matches + 1
      BY <1>2, <1>4, <1>7 DEF Column
    <2>3. \A n \in Names \ {name} : sum[n] = old[n]
      BY <1>7 DEF Column
    <2> HIDE DEF old, sum
    <2>4. h[Names] = g[Names] + (sum[name] - old[name]) /\ g[Names] \in Int
      BY <1>1, <1>10, <2>1, <2>3, SumChanges DEF old, sum
    <2> QED BY <1>1, <1>3, <2>2, <2>4
  <1>11. ASSUME NEW g, NEW h, Sums(g, Column(board, "opponents_beaten"), Names),
               Sums(h, Column(new, "opponents_beaten"), Names)
        PROVE  h[Names] = g[Names] + one /\ g[Names] \in Int
    <2> DEFINE old == Column(board, "opponents_beaten")
               sum == Column(new, "opponents_beaten")
    <2>1. old \in [Names -> Int] /\ sum \in [Names -> Int]
      BY <1>7 DEF Column, BoardRows
    <2>2. old[name] = row.opponents_beaten /\ sum[name] = row.opponents_beaten + one
      BY <1>2, <1>4, <1>7 DEF Column
    <2>3. \A n \in Names \ {name} : sum[n] = old[n]
      BY <1>7 DEF Column
    <2> HIDE DEF old, sum
    <2>4. h[Names] = g[Names] + (sum[name] - old[name]) /\ g[Names] \in Int
      BY <1>1, <1>11, <2>1, <2>3, SumChanges DEF old, sum
    <2> QED BY <1>1, <1>3, <2>2, <2>4
  <1>13. /\ \A g, h : SumGrows(g, h, board, new, "profit", profit)
         /\ \A g, h : SumGrows(g, h, board, new, "matches", 1)
         /\ \A g, h : SumGrows(g, h, board, new, "opponents_beaten", one)
    BY <1>9, <1>10, <1>11 DEF SumGrows
  <1> QED BY <1>7, <1>8, <1>12, <1>13 DEF OneMore

(* What the rows of a leaderboard add up to.                               *)
Balanced(board, past) ==
    /\ \A g : Sums(g, Column(board, "profit"), Names) => g[Names] = 0
    /\ \A g : Sums(g, Column(board, "matches"), Names) => g[Names] = 2 * Len(past)
    /\ \A g : Sums(g, Column(board, "opponents_beaten"), Names)
                  => g[Names] = Cardinality({i \in DOMAIN past : past[i].profit # 0})
    /\ \A name \in Names : board[name].wins <= board[name].hands

Seated(m) == /\ m.seat0 \in Names /\ m.seat1 \in Names
             /\ m.wins0 <= m.hands /\ m.wins1 <= m.hands

RobinInv ==
    mode = "round_robin" =>
        /\ leaderboard \in [Names -> BoardRows] /\ Balanced(leaderboard, fixtures)
        /\ fixtures \in Seq(FixtureRecords)
        /\ \A i \in DOMAIN fixtures : fixtures[i].seat1 # NoName
        /\ match \in MatchRecords
        /\ match = NoMatch \/ Seated(match)

LEMMA RobinStart == TournamentInit => RobinInv
  <1> SUFFICES ASSUME TournamentInit PROVE RobinInv
    OBVIOUS
  <1>1. /\ leaderboard = [name \in Names |-> EmptyRow] /\ fixtures = <<>> /\ match = NoMatch
    BY DEF TournamentInit
  <1>2. EmptyRow \in BoardRows /\ NoMatch \in MatchRecords
    BY DEF EmptyRow, BoardRows, NoMatch, MatchRecords, Competitors
  <1>3. fixtures \in Seq(FixtureRecords) /\ DOMAIN fixtures = {} /\ Len(fixtures) = 0
    BY <1>1
  <1>4. ASSUME NEW field \in {"profit", "matches", "opponents_beaten"}, NEW g,
               Sums(g, Column(leaderboard, field), Names)
        PROVE  g[Names] = 0
    <2>1. \A name \in Names : Column(leaderboard, field)[name] = 0
      BY <1>1 DEF Column, EmptyRow
    <2> QED BY <1>4, <2>1, SumOfZeros, NamesAssumption
  <1>5. Cardinality({i \in DOMAIN fixtures : fixtures[i].profit # 0}) = 0
    BY <1>3, FS_EmptySet
  <1>6. \A name \in Names : leaderboard[name].wins <= leaderboard[name].hands
    BY <1>1 DEF EmptyRow
  <1>7. Balanced(leaderboard, fixtures)
    BY <1>3, <1>4, <1>5, <1>6 DEF Balanced
  <1> QED BY <1>1, <1>2, <1>3, <1>7 DEF RobinInv

(* A match is credited to the name in seat 0 and then to that in seat 1.   *)
LEMMA FixtureCredits ==
    ASSUME RobinInv, mode = "round_robin", FinishFixture
    PROVE  \E first \in [Names -> BoardRows], up \in {0, 1}, down \in {0, 1} :
              /\ OneMore(leaderboard, first, match.seat0, match.profit, up)
              /\ OneMore(first, leaderboard', match.seat1, -match.profit, down)
              /\ up + down = IF match.profit # 0 THEN 1 ELSE 0
  <1>1. PICK m \in MatchRecords : m = match
    BY DEF RobinInv
  <1>2. /\ m.profit \in Int /\ m.wins0 \in Int /\ m.wins1 \in Int /\ m.hands \in Int
    BY DEF MatchRecords
  <1>3. Seated(m) /\ m.hands = HandsPerMatch /\ leaderboard \in [Names -> BoardRows]
    BY <1>1 DEF FinishFixture, MatchOver, Idle, RobinInv
  <1>4. /\ m.seat0 \in Names /\ m.seat1 \in Names /\ m.wins0 <= HandsPerMatch
        /\ m.wins1 <= HandsPerMatch /\ -m.profit \in Int
    BY <1>2, <1>3 DEF Seated
  <1> DEFINE up == IF m.profit > 0 THEN 1 ELSE 0
             down == IF m.profit < 0 THEN 1 ELSE 0
             first == Credited(leaderboard, m.seat0, m.profit, m.wins0, up)
             second == Credited(first, m.seat1, -m.profit, m.wins1, down)
  <1>5. leaderboard' = second
    BY <1>1 DEF FinishFixture, Credit, Credited
  <1>6. up \in {0, 1} /\ down \in {0, 1} /\ up + down = IF m.profit # 0 THEN 1 ELSE 0
    BY <1>2
  <1> HIDE DEF up, down
  <1>7. OneMore(leaderboard, first, m.seat0, m.profit, up)
    <2>1. first = Credited(leaderboard, m.seat0, m.profit, m.wins0, up)
      OBVIOUS
    <2> HIDE DEF first
    <2> QED BY <1>2, <1>3, <1>4, <1>6, <2>1, CreditAdds
  <1> HIDE DEF first
  <1>8. OneMore(first, second, m.seat1, -m.profit, down)
    <2>1. PICK loss \in Int : loss = -m.profit
      BY <1>4
    <2>2. second = Credited(first, m.seat1, loss, m.wins1, down)
      BY <2>1
    <2>3. first \in [Names -> BoardRows]
      BY <1>7 DEF OneMore
    <2> HIDE DEF second
    <2>4. OneMore(first, second, m.seat1, loss, down)
      BY <1>2, <1>4, <1>6, <2>2, <2>3, CreditAdds
    <2> QED BY <2>1, <2>4
  <1> HIDE DEF second
  <1>9. /\ OneMore(leaderboard, first, match.seat0, match.profit, up)
        /\ OneMore(first, leaderboard', match.seat1, -match.profit, down)
        /\ up + down = IF match.profit # 0 THEN 1 ELSE 0
    <2>1. OneMore(first, leaderboard', m.seat1, -m.profit, down)
      BY <1>5, <1>8
    <2> QED BY <1>1, <1>6, <1>7, <2>1
  <1>10. up \in {0, 1} /\ down \in {0, 1} /\ first \in [Names -> BoardRows]
    BY <1>6, <1>7 DEF OneMore
  <1> QED BY <1>9, <1>10

LEMMA RobinGoesOn ==
    RobinInv /\ entrants \in Seq(Names) /\ [TournamentNext]_tournamentVars => RobinInv'
  <1> SUFFICES ASSUME RobinInv, entrants \in Seq(Names),
                      [TournamentNext]_tournamentVars PROVE RobinInv'
    OBVIOUS
  <1>1. mode' = mode /\ entrants' = entrants
    BY DEF TournamentNext, tournamentVars, StartFixture, PlayHand, FinishFixture, StartPair,
           FinishPair, EndRound, TournamentStays
  <1> SUFFICES ASSUME mode = "round_robin" PROVE RobinInv'
    BY <1>1 DEF RobinInv
  <1>2. /\ leaderboard \in [Names -> BoardRows] /\ Balanced(leaderboard, fixtures)
        /\ fixtures \in Seq(FixtureRecords)
        /\ \A i \in DOMAIN fixtures : fixtures[i].seat1 # NoName
        /\ match \in MatchRecords
        /\ match = NoMatch \/ Seated(match)
    BY DEF RobinInv
  <1>3. ASSUME UNCHANGED <<leaderboard, fixtures>>,
               match' \in MatchRecords,
               match' = NoMatch \/ Seated(match')
        PROVE  RobinInv'
    BY <1>2, <1>3 DEF RobinInv, Seated
  <1>4. CASE StartFixture
    <2>1. PICK p \in Pairs : match' = NewMatch(entrants[p[1]], entrants[p[2]])
      BY <1>4 DEF StartFixture
    <2>2. p[1] \in DOMAIN entrants /\ p[2] \in DOMAIN entrants
      BY DEF Pairs
    <2>3. entrants[p[1]] \in Names /\ entrants[p[2]] \in Names
      BY <2>2
    <2>4. match' \in MatchRecords /\ Seated(match')
      BY <2>1, <2>3, MatchBegins DEF Seated
    <2> QED BY <1>3, <1>4, <2>4 DEF StartFixture
  <1>5. CASE PlayHand
    <2>1. match # NoMatch /\ UNCHANGED <<leaderboard, fixtures>> /\ Seated(match)
      BY <1>2, <1>5 DEF PlayHand, Idle
    <2>2. /\ match' \in MatchRecords
          /\ match'.seat0 = match.seat0 /\ match'.seat1 = match.seat1
          /\ match'.hands = match.hands + 1
          /\ match'.wins0 \in {match.wins0, match.wins0 + 1}
          /\ match'.wins1 \in {match.wins1, match.wins1 + 1}
      BY <1>2, <1>5, HandOfMatch
    <2>3. match.hands \in Int /\ match.wins0 \in Int /\ match.wins1 \in Int
      BY <1>2 DEF MatchRecords
    <2>4. Seated(match')
      BY <2>1, <2>2, <2>3 DEF Seated
    <2> QED BY <1>3, <2>1, <2>2, <2>4
  <1>6. CASE FinishFixture
    <2>1. PICK m \in MatchRecords : m = match
      BY <1>2
    <2>2. /\ m.profit \in Int /\ m.wins0 \in Int /\ m.wins1 \in Int /\ m.hands \in Int
          /\ m.seat0 \in Competitors /\ m.seat1 \in Competitors
      BY DEF MatchRecords
    <2>3. Seated(m)
      BY <1>2, <1>6, <2>1 DEF FinishFixture, MatchOver, Idle
    <2>4. m.seat0 \in Names /\ m.seat1 \in Names
      BY <2>3 DEF Seated
    <2> DEFINE f == [seat0 |-> m.seat0, seat1 |-> m.seat1, profit |-> m.profit, winner |-> NoName]
               second == leaderboard'
    <2>5. fixtures' = Append(fixtures, f) /\ match' = NoMatch
      BY <1>6, <2>1 DEF FinishFixture, Fixture
    <2>6. f \in FixtureRecords /\ f.seat1 # NoName /\ f.profit = m.profit
      BY <2>2, <2>4, NamesAssumption DEF FixtureRecords, Competitors
    <2> HIDE DEF f
    <2>7. PICK n \in Nat : /\ n = Len(fixtures) /\ Len(fixtures') = n + 1
                           /\ DOMAIN fixtures = 1 .. n /\ DOMAIN fixtures' = 1 .. n + 1
                           /\ fixtures'[n + 1] = f /\ \A i \in 1 .. n : fixtures'[i] = fixtures[i]
                           /\ fixtures' \in Seq(FixtureRecords)
      BY <1>2, <2>5, <2>6
    <2>8. PICK first \in [Names -> BoardRows], up \in {0, 1}, down \in {0, 1} :
             /\ OneMore(leaderboard, first, m.seat0, m.profit, up)
             /\ OneMore(first, second, m.seat1, -m.profit, down)
             /\ up + down = IF m.profit # 0 THEN 1 ELSE 0
      BY <1>6, <2>1, FixtureCredits
    <2> HIDE DEF second
    <2>9. /\ \A x \in Names : first[x].wins <= first[x].hands
          /\ \A g, h : SumGrows(g, h, leaderboard, first, "profit", m.profit)
          /\ \A g, h : SumGrows(g, h, leaderboard, first, "matches", 1)
          /\ \A g, h : SumGrows(g, h, leaderboard, first, "opponents_beaten", up)
      BY <1>2, <2>8 DEF OneMore, Balanced
    <2>10. /\ second \in [Names -> BoardRows]
           /\ \A x \in Names : second[x].wins <= second[x].hands
           /\ \A g, h : SumGrows(g, h, first, second, "profit", -m.profit)
           /\ \A g, h : SumGrows(g, h, first, second, "matches", 1)
           /\ \A g, h : SumGrows(g, h, first, second, "opponents_beaten", down)
      BY <2>8, <2>9 DEF OneMore
    <2>11. ASSUME NEW field \in {"profit", "matches", "opponents_beaten"}
           PROVE  /\ \E g : Sums(g, Column(leaderboard, field), Names)
                  /\ \E g : Sums(g, Column(first, field), Names)
      BY SumsExist, NamesAssumption
    <2>12. ASSUME NEW h, Sums(h, Column(second, "profit"), Names) PROVE h[Names] = 0
      <3>1. PICK g : Sums(g, Column(leaderboard, "profit"), Names)
        BY <2>11
      <3>2. PICK k : Sums(k, Column(first, "profit"), Names)
        BY <2>11
      <3>3. g[Names] = 0
        BY <1>2, <3>1 DEF Balanced
      <3>4. k[Names] = g[Names] + m.profit
        BY <2>9, <3>1, <3>2 DEF SumGrows
      <3>5. h[Names] = k[Names] + (-m.profit)
        BY <2>10, <2>12, <3>2 DEF SumGrows
      <3> QED BY <2>2, <3>3, <3>4, <3>5
    <2>13. ASSUME NEW h, Sums(h, Column(second, "matches"), Names)
           PROVE  h[Names] = 2 * Len(fixtures')
      <3>1. PICK g : Sums(g, Column(leaderboard, "matches"), Names)
        BY <2>11
      <3>2. PICK k : Sums(k, Column(first, "matches"), Names)
        BY <2>11
      <3>3. g[Names] = 2 * n
        BY <1>2, <2>7, <3>1 DEF Balanced
      <3>4. k[Names] = g[Names] + 1
        BY <2>9, <3>1, <3>2 DEF SumGrows
      <3>5. h[Names] = k[Names] + 1
        BY <2>10, <2>13, <3>2 DEF SumGrows
      <3> QED BY <2>7, <3>3, <3>4, <3>5
    <2>14. ASSUME NEW h, Sums(h, Column(second, "opponents_beaten"), Names)
           PROVE  h[Names] = Cardinality({i \in DOMAIN fixtures' : fixtures'[i].profit # 0})
      <3> DEFINE old == {i \in DOMAIN fixtures : fixtures[i].profit # 0}
                 sum == {i \in DOMAIN fixtures' : fixtures'[i].profit # 0}
      <3>1. PICK g : Sums(g, Column(leaderboard, "opponents_beaten"), Names)
        BY <2>11
      <3>2. PICK k : Sums(k, Column(first, "opponents_beaten"), Names)
        BY <2>11
      <3>3. g[Names] = Cardinality(old)
        BY <1>2, <3>1 DEF Balanced
      <3>4. k[Names] = g[Names] + up
        BY <2>9, <3>1, <3>2 DEF SumGrows
      <3>5. h[Names] = k[Names] + down
        BY <2>10, <2>14, <3>2 DEF SumGrows
      <3>6. IsFiniteSet(old) /\ Cardinality(old) \in Nat
        <4>1. IsFiniteSet(1 .. n) /\ old \in SUBSET (1 .. n)
          BY <2>7, FS_Interval
        <4> QED BY <4>1, FS_Subset, FS_CardinalityType
      <3>7. n + 1 \notin old /\ sum = IF m.profit # 0 THEN old \cup {n + 1} ELSE old
        <4>1. /\ \A i \in 1 .. n + 1 : i = n + 1 \/ i \in 1 .. n
              /\ \A i \in 1 .. n : i \in 1 .. n + 1 /\ i # n + 1
              /\ n + 1 \in 1 .. n + 1
          BY <2>7
        <4> QED BY <2>6, <2>7, <4>1
      <3> HIDE DEF old, sum
      <3>8. Cardinality(sum) = Cardinality(old) + (IF m.profit # 0 THEN 1 ELSE 0)
        <4>1. CASE m.profit # 0
          BY <3>6, <3>7, <4>1, FS_AddElement
        <4>2. CASE m.profit = 0
          BY <3>6, <3>7, <4>2
        <4> QED BY <4>1, <4>2
      <3>9. h[Names] = Cardinality(sum)
        BY <2>8, <3>3, <3>4, <3>5, <3>6, <3>8
      <3> QED BY <3>9 DEF sum
    <2>15. Balanced(leaderboard', fixtures')
      BY <2>10, <2>12, <2>13, <2>14 DEF Balanced, second
    <2>16. \A i \in DOMAIN fixtures' : fixtures'[i].seat1 # NoName
      <3>1. \A i \in 1 .. n + 1 : i = n + 1 \/ i \in 1 .. n
        BY <2>7
      <3> QED BY <1>2, <2>6, <2>7, <3>1
    <2>17. NoMatch \in MatchRecords
      BY DEF NoMatch, MatchRecords, Competitors
    <2> QED BY <2>5, <2>7, <2>10, <2>15, <2>16, <2>17 DEF RobinInv, second
  <1>7. CASE UNCHANGED tournamentVars
    BY <1>2, <1>3, <1>7 DEF tournamentVars
  <1> QED BY <1>1, <1>3, <1>4, <1>5, <1>6, <1>7
          DEF TournamentNext, StartPair, FinishPair, EndRound, TournamentStays, tournamentVars

(* A leaderboard that balances does so in the words of the service's       *)
(* result.                                                                 *)
LEMMA BoardBalances == RobinInv => StandingsBalance
  <1> SUFFICES ASSUME RobinInv, mode = "round_robin"
               PROVE  /\ SumOfRows(LAMBDA row : row.profit) = 0
                      /\ SumOfRows(LAMBDA row : row.matches) = 2 * Len(fixtures)
                      /\ SumOfRows(LAMBDA row : row.opponents_beaten)
                            = Cardinality({i \in Played : fixtures[i].profit # 0})
                      /\ \A name \in Names : leaderboard[name].wins <= leaderboard[name].hands
    BY DEF StandingsBalance
  <1>1. Balanced(leaderboard, fixtures) /\ \A i \in DOMAIN fixtures : fixtures[i].seat1 # NoName
    BY DEF RobinInv
  <1>2. {i \in Played : fixtures[i].profit # 0} = {i \in DOMAIN fixtures : fixtures[i].profit # 0}
    BY <1>1 DEF Played
  <1>3. SumOfRows(LAMBDA row : row.profit) = 0
    BY <1>1, SumOfProfits DEF Balanced
  <1>4. SumOfRows(LAMBDA row : row.matches) = 2 * Len(fixtures)
    BY <1>1, SumOfMatches DEF Balanced
  <1>5. SumOfRows(LAMBDA row : row.opponents_beaten)
           = Cardinality({i \in DOMAIN fixtures : fixtures[i].profit # 0})
    BY <1>1, SumOfBeaten DEF Balanced
  <1> QED BY <1>1, <1>2, <1>3, <1>4, <1>5 DEF Balanced

-----------------------------------------------------------------------------
(* Every pair of a round robin.                                            *)

Before(p) == {q \in Pairs : q[1] < p[1] \/ (q[1] = p[1] /\ q[2] < p[2])}
AsFirst(name, k) == {p \in Pairs : PairNumber(p) < k /\ entrants[p[1]] = name}
AsSecond(name, k) == {p \in Pairs : PairNumber(p) < k /\ entrants[p[2]] = name}

(* The matches of a name are its places in the pairs so far.               *)
MetInv ==
    mode = "round_robin" =>
        /\ \A name \in Names :
              leaderboard[name].matches
                 = Cardinality(AsFirst(name, Len(fixtures)))
                   + Cardinality(AsSecond(name, Len(fixtures)))
        /\ match # NoMatch =>
              \E p \in Pairs : /\ PairNumber(p) = Len(fixtures)
                               /\ match.seat0 = entrants[p[1]] /\ match.seat1 = entrants[p[2]]

(* Pairs are played in an order: each has a number of its own.             *)
LEMMA PairsNumbered ==
    ASSUME entrants \in Seq(Names)
    PROVE  /\ IsFiniteSet(Pairs) /\ Cardinality(Pairs) \in Nat
           /\ \A p \in Pairs : PairNumber(p) \in Nat /\ PairNumber(p) < Cardinality(Pairs)
           /\ \A p, q \in Pairs : PairNumber(p) = PairNumber(q) => p = q
  <1> DEFINE n == Len(entrants)
             D == 1 .. n
  <1>1. n \in Nat /\ DOMAIN entrants = D
    OBVIOUS
  <1>2. /\ IsFiniteSet(Pairs) /\ Cardinality(Pairs) \in Nat
    <2>1. IsFiniteSet(D)
      BY <1>1, FS_Interval
    <2>2. IsFiniteSet(D \X D)
      BY <2>1, FS_Product
    <2>3. Pairs \subseteq D \X D
      BY <1>1 DEF Pairs
    <2> QED BY <2>2, <2>3, FS_Subset, FS_CardinalityType
  <1>3. \A p \in Pairs : p[1] \in Int /\ p[2] \in Int /\ p = <<p[1], p[2]>>
    BY <1>1 DEF Pairs
  <1>4. ASSUME NEW p \in Pairs
        PROVE  /\ Before(p) \subseteq Pairs /\ p \notin Before(p) /\ IsFiniteSet(Before(p))
               /\ PairNumber(p) = Cardinality(Before(p)) /\ Cardinality(Before(p)) \in Nat
    <2>1. Before(p) \subseteq Pairs /\ p \notin Before(p)
      BY <1>3 DEF Before
    <2>2. PairNumber(p) = Cardinality(Before(p))
      BY DEF PairNumber, Before
    <2> QED BY <1>2, <2>1, <2>2, FS_Subset, FS_CardinalityType
  <1>5. ASSUME NEW p \in Pairs PROVE PairNumber(p) < Cardinality(Pairs)
    <2>1. Cardinality(Before(p)) < Cardinality(Pairs)
      BY <1>2, <1>4, FS_Subset
    <2> QED BY <1>4, <2>1
  <1>6. ASSUME NEW p \in Pairs, NEW q \in Pairs, p \in Before(q)
        PROVE  PairNumber(p) < PairNumber(q)
    <2>1. Before(p) \subseteq Before(q)
      BY <1>3, <1>6 DEF Before
    <2>2. Before(p) # Before(q)
      BY <1>4, <1>6
    <2>3. Cardinality(Before(p)) < Cardinality(Before(q))
      BY <1>4, <2>1, <2>2, FS_Subset
    <2> QED BY <1>4, <2>3
  <1>7. ASSUME NEW p \in Pairs, NEW q \in Pairs, p # q
        PROVE  p \in Before(q) \/ q \in Before(p)
    <2>1. p[1] # q[1] \/ p[2] # q[2]
      BY <1>3, <1>7
    <2> QED BY <1>3, <2>1 DEF Before
  <1>8. ASSUME NEW p \in Pairs, NEW q \in Pairs, PairNumber(p) = PairNumber(q) PROVE p = q
    <2>1. PairNumber(p) \in Nat /\ PairNumber(q) \in Nat
      BY <1>4
    <2> QED BY <1>6, <1>7, <1>8, <2>1
  <1> QED BY <1>2, <1>4, <1>5, <1>8

(* A pair that has been played counts for its two places.                  *)
LEMMA PairCounted ==
    ASSUME entrants \in Seq(Names), NEW p \in Pairs, NEW k \in Nat, PairNumber(p) = k, NEW name
    PROVE  /\ Cardinality(AsFirst(name, k)) \in Nat /\ Cardinality(AsSecond(name, k)) \in Nat
           /\ Cardinality(AsFirst(name, k + 1))
                 = Cardinality(AsFirst(name, k)) + (IF entrants[p[1]] = name THEN 1 ELSE 0)
           /\ Cardinality(AsSecond(name, k + 1))
                 = Cardinality(AsSecond(name, k)) + (IF entrants[p[2]] = name THEN 1 ELSE 0)
  <1>1. /\ IsFiniteSet(Pairs) /\ \A q \in Pairs : PairNumber(q) \in Nat
        /\ \A q \in Pairs : PairNumber(p) = PairNumber(q) => p = q
    BY PairsNumbered
  <1>2. \A q \in Pairs : PairNumber(q) < k + 1 <=> PairNumber(q) < k \/ q = p
    <2>1. \A q \in Pairs : PairNumber(q) < k + 1 <=> PairNumber(q) < k \/ PairNumber(q) = k
      BY <1>1
    <2> QED BY <1>1, <2>1
  <1>3. ~(PairNumber(p) < k)
    OBVIOUS
  <1>4. /\ AsFirst(name, k) \subseteq Pairs /\ p \notin AsFirst(name, k)
        /\ AsSecond(name, k) \subseteq Pairs /\ p \notin AsSecond(name, k)
    BY <1>3 DEF AsFirst, AsSecond
  <1>5. /\ IsFiniteSet(AsFirst(name, k)) /\ Cardinality(AsFirst(name, k)) \in Nat
        /\ IsFiniteSet(AsSecond(name, k)) /\ Cardinality(AsSecond(name, k)) \in Nat
    BY <1>1, <1>4, FS_Subset, FS_CardinalityType
  <1>6. Cardinality(AsFirst(name, k + 1))
           = Cardinality(AsFirst(name, k)) + (IF entrants[p[1]] = name THEN 1 ELSE 0)
    <2>1. CASE entrants[p[1]] = name
      <3>1. AsFirst(name, k + 1) = AsFirst(name, k) \cup {p}
        BY <1>2, <2>1 DEF AsFirst
      <3> QED BY <1>4, <1>5, <2>1, <3>1, FS_AddElement
    <2>2. CASE entrants[p[1]] # name
      <3>1. AsFirst(name, k + 1) = AsFirst(name, k)
        BY <1>2, <2>2 DEF AsFirst
      <3> QED BY <1>5, <2>2, <3>1
    <2> QED BY <2>1, <2>2
  <1>7. Cardinality(AsSecond(name, k + 1))
           = Cardinality(AsSecond(name, k)) + (IF entrants[p[2]] = name THEN 1 ELSE 0)
    <2>1. CASE entrants[p[2]] = name
      <3>1. AsSecond(name, k + 1) = AsSecond(name, k) \cup {p}
        BY <1>2, <2>1 DEF AsSecond
      <3> QED BY <1>4, <1>5, <2>1, <3>1, FS_AddElement
    <2>2. CASE entrants[p[2]] # name
      <3>1. AsSecond(name, k + 1) = AsSecond(name, k)
        BY <1>2, <2>2 DEF AsSecond
      <3> QED BY <1>5, <2>2, <3>1
    <2> QED BY <2>1, <2>2
  <1> QED BY <1>5, <1>6, <1>7

LEMMA MetStart == TournamentInit /\ entrants \in Seq(Names) => MetInv
  <1> SUFFICES ASSUME TournamentInit, entrants \in Seq(Names) PROVE MetInv
    OBVIOUS
  <1>1. /\ leaderboard = [name \in Names |-> EmptyRow] /\ Len(fixtures) = 0 /\ match = NoMatch
    BY DEF TournamentInit
  <1>2. ASSUME NEW name \in Names
        PROVE  leaderboard[name].matches
                  = Cardinality(AsFirst(name, 0)) + Cardinality(AsSecond(name, 0))
    <2>1. \A p \in Pairs : ~(PairNumber(p) < 0)
      <3>1. \A p \in Pairs : PairNumber(p) \in Nat
        BY PairsNumbered
      <3> QED BY <3>1
    <2>2. AsFirst(name, 0) = {} /\ AsSecond(name, 0) = {}
      BY <2>1 DEF AsFirst, AsSecond
    <2>3. leaderboard[name].matches = 0
      BY <1>1 DEF EmptyRow
    <2>4. Cardinality(AsFirst(name, 0)) = 0 /\ Cardinality(AsSecond(name, 0)) = 0
      <3> HIDE DEF AsFirst, AsSecond
      <3> QED BY <2>2, FS_EmptySet
    <2> QED BY <2>3, <2>4
  <1> QED BY <1>1, <1>2 DEF MetInv

LEMMA MetGoesOn ==
    RobinInv /\ MetInv /\ entrants \in Seq(Names) /\ [TournamentNext]_tournamentVars => MetInv'
  <1> SUFFICES ASSUME RobinInv, MetInv, entrants \in Seq(Names),
                      [TournamentNext]_tournamentVars
               PROVE  MetInv'
    OBVIOUS
  <1>1. mode' = mode /\ entrants' = entrants
    BY DEF TournamentNext, tournamentVars, StartFixture, PlayHand, FinishFixture, StartPair,
           FinishPair, EndRound, TournamentStays
  <1> SUFFICES ASSUME mode = "round_robin" PROVE MetInv'
    BY <1>1 DEF MetInv
  <1>2. /\ \A p : PairNumber(p)' = PairNumber(p) /\ Pairs' = Pairs
        /\ \A name, k : /\ AsFirst(name, k)' = AsFirst(name, k)
                        /\ AsSecond(name, k)' = AsSecond(name, k)
    BY <1>1 DEF PairNumber, Pairs, AsFirst, AsSecond
  <1>3. /\ \A name \in Names :
              leaderboard[name].matches
                 = Cardinality(AsFirst(name, Len(fixtures)))
                   + Cardinality(AsSecond(name, Len(fixtures)))
        /\ match # NoMatch =>
              \E p \in Pairs : /\ PairNumber(p) = Len(fixtures)
                               /\ match.seat0 = entrants[p[1]] /\ match.seat1 = entrants[p[2]]
    BY DEF MetInv
  <1>4. ASSUME UNCHANGED <<leaderboard, fixtures>>,
               match' # NoMatch =>
                  \E p \in Pairs : /\ PairNumber(p) = Len(fixtures)
                                   /\ match'.seat0 = entrants[p[1]]
                                   /\ match'.seat1 = entrants[p[2]]
        PROVE  MetInv'
    BY <1>1, <1>2, <1>3, <1>4 DEF MetInv
  <1>5. CASE StartFixture
    <2>1. PICK p \in Pairs : /\ PairNumber(p) = Len(fixtures)
                             /\ match' = NewMatch(entrants[p[1]], entrants[p[2]])
      BY <1>5 DEF StartFixture
    <2>2. p[1] \in DOMAIN entrants /\ p[2] \in DOMAIN entrants
      BY DEF Pairs
    <2>3. entrants[p[1]] \in Names /\ entrants[p[2]] \in Names
      BY <2>2
    <2>4. match'.seat0 = entrants[p[1]] /\ match'.seat1 = entrants[p[2]]
      BY <2>1, <2>3, MatchBegins
    <2> QED BY <1>4, <1>5, <2>1, <2>4 DEF StartFixture
  <1>6. CASE PlayHand
    <2>1. match # NoMatch /\ UNCHANGED <<leaderboard, fixtures>>
      BY <1>6 DEF PlayHand, Idle
    <2>2. match'.seat0 = match.seat0 /\ match'.seat1 = match.seat1
      <3>1. match \in MatchRecords
        BY DEF RobinInv
      <3> QED BY <1>6, <3>1, HandOfMatch
    <2> QED BY <1>3, <1>4, <2>1, <2>2
  <1>7. CASE FinishFixture
    <2>1. match # NoMatch /\ match' = NoMatch /\ fixtures \in Seq(FixtureRecords)
      BY <1>7 DEF FinishFixture, MatchOver, Idle, RobinInv
    <2>2. PICK k \in Nat : k = Len(fixtures) /\ Len(fixtures') = k + 1
      <3>1. \E f : fixtures' = Append(fixtures, f)
        BY <1>7 DEF FinishFixture
      <3> QED BY <2>1, <3>1
    <2>3. PICK p \in Pairs : /\ PairNumber(p) = k
                             /\ match.seat0 = entrants[p[1]] /\ match.seat1 = entrants[p[2]]
      BY <1>3, <2>1, <2>2
    <2>4. PICK first \in [Names -> BoardRows], up \in {0, 1}, down \in {0, 1} :
             /\ OneMore(leaderboard, first, match.seat0, match.profit, up)
             /\ OneMore(first, leaderboard', match.seat1, -match.profit, down)
      BY <1>7, FixtureCredits
    <2>5. ASSUME NEW name \in Names
          PROVE  leaderboard'[name].matches
                    = Cardinality(AsFirst(name, k + 1)) + Cardinality(AsSecond(name, k + 1))
      <3>1. first[name].matches
               = leaderboard[name].matches + (IF name = match.seat0 THEN 1 ELSE 0)
        BY <2>4 DEF OneMore
      <3>2. leaderboard'[name].matches
               = first[name].matches + (IF name = match.seat1 THEN 1 ELSE 0)
        BY <2>4 DEF OneMore
      <3>3. leaderboard[name].matches
               = Cardinality(AsFirst(name, k)) + Cardinality(AsSecond(name, k))
        BY <1>3, <2>2
      <3>4. /\ Cardinality(AsFirst(name, k)) \in Nat /\ Cardinality(AsSecond(name, k)) \in Nat
            /\ Cardinality(AsFirst(name, k + 1))
                  = Cardinality(AsFirst(name, k)) + (IF name = match.seat0 THEN 1 ELSE 0)
            /\ Cardinality(AsSecond(name, k + 1))
                  = Cardinality(AsSecond(name, k)) + (IF name = match.seat1 THEN 1 ELSE 0)
        BY <2>3, PairCounted
      <3> QED BY <3>1, <3>2, <3>3, <3>4
    <2> QED BY <1>2, <2>1, <2>2, <2>5 DEF MetInv
  <1>8. CASE UNCHANGED tournamentVars
    BY <1>3, <1>4, <1>8 DEF tournamentVars
  <1> QED BY <1>5, <1>6, <1>7, <1>8
          DEF TournamentNext, StartPair, FinishPair, EndRound, TournamentStays, tournamentVars

(* Every place is in a pair with every other, as the first or the second.  *)
LEMMA PlacesPaired ==
    ASSUME entrants \in Seq(Names), NEW name, NEW k, k = Cardinality(Pairs)
    PROVE  Cardinality(AsFirst(name, k)) + Cardinality(AsSecond(name, k))
              = Entries(name) * (Len(entrants) - 1)
  <1> DEFINE n == Len(entrants)
             D == 1 .. n
             places == {i \in D : entrants[i] = name}
             first == {p \in D \X D : p[1] < p[2] /\ entrants[p[1]] = name}
             second == {p \in D \X D : p[1] < p[2] /\ entrants[p[2]] = name}
             flipped == {p \in D \X D : p[2] < p[1] /\ entrants[p[1]] = name}
             same == {p \in D \X D : p[1] = p[2] /\ entrants[p[1]] = name}
  <1>1. n \in Nat /\ DOMAIN entrants = D
    OBVIOUS
  <1>2. AsFirst(name, k) = first /\ AsSecond(name, k) = second
    <2>1. \A p \in Pairs : PairNumber(p) < k
      BY PairsNumbered
    <2>2. Pairs = {p \in D \X D : p[1] < p[2]}
      BY <1>1 DEF Pairs
    <2> QED BY <2>1, <2>2 DEF AsFirst, AsSecond
  <1>3. Entries(name) = Cardinality(places)
    BY <1>1 DEF Entries
  <1>4. /\ IsFiniteSet(D) /\ Cardinality(D) = n
        /\ IsFiniteSet(D \X D)
    <2>1. IsFiniteSet(D) /\ Cardinality(D) = n
      BY <1>1, FS_Interval
    <2> QED BY <2>1, FS_Product
  <1>5. /\ IsFiniteSet(places) /\ Cardinality(places) \in Nat
        /\ IsFiniteSet(first) /\ Cardinality(first) \in Nat
        /\ IsFiniteSet(second) /\ Cardinality(second) \in Nat
        /\ IsFiniteSet(flipped) /\ Cardinality(flipped) \in Nat
        /\ IsFiniteSet(same) /\ Cardinality(same) \in Nat
    <2>1. /\ places \in SUBSET D /\ first \in SUBSET (D \X D) /\ second \in SUBSET (D \X D)
          /\ flipped \in SUBSET (D \X D) /\ same \in SUBSET (D \X D)
      OBVIOUS
    <2> HIDE DEF D, places, first, second, flipped, same
    <2> QED BY <1>4, <2>1, FS_Subset, FS_CardinalityType
  <1>6. Cardinality(flipped) = Cardinality(second)
    <2> DEFINE f == [p \in second |-> <<p[2], p[1]>>]
    <2>1. \A p \in second : /\ p[1] \in D /\ p[2] \in D /\ p = <<p[1], p[2]>>
                            /\ p[1] < p[2] /\ entrants[p[2]] = name
      OBVIOUS
    <2>2. \A p \in second : f[p] = <<p[2], p[1]>> /\ f[p] \in flipped
      BY <2>1
    <2>3. \A p \in flipped : <<p[2], p[1]>> \in second /\ f[<<p[2], p[1]>>] = p
      OBVIOUS
    <2>4. \A p, q \in second : f[p] = f[q] => p = q
      BY <2>1
    <2>5. DOMAIN f = second /\ f = [p \in second |-> f[p]]
      OBVIOUS
    <2> HIDE DEF f, second, flipped
    <2>6. f \in [second -> flipped]
      BY <2>2, <2>5
    <2>7. f \in Surjection(second, flipped)
      BY <2>3, <2>6 DEF Surjection
    <2>8. f \in Injection(second, flipped)
      BY <2>4, <2>6 DEF Injection, IsInjective
    <2> QED BY <1>5, <2>7, <2>8, FS_Surjection
  <1>7. Cardinality(same) = Cardinality(places)
    <2> DEFINE f == [i \in places |-> <<i, i>>]
    <2>1. \A i \in places : f[i] = <<i, i>> /\ f[i] \in same
      OBVIOUS
    <2>2. \A p \in same : p[1] \in places /\ f[p[1]] = p
      OBVIOUS
    <2>3. \A i, j \in places : f[i] = f[j] => i = j
      OBVIOUS
    <2>4. DOMAIN f = places /\ f = [i \in places |-> f[i]]
      OBVIOUS
    <2> HIDE DEF f, places, same
    <2>5. f \in [places -> same]
      BY <2>1, <2>4
    <2>6. f \in Surjection(places, same)
      BY <2>2, <2>5 DEF Surjection
    <2>7. f \in Injection(places, same)
      BY <2>3, <2>5 DEF Injection, IsInjective
    <2> QED BY <1>5, <2>6, <2>7, FS_Surjection
  <1>8. Cardinality(places \X D) = Cardinality(places) * n
    <2> HIDE DEF places, D
    <2> QED BY <1>4, <1>5, FS_Product
  <1>9. /\ places \X D = (first \cup flipped) \cup same
        /\ first \cap flipped = {} /\ (first \cup flipped) \cap same = {}
    <2>1. \A i, j \in D : i < j \/ j < i \/ i = j
      BY <1>1
    <2>2. \A i, j \in D : ~(i < j /\ j < i) /\ ~(i < j /\ i = j) /\ ~(j < i /\ i = j)
      BY <1>1
    <2>3. ASSUME NEW p \in D \X D, entrants[p[1]] = name
          PROVE  p \in first \/ p \in flipped \/ p \in same
      BY <2>1, <2>3
    <2>4. \A p \in D \X D : p \in places \X D <=> entrants[p[1]] = name
      OBVIOUS
    <2>5. \A p \in places \X D : p \in D \X D
      OBVIOUS
    <2>6. first \cap flipped = {}
      BY <2>2
    <2>7. (first \cup flipped) \cap same = {}
      BY <2>2
    <2>8. /\ \A p \in first : p \in D \X D /\ entrants[p[1]] = name
          /\ \A p \in flipped : p \in D \X D /\ entrants[p[1]] = name
          /\ \A p \in same : p \in D \X D /\ entrants[p[1]] = name
      OBVIOUS
    <2> DEFINE grid == places \X D
    <2> HIDE DEF first, flipped, same, grid
    <2>9. \A p : p \in grid <=> p \in first \/ p \in flipped \/ p \in same
      BY <2>3, <2>4, <2>5, <2>8 DEF grid
    <2>10. grid = (first \cup flipped) \cup same
      BY <2>9
    <2> QED BY <2>6, <2>7, <2>10 DEF grid
  <1> DEFINE grid == places \X D
             c == Cardinality(places)
  <1>10. Cardinality(grid) = Cardinality(first) + Cardinality(flipped) + Cardinality(same)
    <2> HIDE DEF first, flipped, same, grid
    <2>1. Cardinality({}) = 0
      BY FS_EmptySet
    <2>2. /\ IsFiniteSet(first \cup flipped)
          /\ Cardinality(first \cup flipped)
                = Cardinality(first) + Cardinality(flipped) - Cardinality(first \cap flipped)
      BY <1>5, FS_Union
    <2>3. Cardinality((first \cup flipped) \cup same)
             = Cardinality(first \cup flipped) + Cardinality(same)
               - Cardinality((first \cup flipped) \cap same)
      BY <1>5, <2>2, FS_Union
    <2>4. grid = (first \cup flipped) \cup same
      BY <1>9 DEF grid
    <2>5. (first \cup flipped) \cap same = {} /\ first \cap flipped = {}
      BY <1>9
    <2>6. /\ Cardinality(first \cap flipped) = 0
          /\ Cardinality((first \cup flipped) \cap same) = 0
      BY <2>1, <2>5
    <2>7. Cardinality(grid) = Cardinality((first \cup flipped) \cup same)
      BY <2>4
    <2> QED BY <1>5, <2>2, <2>3, <2>6, <2>7
  <1>11. PICK a \in Nat, b \in Nat, d \in Nat :
            /\ a = Cardinality(first) /\ b = Cardinality(second) /\ d = c
    BY <1>5
  <1>12. d * n = a + b + d
    BY <1>6, <1>7, <1>8, <1>10, <1>11
  <1>13. a + b = d * (n - 1)
    BY <1>1, <1>12
  <1> HIDE DEF first, second, places
  <1> QED BY <1>2, <1>3, <1>11, <1>13

LEMMA EverybodyMeets == RobinInv /\ MetInv /\ entrants \in Seq(Names) => EveryoneMet
  <1> SUFFICES ASSUME RobinInv, MetInv, entrants \in Seq(Names), mode = "round_robin",
                      TournamentOver, NEW name \in Names
               PROVE  leaderboard[name].matches = Entries(name) * (Len(entrants) - 1)
    BY DEF EveryoneMet
  <1>1. leaderboard[name].matches = Cardinality(AsFirst(name, Len(fixtures)))
                                    + Cardinality(AsSecond(name, Len(fixtures)))
    BY DEF MetInv
  <1>2. Len(fixtures) = Cardinality(Pairs)
    BY DEF TournamentOver
  <1> QED BY <1>1, <1>2, PlacesPaired

-----------------------------------------------------------------------------
(* Tournaments.                                                            *)

LEMMA TournamentBegins == TournamentInit => KnockoutInv /\ RobinInv /\ MetInv
  <1> SUFFICES ASSUME TournamentInit PROVE KnockoutInv /\ RobinInv /\ MetInv
    OBVIOUS
  <1>1. KnockoutInv
    BY TournamentStart
  <1>2. entrants \in Seq(Names)
    BY <1>1 DEF KnockoutInv
  <1> QED BY <1>1, <1>2, RobinStart, MetStart

LEMMA TournamentProceeds ==
    KnockoutInv /\ RobinInv /\ MetInv /\ [TournamentNext]_tournamentVars
        => KnockoutInv' /\ RobinInv' /\ MetInv'
  <1>1. KnockoutInv => entrants \in Seq(Names)
    BY DEF KnockoutInv
  <1> QED BY <1>1, TournamentGoesOn, RobinGoesOn, MetGoesOn

LEMMA TournamentJudged == KnockoutInv /\ RobinInv /\ MetInv => TournamentSound
  <1>1. KnockoutInv => entrants \in Seq(Names)
    BY DEF KnockoutInv
  <1> QED BY <1>1, DefeatEliminates, BoardBalances, EverybodyMeets DEF TournamentSound

(* For any number of entrants and of hands a match, and whatever the       *)
(* results: what one entrant of a round robin has won others have lost,    *)
(* each match counts for its two seats and beats at most one of them, and  *)
(* at the end everyone has met everyone else once, a name that is in the   *)
(* list twice included; in a knockout an entrant is out after one defeat   *)
(* and for nothing else, whatever the byes of odd rounds.                  *)
THEOREM StandingsAreRight == TournamentSpec => []TournamentSound
  <1> QED BY TournamentBegins, TournamentProceeds, TournamentJudged, PTL DEF TournamentSpec

(* The same of the tournament of the composition.                          *)
THEOREM TournamentsAreSound == PartsSpec => []TournamentsHold
  <1>1. PartsInit => TournamentInit
    BY DEF PartsInit
  <1>2. [PartsNext]_partsVars => [TournamentNext]_tournamentVars
    <2>1. PartsNext => TournamentNext \/ UNCHANGED tournamentVars
      BY DEF PartsNext, PlaysHand, PlaysTournament, Ranks, Values, Learns, Trains, Coaches,
             Profiled, Bends, Notices, Solves, Believes, partsVars
    <2>2. UNCHANGED partsVars => UNCHANGED tournamentVars
      BY DEF partsVars
    <2> QED BY <2>1, <2>2
  <1>3. KnockoutInv /\ RobinInv /\ MetInv => TournamentsHold
    BY TournamentJudged DEF TournamentsHold
  <1> QED BY <1>1, <1>2, <1>3, TournamentBegins, TournamentProceeds, PTL DEF PartsSpec


-----------------------------------------------------------------------------
(* Sums over parts of a set.                                               *)

(* Whichever number is taken out first, the sum is that number and the sum *)
(* of the others.                                                          *)
LEMMA SumTakesOut ==
    ASSUME NEW S, IsFiniteSet(S), NEW f \in [S -> Int], NEW g, Sums(g, f, S)
    PROVE  /\ g[{}] = 0
           /\ \A s \in SUBSET S : g[s] \in Int
           /\ \A s \in SUBSET S : \A y \in s : g[s] = f[y] + g[s \ {y}]
  <1> DEFINE Right(s) == g[s] \in Int /\ \A y \in s : g[s] = f[y] + g[s \ {y}]
             N == {n \in Nat : \A s \in SUBSET S : Cardinality(s) <= n => Right(s)}
  <1>1. \A s \in SUBSET S : IsFiniteSet(s) /\ Cardinality(s) \in Nat
    BY FS_Subset, FS_CardinalityType
  <1>2. ASSUME NEW s \in SUBSET S
        PROVE  g[s] = IF s = {} THEN 0
                      ELSE LET x == CHOOSE x \in s : TRUE IN f[x] + g[s \ {x}]
    BY DEF Sums
  <1>3. g[{}] = 0
    BY <1>2
  <1>4. 0 \in N
    <2>1. \A s \in SUBSET S : Cardinality(s) <= 0 => s = {}
      BY <1>1, FS_EmptySet
    <2>2. Right({})
      BY <1>3
    <2> HIDE DEF Right
    <2> QED BY <2>1, <2>2
  <1>5. ASSUME NEW n \in N PROVE n + 1 \in N
    <2>1. n \in Nat /\ \A s \in SUBSET S : Cardinality(s) <= n => Right(s)
      BY <1>5
    <2>2. ASSUME NEW s \in SUBSET S, Cardinality(s) <= n + 1, s # {} PROVE Right(s)
      <3>1. PICK x : x = CHOOSE z \in s : TRUE
        OBVIOUS
      <3>2. x \in s /\ x \in S /\ s \ {x} \in SUBSET S /\ Cardinality(s \ {x}) <= n
        BY <1>1, <2>1, <2>2, <3>1, SmallerSet
      <3>3. Right(s \ {x})
        BY <2>1, <3>2
      <3>4. g[s] = f[x] + g[s \ {x}]
        BY <1>2, <2>2, <3>1
      <3>5. f[x] \in Int
        BY <3>2
      <3>6. ASSUME NEW y \in s, y # x PROVE g[s] = f[y] + g[s \ {y}]
        <4>1. y \in s \ {x} /\ f[y] \in Int /\ s \ {y} \in SUBSET S
          BY <3>6
        <4>2. g[s \ {x}] = f[y] + g[(s \ {x}) \ {y}]
          BY <3>3, <4>1
        <4>3. Cardinality(s \ {y}) <= n
          <5>1. Cardinality(s \ {y}) = Cardinality(s) - 1
            BY <1>1, FS_RemoveElement
          <5> QED BY <1>1, <2>1, <2>2, <5>1
        <4>4. Right(s \ {y})
          BY <2>1, <4>1, <4>3
        <4>5. g[s \ {y}] = f[x] + g[(s \ {y}) \ {x}]
          BY <3>2, <3>6, <4>4
        <4>6. (s \ {y}) \ {x} = (s \ {x}) \ {y}
          OBVIOUS
        <4>7. g[(s \ {x}) \ {y}] \in Int
          <5>1. (s \ {x}) \ {y} \in SUBSET S
            OBVIOUS
          <5>2. Cardinality((s \ {x}) \ {y}) <= Cardinality(s \ {x})
            BY <1>1, <3>2, FS_Subset
          <5>3. Cardinality((s \ {x}) \ {y}) <= n
            BY <1>1, <2>1, <3>2, <5>1, <5>2
          <5> QED BY <2>1, <5>1, <5>3
        <4>8. \A a, b, c \in Int : a + (b + c) = b + (a + c)
          OBVIOUS
        <4>9. f[x] + (f[y] + g[(s \ {x}) \ {y}]) = f[y] + (f[x] + g[(s \ {x}) \ {y}])
          BY <3>5, <4>1, <4>7, <4>8
        <4> QED BY <3>4, <4>2, <4>5, <4>6, <4>9, Zenon
      <3>7. g[s \ {x}] \in Int
        BY <3>3
      <3>8. g[s] \in Int
        BY <3>4, <3>5, <3>7
      <3>9. \A y \in s : g[s] = f[y] + g[s \ {y}]
        BY <3>4, <3>6, Zenon
      <3> QED BY <3>8, <3>9
    <2>3. ASSUME NEW s \in SUBSET S, s = {} PROVE Right(s)
      BY <1>3, <2>3
    <2> HIDE DEF Right
    <2>4. \A s \in SUBSET S : Cardinality(s) <= n + 1 => Right(s)
      BY <2>2, <2>3
    <2> QED BY <2>1, <2>4
  <1> HIDE DEF N
  <1>6. N = Nat
    BY <1>4, <1>5, ByNumber DEF N
  <1>7. ASSUME NEW s \in SUBSET S PROVE Right(s)
    <2> HIDE DEF Right
    <2> QED BY <1>1, <1>6 DEF N
  <1> QED BY <1>3, <1>7

(* A sum over two disjoint sets is that over the one and over the other.   *)
LEMMA SumSplits ==
    ASSUME NEW S, IsFiniteSet(S), NEW f \in [S -> Int], NEW g, Sums(g, f, S),
           NEW T, NEW U, T \cup U = S, T \cap U = {}
    PROVE  g[S] = g[T] + g[U]
  <1> DEFINE Right(s) == g[s] = g[s \cap T] + g[s \cap U]
             N == {n \in Nat : \A s \in SUBSET S : Cardinality(s) <= n => Right(s)}
  <1>1. \A s \in SUBSET S : IsFiniteSet(s) /\ Cardinality(s) \in Nat
    BY FS_Subset, FS_CardinalityType
  <1>2. /\ g[{}] = 0 /\ \A s \in SUBSET S : g[s] \in Int
        /\ \A s \in SUBSET S : \A y \in s : g[s] = f[y] + g[s \ {y}]
    <2> DEFINE Additive(X, e, h) ==
            /\ h[{}] = 0 /\ \A s \in SUBSET X : h[s] \in Int
            /\ \A s \in SUBSET X : \A y \in s : h[s] = e[y] + h[s \ {y}]
    <2>1. \A X, e, h : IsFiniteSet(X) /\ e \in [X -> Int] /\ Sums(h, e, X)
                             => Additive(X, e, h)
      BY SumTakesOut
    <2> HIDE DEF Additive
    <2>2. Additive(S, f, g)
      BY <2>1
    <2> QED BY <2>2 DEF Additive
  <1>9. \A a, b, c \in Int : a + (b + c) = (a + b) + c /\ a + (b + c) = b + (a + c)
    OBVIOUS
  <1>3. Right({})
    BY <1>2
  <1>4. 0 \in N
    <2>1. \A s \in SUBSET S : Cardinality(s) <= 0 => s = {}
      BY <1>1, FS_EmptySet
    <2> HIDE DEF Right
    <2> QED BY <1>3, <2>1
  <1>5. ASSUME NEW n \in N PROVE n + 1 \in N
    <2>1. n \in Nat /\ \A s \in SUBSET S : Cardinality(s) <= n => Right(s)
      BY <1>5
    <2>2. ASSUME NEW s \in SUBSET S, Cardinality(s) <= n + 1, s # {} PROVE Right(s)
      <3>1. PICK y : y \in s
        BY <2>2
      <3>2. s \ {y} \in SUBSET S /\ Cardinality(s \ {y}) <= n
        <4>1. Cardinality(s \ {y}) = Cardinality(s) - 1
          BY <1>1, <3>1, FS_RemoveElement
        <4> QED BY <1>1, <2>1, <2>2, <4>1
      <3>3. g[s \ {y}] = g[(s \ {y}) \cap T] + g[(s \ {y}) \cap U]
        BY <2>1, <3>2
      <3>4. g[s] = f[y] + g[s \ {y}] /\ f[y] \in Int
        BY <1>2, <3>1
      <3>5. /\ g[s \cap T] \in Int /\ g[s \cap U] \in Int
            /\ g[(s \ {y}) \cap T] \in Int /\ g[(s \ {y}) \cap U] \in Int
        <4>1. /\ s \cap T \in SUBSET S /\ s \cap U \in SUBSET S
              /\ (s \ {y}) \cap T \in SUBSET S /\ (s \ {y}) \cap U \in SUBSET S
          OBVIOUS
        <4> QED BY <1>2, <4>1
      <3>6. CASE y \in T
        <4>1. (s \ {y}) \cap T = (s \cap T) \ {y} /\ (s \ {y}) \cap U = s \cap U
          BY <3>6
        <4>2. s \cap T \in SUBSET S /\ y \in s \cap T
          BY <3>1, <3>6
        <4>3. g[s \cap T] = f[y] + g[(s \cap T) \ {y}]
          BY <1>2, <4>2
        <4>4. (s \cap T) \ {y} = (s \ {y}) \cap T
          BY <4>1
        <4>5. f[y] + (g[(s \ {y}) \cap T] + g[s \cap U])
                 = (f[y] + g[(s \ {y}) \cap T]) + g[s \cap U]
          BY <1>9, <3>4, <3>5
        <4>6. g[s \ {y}] = g[(s \ {y}) \cap T] + g[s \cap U]
          BY <3>3, <4>1, Zenon
        <4>7. g[s \cap T] = f[y] + g[(s \ {y}) \cap T]
          BY <4>3, <4>4, Zenon
        <4> QED BY <3>4, <4>5, <4>6, <4>7, Zenon
      <3>7. CASE y \notin T
        <4>1. y \in U /\ (s \ {y}) \cap U = (s \cap U) \ {y} /\ (s \ {y}) \cap T = s \cap T
          BY <3>1, <3>7
        <4>2. s \cap U \in SUBSET S /\ y \in s \cap U
          BY <3>1, <4>1
        <4>3. g[s \cap U] = f[y] + g[(s \cap U) \ {y}]
          BY <1>2, <4>2
        <4>4. (s \cap U) \ {y} = (s \ {y}) \cap U
          BY <4>1
        <4>5. f[y] + (g[s \cap T] + g[(s \ {y}) \cap U])
                 = g[s \cap T] + (f[y] + g[(s \ {y}) \cap U])
          BY <1>9, <3>4, <3>5
        <4>6. g[s \ {y}] = g[s \cap T] + g[(s \ {y}) \cap U]
          BY <3>3, <4>1, Zenon
        <4>7. g[s \cap U] = f[y] + g[(s \ {y}) \cap U]
          BY <4>3, <4>4, Zenon
        <4> QED BY <3>4, <4>5, <4>6, <4>7, Zenon
      <3> QED BY <3>6, <3>7
    <2>3. ASSUME NEW s \in SUBSET S, s = {} PROVE Right(s)
      BY <1>3, <2>3
    <2> HIDE DEF Right
    <2>4. \A s \in SUBSET S : Cardinality(s) <= n + 1 => Right(s)
      BY <2>2, <2>3
    <2> QED BY <2>1, <2>4
  <1> HIDE DEF N
  <1>6. N = Nat
    BY <1>4, <1>5, ByNumber DEF N
  <1>7. Cardinality(S) \in Nat /\ S \in SUBSET S /\ S \cap T = T /\ S \cap U = U
    BY FS_CardinalityType
  <1>8. Right(S)
    <2> HIDE DEF Right
    <2> QED BY <1>6, <1>7 DEF N
  <1> QED BY <1>7, <1>8

(* The sum over a part is the same wherever it is computed.                *)
LEMMA SumOfPart ==
    ASSUME NEW S, IsFiniteSet(S), NEW T \in SUBSET S, NEW f, NEW g, NEW h,
           Sums(g, f, S), Sums(h, f, T)
    PROVE  h[T] = g[T]
  <1> DEFINE N == {n \in Nat : \A s \in SUBSET T : Cardinality(s) <= n => h[s] = g[s]}
  <1>1. \A s \in SUBSET T : IsFiniteSet(s) /\ Cardinality(s) \in Nat
    BY FS_Subset, FS_CardinalityType
  <1>2. ASSUME NEW s \in SUBSET T
        PROVE  /\ g[s] = IF s = {} THEN 0
                         ELSE LET x == CHOOSE x \in s : TRUE IN f[x] + g[s \ {x}]
               /\ h[s] = IF s = {} THEN 0
                         ELSE LET x == CHOOSE x \in s : TRUE IN f[x] + h[s \ {x}]
    BY DEF Sums
  <1>3. 0 \in N
    <2>1. \A s \in SUBSET T : Cardinality(s) <= 0 => s = {}
      BY <1>1, FS_EmptySet
    <2> QED BY <1>2, <2>1
  <1>4. ASSUME NEW n \in N PROVE n + 1 \in N
    <2>1. n \in Nat /\ \A s \in SUBSET T : Cardinality(s) <= n => h[s] = g[s]
      BY <1>4
    <2>2. ASSUME NEW s \in SUBSET T, Cardinality(s) <= n + 1, s # {} PROVE h[s] = g[s]
      <3>1. PICK x : x = CHOOSE z \in s : TRUE
        OBVIOUS
      <3>2. s \ {x} \in SUBSET T /\ Cardinality(s \ {x}) <= n
        BY <1>1, <2>1, <2>2, <3>1, SmallerSet
      <3>3. g[s] = f[x] + g[s \ {x}] /\ h[s] = f[x] + h[s \ {x}]
        BY <1>2, <2>2, <3>1
      <3> QED BY <2>1, <3>2, <3>3
    <2>3. \A s \in SUBSET T : Cardinality(s) <= n + 1 => h[s] = g[s]
      BY <1>2, <2>2
    <2> QED BY <2>1, <2>3
  <1> HIDE DEF N
  <1>5. N = Nat
    BY <1>3, <1>4, ByNumber DEF N
  <1>6. Cardinality(T) \in Nat /\ T \in SUBSET T
    BY <1>1
  <1> QED BY <1>5, <1>6 DEF N

-----------------------------------------------------------------------------
(* Sessions that are coached.                                              *)

PlayedStreets == {"pre_flop", "flop", "turn", "river"}

PricedDecision ==
    [seat : {0, 1}, street : PlayedStreets, action : {"fold", "call", "raise"},
     to_call : {1}, equity : 0 .. 100, pot_odds : {Odds}]
FreeDecision ==
    [seat : {0, 1}, street : PlayedStreets, action : {"check", "bet"},
     to_call : {0}, equity : 0 .. 100, pot_odds : {0}]

(* Whoever folds, calls or raises faces a price and has odds; whoever      *)
(* checks or bets has neither.                                             *)
CoachInv ==
    /\ dealer \in {0, 1} /\ at \in PlayedStreets
    /\ decisions \in Seq(PricedDecision \cup FreeDecision)

LEMMA CoachBegins == CoachInit => CoachInv
  <1> SUFFICES ASSUME CoachInit PROVE CoachInv
    OBVIOUS
  <1>1. <<>> \in Seq(PricedDecision \cup FreeDecision)
    OBVIOUS
  <1> QED BY <1>1 DEF CoachInit, CoachInv, PlayedStreets

(* A line is a short sequence of moves.                                    *)
LEMMA LinesAreMoves ==
    ASSUME NEW acts \in Lines
    PROVE  /\ \E n \in {1, 2} : DOMAIN acts = 1 .. n
           /\ \A i \in DOMAIN acts :
                 \/ \E action \in {"fold", "call", "raise"} : acts[i] = Priced(action)
                 \/ \E action \in {"check", "bet"} : acts[i] = Free(action)
  <1> DEFINE IsMove(m) == \/ \E action \in {"fold", "call", "raise"} : m = Priced(action)
                         \/ \E action \in {"check", "bet"} : m = Free(action)
             Brief(l) == (\E n \in {1, 2} : DOMAIN l = 1 .. n) /\ \A i \in DOMAIN l : IsMove(l[i])
  <1>1. /\ IsMove(Priced("fold")) /\ IsMove(Priced("call")) /\ IsMove(Priced("raise"))
        /\ IsMove(Free("check")) /\ IsMove(Free("bet"))
    OBVIOUS
  <1> HIDE DEF IsMove
  <1>2. \A a : IsMove(a) => Brief(<<a>>)
    OBVIOUS
  <1>3. \A a, b : IsMove(a) /\ IsMove(b) => Brief(<<a, b>>)
    OBVIOUS
  <1> HIDE DEF Brief
  <1>4. ASSUME at = "pre_flop" PROVE Brief(acts)
    <2>1. \/ acts = <<Priced("fold")>> \/ acts = <<Priced("call"), Free("check")>>
          \/ acts = <<Priced("raise"), Priced("fold")>>
          \/ acts = <<Priced("raise"), Priced("call")>>
      BY <1>4, Zenon DEF Lines
    <2> QED BY <1>1, <1>2, <1>3, <2>1
  <1>5. ASSUME at # "pre_flop" PROVE Brief(acts)
    <2>1. \/ acts = <<Free("check"), Free("check")>> \/ acts = <<Free("bet"), Priced("fold")>>
          \/ acts = <<Free("bet"), Priced("call")>>
      BY <1>5, Zenon DEF Lines
    <2> QED BY <1>1, <1>3, <2>1
  <1>6. Brief(acts)
    BY <1>4, <1>5
  <1> QED BY <1>6 DEF Brief, IsMove

LEMMA DecisionsMade ==
    ASSUME CoachInv, NEW seat \in {0, 1}, NEW equity \in Equities, NEW action
    PROVE  /\ action \in {"fold", "call", "raise"}
                 => Decide(Priced(action), seat, equity) \in PricedDecision
           /\ action \in {"check", "bet"}
                 => Decide(Free(action), seat, equity) \in FreeDecision
  <1>1. at \in PlayedStreets /\ equity \in 0 .. 100 /\ 1 * Odds = Odds /\ 0 * Odds = 0
    BY OddsAssumption DEF CoachInv
  <1>2. ASSUME action \in {"fold", "call", "raise"}
        PROVE  Decide(Priced(action), seat, equity) \in PricedDecision
    <2>1. Decide(Priced(action), seat, equity)
             = [seat |-> seat, street |-> at, action |-> action, to_call |-> 1,
                equity |-> equity, pot_odds |-> Odds]
      BY <1>1 DEF Decide, Priced
    <2> QED BY <1>1, <1>2, <2>1 DEF PricedDecision
  <1>3. ASSUME action \in {"check", "bet"}
        PROVE  Decide(Free(action), seat, equity) \in FreeDecision
    <2>1. Decide(Free(action), seat, equity)
             = [seat |-> seat, street |-> at, action |-> action, to_call |-> 0,
                equity |-> equity, pot_odds |-> 0]
      BY <1>1 DEF Decide, Free
    <2> QED BY <1>1, <1>3, <2>1 DEF FreeDecision
  <1> QED BY <1>2, <1>3

LEMMA CoachGoesOn == CoachInv /\ [CoachNext]_coachVars => CoachInv'
  <1> SUFFICES ASSUME CoachInv, [CoachNext]_coachVars PROVE CoachInv'
    OBVIOUS
  <1>1. CASE UNCHANGED coachVars
    BY <1>1 DEF CoachInv, coachVars
  <1>2. CASE PlayStreet
    <2> DEFINE Becomes(acts, equity) ==
            /\ decisions' = decisions \o
                   [i \in DOMAIN acts |->
                       Decide(acts[i], IF i = 1 THEN First ELSE Other(First), equity[i])]
            /\ IF at = "river" \/ \E i \in DOMAIN acts : acts[i].action = "fold"
               THEN at' = "pre_flop" /\ dealer' = Other(dealer)
               ELSE at' = NextOf[at] /\ UNCHANGED dealer
    <2>11. PICK acts \in Lines : \E equity \in [DOMAIN acts -> Equities] : Becomes(acts, equity)
      BY <1>2, Zenon DEF PlayStreet
    <2>1. PICK equity \in [DOMAIN acts -> Equities] : Becomes(acts, equity)
      BY <2>11, Zenon
    <2> DEFINE seats(i) == IF i = 1 THEN First ELSE Other(First)
               made == [i \in DOMAIN acts |-> Decide(acts[i], seats(i), equity[i])]
    <2>2. dealer \in {0, 1} /\ at \in PlayedStreets
      BY DEF CoachInv
    <2>3. dealer' \in {0, 1}
      BY <2>1, <2>2 DEF Other
    <2>4. at' \in PlayedStreets
      BY <2>1, <2>2 DEF PlayedStreets, NextOf
    <2>5. \A i : seats(i) \in {0, 1}
      BY <2>2 DEF First, Other
    <2> HIDE DEF seats
    <2>6. \A i \in DOMAIN acts :
              Decide(acts[i], seats(i), equity[i]) \in PricedDecision \cup FreeDecision
      <3> TAKE i \in DOMAIN acts
      <3>1. equity[i] \in Equities /\ seats(i) \in {0, 1}
        BY <2>1, <2>5
      <3>2. CASE \E action \in {"fold", "call", "raise"} : acts[i] = Priced(action)
        BY <3>1, <3>2, DecisionsMade
      <3>3. CASE \E action \in {"check", "bet"} : acts[i] = Free(action)
        BY <3>1, <3>3, DecisionsMade
      <3> QED BY <3>2, <3>3, LinesAreMoves
    <2>7. PICK n \in {1, 2} : DOMAIN acts = 1 .. n
      BY LinesAreMoves, <2>11
    <2>8. made \in Seq(PricedDecision \cup FreeDecision)
      <3> DEFINE S == PricedDecision \cup FreeDecision
                 D(i) == Decide(acts[i], seats(i), equity[i])
      <3>1. \A i \in 1 .. n : D(i) \in S
        BY <2>6, <2>7
      <3> HIDE DEF S, D
      <3>2. [i \in 1 .. n |-> D(i)] \in Seq(S)
        BY <2>7, <3>1
      <3> QED BY <2>7, <3>2 DEF S, D
    <2>9. decisions' = decisions \o made
      BY <2>1, Zenon DEF seats
    <2> HIDE DEF made
    <2>10. decisions' \in Seq(PricedDecision \cup FreeDecision)
      BY <2>8, <2>9 DEF CoachInv
    <2> QED BY <2>3, <2>4, <2>10 DEF CoachInv
  <1> QED BY <1>1, <1>2 DEF CoachNext

(* By how much the equity of a decision exceeds its odds.                  *)
Margins == [i \in DOMAIN decisions |-> decisions[i].equity - decisions[i].pot_odds]

LEMMA DecisionFields ==
    ASSUME CoachInv, NEW i \in DOMAIN decisions
    PROVE  /\ decisions[i] \in PricedDecision \cup FreeDecision
           /\ decisions[i].equity \in 0 .. 100 /\ decisions[i].pot_odds \in 0 .. 100
           /\ decisions[i].seat \in {0, 1} /\ decisions[i].street \in PlayedStreets
           /\ \/ /\ decisions[i].to_call = 1 /\ decisions[i].pot_odds = Odds
                 /\ decisions[i].action \in {"fold", "call", "raise"}
              \/ /\ decisions[i].to_call = 0 /\ decisions[i].pot_odds = 0
                 /\ decisions[i].action \in {"check", "bet"}
  <1>1. decisions[i] \in PricedDecision \cup FreeDecision
    BY DEF CoachInv
  <1>2. CASE decisions[i] \in PricedDecision
    BY <1>1, <1>2, OddsAssumption DEF PricedDecision
  <1>3. CASE decisions[i] \in FreeDecision
    BY <1>1, <1>3, OddsAssumption DEF FreeDecision
  <1> QED BY <1>1, <1>2, <1>3

LEMMA Session ==
    CoachInv => IsFiniteSet(DOMAIN decisions) /\ Margins \in [DOMAIN decisions -> Int]
  <1> SUFFICES ASSUME CoachInv
               PROVE  IsFiniteSet(DOMAIN decisions) /\ Margins \in [DOMAIN decisions -> Int]
    OBVIOUS
  <1>1. Len(decisions) \in Nat /\ DOMAIN decisions = 1 .. Len(decisions)
    BY DEF CoachInv
  <1>2. IsFiniteSet(1 .. Len(decisions))
    BY <1>1, FS_Interval
  <1>3. \A i \in DOMAIN decisions : decisions[i].equity - decisions[i].pot_odds \in Int
    BY DecisionFields
  <1> QED BY <1>1, <1>2, <1>3 DEF Margins

LEMMA SumOfMargins ==
    ASSUME NEW places \in SUBSET DOMAIN decisions, IsFiniteSet(places)
    PROVE  \E g : Sums(g, Margins, places) /\ EdgeSum(places) = g[places]
  <1> DEFINE Iter(g) == g = [s \in SUBSET places |->
                                IF s = {} THEN 0
                                ELSE LET x == CHOOSE x \in s : TRUE
                                     IN  decisions[x].equity - decisions[x].pot_odds + g[s \ {x}]]
             f == Margins
  <1>1. EdgeSum(places) = (CHOOSE g : Iter(g))[places]
    BY Zenon DEF EdgeSum, MapThenSumSet, MapThenFoldSet
  <1>2. ASSUME NEW g PROVE Iter(g) <=> Sums(g, f, places)
    <2>1. \A x \in places : f[x] = decisions[x].equity - decisions[x].pot_odds
      BY DEF Margins
    <2> HIDE DEF f
    <2>2. [s \in SUBSET places |-> IF s = {} THEN 0
                                  ELSE LET x == CHOOSE x \in s : TRUE
                                       IN  decisions[x].equity - decisions[x].pot_odds + g[s \ {x}]]
          = [s \in SUBSET places |-> IF s = {} THEN 0
                                    ELSE LET x == CHOOSE x \in s : TRUE IN f[x] + g[s \ {x}]]
      BY <2>1
    <2> QED BY <2>2, Zenon DEF Sums
  <1> HIDE DEF Iter, f
  <1>3. PICK g : Sums(g, f, places)
    BY SumsExist
  <1>4. Iter(CHOOSE h : Iter(h))
    BY <1>2, <1>3, Zenon
  <1> QED BY <1>1, <1>2, <1>4 DEF f

(* What is added up over the decisions of both seats is what is added up   *)
(* over those of each.                                                     *)
LEMMA EdgesSplit ==
    ASSUME CoachInv, NEW S \in SUBSET DOMAIN decisions, NEW T, NEW U,
           T \cup U = S, T \cap U = {}
    PROVE  /\ EdgeSum(T) \in Int /\ EdgeSum(U) \in Int
           /\ EdgeSum(S) = EdgeSum(T) + EdgeSum(U)
  <1> DEFINE f == [i \in S |-> Margins[i]]
  <1>1. /\ IsFiniteSet(S) /\ IsFiniteSet(T) /\ IsFiniteSet(U)
        /\ T \in SUBSET S /\ U \in SUBSET S
    BY Session, FS_Subset
  <1>2. f \in [S -> Int]
    BY Session
  <1>3. PICK g : Sums(g, Margins, S) /\ EdgeSum(S) = g[S]
    BY <1>1, SumOfMargins
  <1>4. PICK h : Sums(h, Margins, T) /\ EdgeSum(T) = h[T]
    BY <1>1, SumOfMargins
  <1>5. PICK k : Sums(k, Margins, U) /\ EdgeSum(U) = k[U]
    BY <1>1, SumOfMargins
  <1>6. EdgeSum(T) = g[T] /\ EdgeSum(U) = g[U]
    BY <1>1, <1>3, <1>4, <1>5, SumOfPart
  <1>7. Sums(g, f, S)
    <2>1. \A x \in S : f[x] = Margins[x]
      OBVIOUS
    <2> HIDE DEF f
    <2> QED BY <1>3, <2>1 DEF Sums
  <1> HIDE DEF f
  <1>8. g[S] = g[T] + g[U]
    BY <1>1, <1>2, <1>7, SumSplits
  <1>9. g[T] \in Int /\ g[U] \in Int
    BY <1>1, <1>2, <1>7, SumTakesOut
  <1> QED BY <1>3, <1>6, <1>8, <1>9

LEMMA CountsSplit ==
    ASSUME CoachInv, NEW S \in SUBSET DOMAIN decisions, NEW T, NEW U,
           T \cup U = S, T \cap U = {}
    PROVE  /\ Cardinality(T) \in Nat /\ Cardinality(U) \in Nat
           /\ Cardinality(S) = Cardinality(T) + Cardinality(U)
  <1>1. IsFiniteSet(S) /\ IsFiniteSet(T) /\ IsFiniteSet(U)
    BY Session, FS_Subset
  <1>2. Cardinality(T) \in Nat /\ Cardinality(U) \in Nat
    BY <1>1, FS_CardinalityType
  <1>3. Cardinality(S) = Cardinality(T) + Cardinality(U) - Cardinality(T \cap U)
    BY <1>1, FS_Union
  <1>4. Cardinality(T \cap U) = 0
    BY FS_EmptySet
  <1> QED BY <1>2, <1>3, <1>4

(* The summary of a session is that of its seats together.                 *)
LEMMA SeatsSummed ==
    CoachInv =>
        \A field \in DOMAIN Summary(DOMAIN decisions) :
            Summary(DOMAIN decisions)[field]
                = Summary(OfSeat(0))[field] + Summary(OfSeat(1))[field]
  <1> DEFINE D == DOMAIN decisions
             A == OfSeat(0)
             B == OfSeat(1)
  <1> SUFFICES ASSUME CoachInv
               PROVE  \A field \in DOMAIN Summary(D) :
                          Summary(D)[field] = Summary(A)[field] + Summary(B)[field]
    BY Zenon
  <1>1. A \cup B = D /\ A \cap B = {} /\ D \in SUBSET D
    <2>1. \A i \in DOMAIN decisions : decisions[i].seat \in {0, 1}
      BY DecisionFields
    <2> QED BY <2>1 DEF OfSeat
  <1> HIDE DEF A, B
  <1>2. /\ FacedPrice(A) \cup FacedPrice(B) = FacedPrice(D)
        /\ FacedPrice(A) \cap FacedPrice(B) = {} /\ FacedPrice(D) \in SUBSET D
    BY <1>1 DEF FacedPrice
  <1>3. /\ Continued(A) \cup Continued(B) = Continued(D)
        /\ Continued(A) \cap Continued(B) = {} /\ Continued(D) \in SUBSET D
    BY <1>2 DEF Continued
  <1>4. /\ WithEdge(A) \cup WithEdge(B) = WithEdge(D)
        /\ WithEdge(A) \cap WithEdge(B) = {} /\ WithEdge(D) \in SUBSET D
    BY <1>3 DEF WithEdge
  <1> DEFINE n1(p) == Cardinality(p)
             n2(p) == Cardinality(FacedPrice(p))
             n3(p) == Cardinality(Continued(p))
             n4(p) == EdgeSum(FacedPrice(p))
             n5(p) == EdgeSum(Continued(p))
             n6(p) == Cardinality(WithEdge(p))
             Full(p) ==
                [decision_trace_count |-> n1(p), priced_decision_count |-> n2(p),
                 continue_decision_count |-> n3(p), priced_edge_sum |-> n4(p),
                 continue_ev_proxy_sum |-> n5(p), positive_edge_continues |-> n6(p)]
  <1>5. n1(D) = n1(A) + n1(B)
    <2>1. \A S, T, U : S \in SUBSET D /\ T \cup U = S /\ T \cap U = {}
                         => Cardinality(S) = Cardinality(T) + Cardinality(U)
      BY CountsSplit
    <2> HIDE DEF D
    <2> QED BY <1>1, <2>1
  <1>6. n2(D) = n2(A) + n2(B)
    BY <1>2, CountsSplit
  <1>7. n3(D) = n3(A) + n3(B)
    BY <1>3, CountsSplit
  <1>8. n4(D) = n4(A) + n4(B)
    BY <1>2, EdgesSplit
  <1>9. n5(D) = n5(A) + n5(B)
    BY <1>3, EdgesSplit
  <1>10. n6(D) = n6(A) + n6(B)
    BY <1>4, CountsSplit
  <1>11. Summary(A) = Full(A) /\ Summary(B) = Full(B) /\ Summary(D) = Full(D)
    BY DEF Summary
  <1> HIDE DEF n1, n2, n3, n4, n5, n6, D
  <1>12. \A field \in DOMAIN Full(D) : Full(D)[field] = Full(A)[field] + Full(B)[field]
    BY <1>5, <1>6, <1>7, <1>8, <1>9, <1>10
  <1> HIDE DEF Full
  <1> QED BY <1>11, <1>12

(* A decision is continued below its price exactly if it continued and not *)
(* with the edge.                                                          *)
LEMMA ReviewedCounted ==
    CoachInv =>
        LET summary == Summary(DOMAIN decisions)
        IN  summary.continue_decision_count - summary.positive_edge_continues
               = Cardinality({i \in DOMAIN decisions : BelowPrice(decisions[i])})
  <1> DEFINE D == DOMAIN decisions
             below == {i \in D : BelowPrice(decisions[i])}
  <1> SUFFICES ASSUME CoachInv
               PROVE  Summary(D).continue_decision_count - Summary(D).positive_edge_continues
                         = Cardinality(below)
    BY Zenon
  <1>1. \A i \in D : BelowPrice(decisions[i]) <=>
            i \in Continued(D) /\ ~(decisions[i].equity >= decisions[i].pot_odds)
    <2> TAKE i \in D
    <2>1. CASE decisions[i].to_call = 1 /\ decisions[i].pot_odds = Odds
      <3>1. decisions[i].equity \in 0 .. 100 /\ decisions[i].pot_odds \in 0 .. 100
        BY DecisionFields
      <3>2. i \in FacedPrice(D)
        BY <2>1 DEF FacedPrice
      <3>3. i \in Continued(D) <=> decisions[i].action \in Continues
        BY <3>2 DEF Continued
      <3> QED BY <3>1, <3>3 DEF BelowPrice
    <2>2. CASE decisions[i].to_call = 0 /\ decisions[i].action \in {"check", "bet"}
      BY <2>2, DecisionFields DEF BelowPrice, Continued, FacedPrice, Continues
    <2> QED BY <2>1, <2>2, DecisionFields
  <1>2. /\ WithEdge(D) \cup below = Continued(D) /\ WithEdge(D) \cap below = {}
        /\ Continued(D) \in SUBSET D
    <2>1. Continued(D) \in SUBSET D
      BY DEF Continued, FacedPrice
    <2> QED BY <1>1, <2>1 DEF WithEdge
  <1> DEFINE c == Cardinality(Continued(D))
             w == Cardinality(WithEdge(D))
  <1>3. Summary(D).continue_decision_count = c /\ Summary(D).positive_edge_continues = w
    BY DEF Summary
  <1>4. w \in Nat /\ Cardinality(below) \in Nat /\ c = w + Cardinality(below)
    BY <1>2, CountsSplit
  <1> HIDE DEF c, w, below, D
  <1> QED BY <1>3, <1>4

(* None of the tags of a street is a tag of the edge.                      *)
LEMMA TagsOfEdge ==
    ASSUME CoachInv, NEW i \in DOMAIN decisions
    PROVE  LET d == decisions[i]
           IN  /\ "priced_continue_positive_edge" \in Tags(d)
                     <=> d.equity >= d.pot_odds /\ d.to_call > 0
               /\ "priced_fold_disciplined" \in Tags(d)
                     <=> d.equity < d.pot_odds /\ d.action = "fold"
  <1> DEFINE d == decisions[i]
             street == StreetTags(d, d.action)
             edge == EdgeTags(d, d.action)
  <1>1. d.street \in PlayedStreets
    BY DecisionFields
  <1>2. /\ "priced_continue_positive_edge" \notin DOMAIN street
        /\ "priced_fold_disciplined" \notin DOMAIN street
    <2>1. CASE d.street = "pre_flop"
      BY <2>1 DEF StreetTags
    <2>2. CASE d.street = "flop"
      BY <2>2 DEF StreetTags
    <2>3. CASE d.street = "turn"
      BY <2>3 DEF StreetTags
    <2>4. CASE d.street = "river"
      BY <2>4 DEF StreetTags
    <2> QED BY <1>1, <2>1, <2>2, <2>3, <2>4 DEF PlayedStreets
  <1>3. /\ DOMAIN edge = {"priced_continue_positive_edge", "priced_fold_disciplined"}
        /\ edge["priced_continue_positive_edge"] <=> d.equity >= d.pot_odds /\ d.to_call > 0
        /\ edge["priced_fold_disciplined"] <=> d.equity < d.pot_odds /\ d.action = "fold"
    BY DEF EdgeTags
  <1>4. Tags(d) = {tag \in DOMAIN street : street[tag]} \cup {tag \in DOMAIN edge : edge[tag]}
    BY Zenon DEF Tags, ClassifyTrace
  <1> HIDE DEF street, edge, d
  <1>5. /\ "priced_continue_positive_edge" \in Tags(d)
                     <=> d.equity >= d.pot_odds /\ d.to_call > 0
        /\ "priced_fold_disciplined" \in Tags(d)
                     <=> d.equity < d.pot_odds /\ d.action = "fold"
    BY <1>2, <1>3, <1>4, Zenon
  <1> QED BY <1>5 DEF d

(* Every decision that faced a price is of one kind, and no other is.      *)
LEMMA JudgedAlike ==
    CoachInv =>
        \A i \in DOMAIN decisions :
            LET d == decisions[i]
                edge == "priced_continue_positive_edge" \in Tags(d)
                fold == "priced_fold_disciplined" \in Tags(d)
            IN  /\ edge \/ BelowPrice(d) \/ fold <=> d.to_call > 0
                /\ ~(edge /\ (BelowPrice(d) \/ fold)) /\ ~(BelowPrice(d) /\ fold)
  <1> SUFFICES ASSUME CoachInv, NEW i \in DOMAIN decisions
               PROVE  LET d == decisions[i]
                          edge == "priced_continue_positive_edge" \in Tags(d)
                          fold == "priced_fold_disciplined" \in Tags(d)
                      IN  /\ edge \/ BelowPrice(d) \/ fold <=> d.to_call > 0
                          /\ ~(edge /\ (BelowPrice(d) \/ fold)) /\ ~(BelowPrice(d) /\ fold)
    BY Zenon
  <1> DEFINE d == decisions[i]
  <1>1. /\ "priced_continue_positive_edge" \in Tags(d)
              <=> d.equity >= d.pot_odds /\ d.to_call > 0
        /\ "priced_fold_disciplined" \in Tags(d)
              <=> d.equity < d.pot_odds /\ d.action = "fold"
    BY TagsOfEdge
  <1>2. BelowPrice(d) <=> d.equity < d.pot_odds /\ d.action \in Continues
    BY DEF BelowPrice
  <1>3. /\ d.equity \in 0 .. 100 /\ d.pot_odds \in 0 .. 100
        /\ \/ d.to_call = 1 /\ d.action \in {"fold", "call", "raise"}
           \/ d.to_call = 0 /\ d.pot_odds = 0
    BY DecisionFields
  <1> HIDE DEF d
  <1>4. /\ \/ d.equity >= d.pot_odds /\ d.to_call > 0
           \/ d.equity < d.pot_odds /\ d.action \in Continues
           \/ d.equity < d.pot_odds /\ d.action = "fold"
           <=> d.to_call > 0
        /\ ~(d.equity >= d.pot_odds /\ d.equity < d.pot_odds)
        /\ ~(d.action \in Continues /\ d.action = "fold")
    BY <1>3 DEF Continues
  <1>5. /\ \/ "priced_continue_positive_edge" \in Tags(d) \/ BelowPrice(d)
           \/ "priced_fold_disciplined" \in Tags(d)
           <=> d.to_call > 0
        /\ ~("priced_continue_positive_edge" \in Tags(d)
                /\ (BelowPrice(d) \/ "priced_fold_disciplined" \in Tags(d)))
        /\ ~(BelowPrice(d) /\ "priced_fold_disciplined" \in Tags(d))
    BY <1>1, <1>2, <1>4, Zenon
  <1> QED BY <1>5, Zenon DEF d

(* What the topics of a curriculum may weigh.                              *)
Topics == {"river", "turn", "pre_flop"}
Prioritized == {subject \in Topics : Weight(subject) > 0}

LEMMA WeightsOfTopics ==
    /\ Weight("river") = IF NegativeOn("river") THEN 3 ELSE 0
    /\ Weight("turn") = IF NegativeOn("turn") THEN 1 ELSE 0
    /\ Weight("pre_flop") = IF SummarizeProfile(0) = "loose_passive" THEN 2 ELSE 0
  <1>1. "river_edge" \in Leaks <=> NegativeOn("river")
    BY Zenon DEF Leaks
  <1>2. "loose_passive" \in Leaks <=> SummarizeProfile(0) = "loose_passive"
    BY Zenon DEF Leaks
  <1>3. Weight("river") = (IF NegativeOn("river") THEN 2 ELSE 0)
                          + (IF "river_edge" \in Leaks THEN 1 ELSE 0)
    BY Zenon DEF Weight
  <1>4. Weight("turn") = IF NegativeOn("turn") THEN 1 ELSE 0
    BY Zenon DEF Weight
  <1>5. Weight("pre_flop") = IF "loose_passive" \in Leaks THEN 2 ELSE 0
    BY Zenon DEF Weight
  <1> QED BY <1>1, <1>2, <1>3, <1>4, <1>5

(* However many topics there are, they can be put in order.                *)
LEMMA TopicsOrdered ==
    \E order \in [1 .. Cardinality(Prioritized) -> Prioritized] :
        \A i, j \in DOMAIN order : i < j => Weight(order[i]) > Weight(order[j])
  <1> DEFINE Orderable(topics) ==
                \E order \in [1 .. Cardinality(topics) -> topics] :
                    \A i, j \in DOMAIN order : i < j => Weight(order[i]) > Weight(order[j])
  <1>1. Orderable({})
    <2>1. Cardinality({}) = 0
      BY FS_EmptySet
    <2>2. [i \in {} |-> i] \in [1 .. 0 -> {}] /\ DOMAIN [i \in {} |-> i] = {}
      OBVIOUS
    <2> QED BY <2>1, <2>2
  <1>2. ASSUME NEW a PROVE Orderable({a})
    <2>1. Cardinality({a}) = 1
      BY FS_Singleton
    <2> DEFINE o == [i \in 1 .. 1 |-> a]
    <2>2. o \in [1 .. Cardinality({a}) -> {a}]
      BY <2>1
    <2>3. \A i, j \in DOMAIN o : i < j => Weight(o[i]) > Weight(o[j])
      OBVIOUS
    <2> HIDE DEF o
    <2> QED BY <2>2, <2>3
  <1>3. ASSUME NEW a, NEW b, a # b, Weight(a) > Weight(b) PROVE Orderable({a, b})
    <2>1. Cardinality({a, b}) = 2
      <3>1. IsFiniteSet({a}) /\ Cardinality({a}) = 1 /\ {a, b} = {a} \cup {b} /\ b \notin {a}
        BY <1>3, FS_Singleton
      <3> QED BY <3>1, FS_AddElement
    <2> DEFINE o == [i \in 1 .. 2 |-> IF i = 1 THEN a ELSE b]
    <2>2. o \in [1 .. Cardinality({a, b}) -> {a, b}]
      BY <2>1
    <2>3. \A i, j \in DOMAIN o : i < j => Weight(o[i]) > Weight(o[j])
      BY <1>3
    <2> HIDE DEF o
    <2> QED BY <2>2, <2>3
  <1>4. ASSUME NegativeOn("river"), NegativeOn("turn"), SummarizeProfile(0) = "loose_passive"
        PROVE  Orderable({"river", "pre_flop", "turn"})
    <2>1. Cardinality({"river", "pre_flop", "turn"}) = 3
      <3>1. IsFiniteSet({"river"}) /\ Cardinality({"river"}) = 1
        BY FS_Singleton
      <3>2. /\ {"river", "pre_flop"} = {"river"} \cup {"pre_flop"} /\ "pre_flop" \notin {"river"}
            /\ {"river", "pre_flop", "turn"} = {"river", "pre_flop"} \cup {"turn"}
            /\ "turn" \notin {"river", "pre_flop"}
        OBVIOUS
      <3>3. IsFiniteSet({"river", "pre_flop"}) /\ Cardinality({"river", "pre_flop"}) = 2
        BY <3>1, <3>2, FS_AddElement
      <3> QED BY <3>2, <3>3, FS_AddElement
    <2> DEFINE o == [i \in 1 .. 3 |-> IF i = 1 THEN "river" ELSE IF i = 2 THEN "pre_flop"
                                      ELSE "turn"]
    <2>2. o \in [1 .. Cardinality({"river", "pre_flop", "turn"}) -> {"river", "pre_flop", "turn"}]
      BY <2>1
    <2>3. \A i, j \in DOMAIN o : i < j => Weight(o[i]) > Weight(o[j])
      BY <1>4, WeightsOfTopics
    <2> HIDE DEF o
    <2> QED BY <2>2, <2>3
  <1> HIDE DEF Orderable
  <1>5. CASE ~NegativeOn("river") /\ ~NegativeOn("turn") /\ SummarizeProfile(0) # "loose_passive"
    <2>1. Prioritized = {}
      BY <1>5, WeightsOfTopics DEF Prioritized, Topics
    <2> QED BY <1>1, <2>1 DEF Orderable
  <1>6. CASE NegativeOn("river") /\ ~NegativeOn("turn") /\ SummarizeProfile(0) # "loose_passive"
    <2>1. Prioritized = {"river"}
      BY <1>6, WeightsOfTopics DEF Prioritized, Topics
    <2> QED BY <1>2, <2>1 DEF Orderable
  <1>7. CASE ~NegativeOn("river") /\ NegativeOn("turn") /\ SummarizeProfile(0) # "loose_passive"
    <2>1. Prioritized = {"turn"}
      BY <1>7, WeightsOfTopics DEF Prioritized, Topics
    <2> QED BY <1>2, <2>1 DEF Orderable
  <1>8. CASE ~NegativeOn("river") /\ ~NegativeOn("turn") /\ SummarizeProfile(0) = "loose_passive"
    <2>1. Prioritized = {"pre_flop"}
      BY <1>8, WeightsOfTopics DEF Prioritized, Topics
    <2> QED BY <1>2, <2>1 DEF Orderable
  <1>9. CASE NegativeOn("river") /\ NegativeOn("turn") /\ SummarizeProfile(0) # "loose_passive"
    <2>1. Prioritized = {"river", "turn"} /\ Weight("river") > Weight("turn")
      BY <1>9, WeightsOfTopics DEF Prioritized, Topics
    <2> QED BY <1>3, <2>1 DEF Orderable
  <1>10. CASE NegativeOn("river") /\ ~NegativeOn("turn") /\ SummarizeProfile(0) = "loose_passive"
    <2>1. Prioritized = {"river", "pre_flop"} /\ Weight("river") > Weight("pre_flop")
      BY <1>10, WeightsOfTopics DEF Prioritized, Topics
    <2> QED BY <1>3, <2>1 DEF Orderable
  <1>11. CASE ~NegativeOn("river") /\ NegativeOn("turn") /\ SummarizeProfile(0) = "loose_passive"
    <2>1. Prioritized = {"pre_flop", "turn"} /\ Weight("pre_flop") > Weight("turn")
      BY <1>11, WeightsOfTopics DEF Prioritized, Topics
    <2> QED BY <1>3, <2>1 DEF Orderable
  <1>12. CASE NegativeOn("river") /\ NegativeOn("turn") /\ SummarizeProfile(0) = "loose_passive"
    <2>1. Prioritized = {"river", "pre_flop", "turn"}
      BY <1>12, WeightsOfTopics DEF Prioritized, Topics
    <2> QED BY <1>4, <1>12, <2>1 DEF Orderable
  <1> QED BY <1>5, <1>6, <1>7, <1>8, <1>9, <1>10, <1>11, <1>12

(* The order that is chosen has every topic in it.                         *)
LEMMA OrderIsChosen ==
    /\ Priorities \in [1 .. Cardinality(Prioritized) -> Prioritized]
    /\ \A i, j \in DOMAIN Priorities : i < j => Weight(Priorities[i]) > Weight(Priorities[j])
    /\ \A subject \in Prioritized : \E i \in 1 .. Cardinality(Prioritized) : Priorities[i] = subject
    /\ Cardinality(Prioritized) \in Nat
  <1> DEFINE n == Cardinality(Prioritized)
             Descends(order) ==
                \A i, j \in DOMAIN order : i < j => Weight(order[i]) > Weight(order[j])
  <1>1. IsFiniteSet(Prioritized) /\ n \in Nat
    <2>1. {"river", "turn", "pre_flop"} = ({"river"} \cup {"turn"}) \cup {"pre_flop"}
      OBVIOUS
    <2>2. IsFiniteSet({"river"} \cup {"turn"})
      BY FS_Singleton, FS_AddElement
    <2>4. IsFiniteSet(Topics)
      BY <2>1, <2>2, FS_AddElement DEF Topics
    <2>3. Prioritized \in SUBSET Topics
      BY DEF Prioritized
    <2> QED BY <2>3, <2>4, FS_Subset, FS_CardinalityType
  <1>2. Priorities = CHOOSE order \in [1 .. n -> Prioritized] : Descends(order)
    BY Zenon DEF Priorities, Prioritized, Topics
  <1>3. \E order \in [1 .. n -> Prioritized] : Descends(order)
    BY TopicsOrdered
  <1> HIDE DEF Descends
  <1>4. Priorities \in [1 .. n -> Prioritized] /\ Descends(Priorities)
    BY <1>2, <1>3, Zenon
  <1>5. \A subject \in Prioritized : Weight(subject) \in Int
    BY WeightsOfTopics DEF Prioritized, Topics
  <1>6. Priorities \in Injection(1 .. n, Prioritized)
    <2>1. ASSUME NEW i \in 1 .. n, NEW j \in 1 .. n, Priorities[i] = Priorities[j] PROVE i = j
      <3>1. DOMAIN Priorities = 1 .. n /\ Weight(Priorities[i]) \in Int
        BY <1>4, <1>5
      <3>2. ~(i < j)
        BY <1>1, <1>4, <2>1, <3>1 DEF Descends
      <3>3. ~(j < i)
        BY <1>1, <1>4, <2>1, <3>1 DEF Descends
      <3> QED BY <1>1, <3>2, <3>3
    <2> QED BY <1>4, <2>1 DEF Injection, IsInjective
  <1>7. IsFiniteSet(1 .. n) /\ Cardinality(1 .. n) = n
    BY <1>1, FS_Interval
  <1>8. Priorities \in Surjection(1 .. n, Prioritized)
    BY <1>1, <1>6, <1>7, FS_Injection
  <1>9. \A subject \in Prioritized : \E i \in 1 .. n : Priorities[i] = subject
    BY <1>8 DEF Surjection
  <1> QED BY <1>1, <1>4, <1>9 DEF Descends

(* The topic a session needs most is first and the turn is last.           *)
LEMMA RiverIsFirst ==
    NegativeOn("river") => Priorities # <<>> /\ Priorities[1] = "river"
  <1> SUFFICES ASSUME NegativeOn("river")
               PROVE  Priorities # <<>> /\ Priorities[1] = "river"
    OBVIOUS
  <1> DEFINE n == Cardinality(Prioritized)
  <1>1. "river" \in Prioritized
    BY WeightsOfTopics DEF Prioritized, Topics
  <1>2. /\ Priorities \in [1 .. n -> Prioritized] /\ n \in Nat
        /\ \A i, j \in DOMAIN Priorities : i < j => Weight(Priorities[i]) > Weight(Priorities[j])
    BY OrderIsChosen
  <1>3. PICK k \in 1 .. n : Priorities[k] = "river"
    BY <1>1, OrderIsChosen
  <1> HIDE DEF n
  <1>4. k = 1
    <2>1. SUFFICES ASSUME 1 < k PROVE FALSE
      BY <1>2, <1>3
    <2>2. 1 \in 1 .. n /\ DOMAIN Priorities = 1 .. n
      BY <1>2, <1>3
    <2>3. Weight(Priorities[1]) > Weight("river") /\ Priorities[1] \in Topics
      BY <1>2, <1>3, <2>1, <2>2 DEF Prioritized
    <2> QED BY <2>3, WeightsOfTopics DEF Topics
  <1>5. Priorities # <<>>
    BY <1>2, <1>3
  <1> QED BY <1>3, <1>4, <1>5

LEMMA TurnIsLast ==
    NegativeOn("turn") => Priorities # <<>> /\ Last(Priorities) = "turn"
  <1> SUFFICES ASSUME NegativeOn("turn")
               PROVE  Priorities # <<>> /\ Last(Priorities) = "turn"
    OBVIOUS
  <1> DEFINE n == Cardinality(Prioritized)
  <1>1. "turn" \in Prioritized
    BY WeightsOfTopics DEF Prioritized, Topics
  <1>2. /\ Priorities \in [1 .. n -> Prioritized] /\ n \in Nat
        /\ \A i, j \in DOMAIN Priorities : i < j => Weight(Priorities[i]) > Weight(Priorities[j])
    BY OrderIsChosen
  <1>3. PICK k \in 1 .. n : Priorities[k] = "turn"
    BY <1>1, OrderIsChosen
  <1> HIDE DEF n
  <1>4. k = n
    <2>1. SUFFICES ASSUME k < n PROVE FALSE
      BY <1>2, <1>3
    <2>2. n \in 1 .. n /\ DOMAIN Priorities = 1 .. n
      BY <1>2, <1>3
    <2>3. Weight("turn") > Weight(Priorities[n]) /\ Priorities[n] \in Prioritized
      BY <1>2, <1>3, <2>1, <2>2
    <2>4. Priorities[n] \in Topics /\ Weight(Priorities[n]) > 0
      BY <2>3 DEF Prioritized
    <2> QED BY <2>3, <2>4, WeightsOfTopics DEF Topics
  <1>5. Len(Priorities) = n
    BY <1>2
  <1>6. Priorities # <<>>
    BY <1>2, <1>3
  <1> QED BY <1>3, <1>4, <1>5, <1>6, Zenon DEF Last

(* A seat that only calls plays loosely and passively.                     *)
LEMMA CallersAreLoose ==
    ASSUME CoachInv, OfSeat(0) # {},
           ActionCount(OfSeat(0), {"call"}) = Cardinality(OfSeat(0))
    PROVE  SummarizeProfile(0) = "loose_passive"
  <1> DEFINE own == OfSeat(0)
             n == Cardinality(own)
  <1>1. own \in SUBSET DOMAIN decisions /\ IsFiniteSet(own)
    <2>1. own \in SUBSET DOMAIN decisions
      BY DEF OfSeat
    <2> QED BY <2>1, Session, FS_Subset
  <1> HIDE DEF own
  <1>2. n \in Nat /\ n # 0
    BY <1>1, FS_CardinalityType, FS_EmptySet DEF own
  <1>3. {i \in own : decisions[i].action \in {"call"}} = own
    <2> DEFINE called == {i \in own : decisions[i].action \in {"call"}}
    <2>1. called \in SUBSET own /\ Cardinality(called) = Cardinality(own)
      BY DEF ActionCount, own
    <2> HIDE DEF called
    <2>2. called = own
      BY <1>1, <2>1, FS_Subset
    <2> QED BY <2>2 DEF called
  <1>4. \A i \in own : decisions[i].action = "call"
    BY <1>3
  <1>5. ActionCount(own, Continues \cup {"bet"}) = n
    <2>1. {i \in own : decisions[i].action \in Continues \cup {"bet"}} = own
      BY <1>4 DEF Continues
    <2> QED BY <2>1 DEF ActionCount
  <1>6. ActionCount(own, {"bet", "raise", "all_in"}) = 0
    <2>1. {i \in own : decisions[i].action \in {"bet", "raise", "all_in"}} = {}
      BY <1>4
    <2> QED BY <2>1, FS_EmptySet DEF ActionCount
  <1>7. AtLeast(1, n) = n
    BY <1>2 DEF AtLeast
  <1> HIDE DEF n
  <1>8. 100 * n >= 55 * n /\ ~(100 * 0 >= 45 * n)
    BY <1>2
  <1>9. SummarizeProfile(0) =
            IF 100 * ActionCount(own, Continues \cup {"bet"}) >= 55 * AtLeast(1, n)
            THEN IF 100 * ActionCount(own, {"bet", "raise", "all_in"}) >= 45 * AtLeast(1, n)
                 THEN "loose_aggressive" ELSE "loose_passive"
            ELSE IF /\ 100 * ActionCount(own, Continues \cup {"bet"}) < 35 * AtLeast(1, n)
                    /\ 100 * ActionCount(own, {"bet", "raise", "all_in"}) >= 20 * AtLeast(1, n)
            THEN "tight_aggressive" ELSE "tight_passive"
    BY Zenon DEF SummarizeProfile, own, n
  <1> QED BY <1>5, <1>6, <1>7, <1>8, <1>9, Zenon

LEMMA CallersAreTaught ==
    ASSUME CoachInv, OfSeat(0) # {},
           ActionCount(OfSeat(0), {"call"}) = Cardinality(OfSeat(0))
    PROVE  "pre_flop" \in ToSet(Priorities)
  <1>1. "pre_flop" \in Prioritized
    BY CallersAreLoose, WeightsOfTopics DEF Prioritized, Topics
  <1>2. PICK i \in 1 .. Cardinality(Prioritized) : Priorities[i] = "pre_flop"
    BY <1>1, OrderIsChosen
  <1>3. DOMAIN Priorities = 1 .. Cardinality(Prioritized)
    BY OrderIsChosen
  <1> QED BY <1>2, <1>3, Zenon DEF ToSet

LEMMA CoachAgrees == CoachInv => CoachingAgrees
  <1> SUFFICES ASSUME CoachInv PROVE CoachingAgrees
    OBVIOUS
  <1>1. LET own == OfSeat(0)
        IN  own # {} /\ ActionCount(own, {"call"}) = Cardinality(own)
                => "pre_flop" \in ToSet(Priorities)
    BY CallersAreTaught, Zenon
  <1> QED BY <1>1, SeatsSummed, ReviewedCounted, JudgedAlike, RiverIsFirst, TurnIsLast, Zenon
       DEF CoachingAgrees

(* Whatever agents estimate and whatever the odds, for any number of       *)
(* streets: the coach, the taxonomy, the profiles and the summary of a     *)
(* session judge its decisions alike, and a curriculum has the topics that *)
(* the session needs, those that weigh most at its head.                   *)
THEOREM CoachesJudgeAlike == PartsSpec => []CoachesAgree
  <1>1. PartsInit => CoachInit
    BY DEF PartsInit
  <1>2. [PartsNext]_partsVars => [CoachNext]_coachVars
    <2>1. PartsNext => CoachNext \/ UNCHANGED coachVars
      BY DEF PartsNext, PlaysHand, PlaysTournament, Ranks, Values, Learns, Trains, Coaches,
             Profiled, Bends, Notices, Solves, Believes, partsVars, judgingVars, watchingVars
    <2>2. UNCHANGED partsVars => UNCHANGED coachVars
      BY DEF partsVars, watchingVars
    <2> QED BY <2>1, <2>2
  <1>3. CoachInv => CoachesAgree
    BY CoachAgrees DEF CoachesAgree
  <1> QED BY <1>1, <1>2, <1>3, CoachBegins, CoachGoesOn, PTL DEF PartsSpec


-----------------------------------------------------------------------------
(* Profiles of an opponent.                                                *)

SeatActions == {"fold", "check", "call", "bet", "raise"}
StreetSequences ==
    [aggressor : BOOLEAN, acts : [ToSet(HandStreets) -> SeatActions \cup {"none"}],
     facing : [ToSet(HandStreets) -> BOOLEAN]]
PositionCounts ==
    [hands : Nat, vpip : Int, pfr : Int, three_bet : Int, three_bet_opps : Int, cbet : Int,
     cbet_opps : Int, fold_to_cbet : Int, fold_to_cbet_opps : Int,
     aggressive : Int, passive : Int, folds : Int]
SeatCounts ==
    [total_hands : Int, vpip : Int, pfr : Int, aggressive : Int, passive : Int, folds : Int,
     postflop : Int, street_aggression : Int, showdowns : Int, won_at_showdown : Int]
SharedFields == {"vpip", "pfr", "aggressive", "passive", "folds"}

(* What an action adds to the counts that both trackers keep.              *)
Adds(did) ==
    [aggressive |-> IF did.action \in Aggressive THEN 1 ELSE 0,
     passive |-> IF did.action \in Passive THEN 1 ELSE 0,
     folds |-> IF did.action = "fold" THEN 1 ELSE 0,
     vpip |-> IF did.street = "preflop" /\ did.action \in Aggressive \cup {"call"} THEN 1 ELSE 0,
     pfr |-> IF did.street = "preflop" /\ did.action \in Aggressive THEN 1 ELSE 0]

(* No frequency of a position over its opportunities is above one.         *)
RatesBounded(counts) ==
    /\ counts.three_bet <= counts.three_bet_opps /\ counts.three_bet <= counts.pfr
    /\ counts.cbet <= counts.cbet_opps /\ counts.fold_to_cbet <= counts.fold_to_cbet_opps
    /\ counts.pfr <= counts.vpip /\ counts.cbet + counts.pfr <= counts.aggressive

(* The counts of one kind by position.                                     *)
Kept(board, field) == [p \in Positions |-> board[p][field]]

ProfInv ==
    /\ position \in Positions \cup {"none"} /\ line \in Seq(Observed)
    /\ position = "none" => line = <<>>
    /\ current \in StreetSequences /\ history \in Seq(StreetSequences)
    /\ byPosition \in [Positions -> PositionCounts] /\ stats \in SeatCounts
    /\ HandTold
    /\ \A field \in SharedFields : \A g :
           Sums(g, Kept(byPosition, field), Positions) => g[Positions] = stats[field]
    /\ \A g : Sums(g, Kept(byPosition, "hands"), Positions)
                 => g[Positions] = stats.total_hands + (IF position = "none" THEN 0 ELSE 1)
    /\ \A p \in Positions : RatesBounded(byPosition[p])
    /\ stats.won_at_showdown <= stats.showdowns /\ stats.showdowns <= stats.total_hands
    /\ stats.street_aggression <= stats.postflop

LEMMA StreetsNamed == ToSet(HandStreets) = {"preflop", "flop", "turn", "river"}
  <1>1. DOMAIN HandStreets = 1 .. 4
    BY DEF HandStreets
  <1>2. /\ HandStreets[1] = "preflop" /\ HandStreets[2] = "flop" /\ HandStreets[3] = "turn"
        /\ HandStreets[4] = "river"
    BY DEF HandStreets
  <1>3. 1 .. 4 = {1, 2, 3, 4}
    OBVIOUS
  <1> QED BY <1>1, <1>2, <1>3 DEF ToSet

LEMMA SumOfField ==
    ASSUME NEW field
    PROVE  \E g : /\ Sums(g, Kept(byPosition, field), Positions)
                  /\ SumOverPositions(field) = g[Positions]
  <1> DEFINE Iter(g) == g = [s \in SUBSET Positions |->
                                IF s = {} THEN 0
                                ELSE LET x == CHOOSE x \in s : TRUE
                                     IN  byPosition[x][field] + g[s \ {x}]]
             f == Kept(byPosition, field)
  <1>1. SumOverPositions(field) = (CHOOSE g : Iter(g))[Positions]
    BY Zenon DEF SumOverPositions, MapThenSumSet, MapThenFoldSet
  <1>2. ASSUME NEW g PROVE Iter(g) <=> Sums(g, f, Positions)
    <2>1. \A x \in Positions : f[x] = byPosition[x][field]
      BY DEF Kept
    <2> HIDE DEF f
    <2>2. [s \in SUBSET Positions |-> IF s = {} THEN 0
                                      ELSE LET x == CHOOSE x \in s : TRUE
                                           IN  byPosition[x][field] + g[s \ {x}]]
          = [s \in SUBSET Positions |-> IF s = {} THEN 0
                                        ELSE LET x == CHOOSE x \in s : TRUE IN f[x] + g[s \ {x}]]
      BY <2>1
    <2> QED BY <2>2, Zenon DEF Sums
  <1> HIDE DEF Iter, f
  <1>3. PICK g : Sums(g, f, Positions)
    BY SumsExist, ProfilesAssumption
  <1>4. Iter(CHOOSE h : Iter(h))
    BY <1>2, <1>3, Zenon
  <1> QED BY <1>1, <1>2, <1>4 DEF f

(* One position changes: the sum changes by as much.                       *)
LEMMA FieldChanges ==
    ASSUME NEW board \in [Positions -> PositionCounts], NEW p \in Positions,
           NEW counts \in PositionCounts, NEW field \in SharedFields \cup {"hands"},
           NEW g, NEW h, Sums(g, Kept(board, field), Positions),
           Sums(h, Kept([board EXCEPT ![p] = counts], field), Positions)
    PROVE  h[Positions] = g[Positions] + (counts[field] - board[p][field]) /\ g[Positions] \in Int
  <1>1. \A c \in PositionCounts : c[field] \in Int
    BY DEF PositionCounts, SharedFields
  <1> DEFINE new == [board EXCEPT ![p] = counts]
  <1>2. /\ new[p] = counts /\ \A q \in Positions \ {p} : new[q] = board[q]
        /\ \A q \in Positions : board[q] \in PositionCounts /\ new[q] \in PositionCounts
    OBVIOUS
  <1> HIDE DEF new
  <1>3. Kept(board, field) \in [Positions -> Int] /\ Kept(new, field) \in [Positions -> Int]
    BY <1>1, <1>2 DEF Kept
  <1>4. \A x \in Positions \ {p} : Kept(new, field)[x] = Kept(board, field)[x]
    BY <1>2 DEF Kept
  <1>5. Kept(new, field)[p] = counts[field] /\ Kept(board, field)[p] = board[p][field]
    BY <1>2 DEF Kept
  <1>6. IsFiniteSet(Positions) /\ Sums(h, Kept(new, field), Positions)
    BY ProfilesAssumption DEF new
  <1>7. /\ h[Positions] = g[Positions] + (Kept(new, field)[p] - Kept(board, field)[p])
        /\ g[Positions] \in Int
    BY <1>3, <1>4, <1>6, SumChanges
  <1> QED BY <1>5, <1>7


CountFields ==
    {"vpip", "pfr", "three_bet", "three_bet_opps", "cbet", "cbet_opps", "fold_to_cbet",
     "fold_to_cbet_opps", "aggressive", "passive", "folds"}

(* One count of a position grows.                                          *)
LEMMA CountGrows ==
    ASSUME NEW counts \in PositionCounts, NEW field \in CountFields, NEW n \in Int,
           NEW new, new = [counts EXCEPT ![field] = counts[field] + n]
    PROVE  /\ new \in PositionCounts /\ new[field] = counts[field] + n
           /\ \A other \in (CountFields \cup {"hands"}) \ {field} : new[other] = counts[other]
  <1>1. counts[field] \in Int
    BY DEF PositionCounts, CountFields
  <1>2. DOMAIN counts = CountFields \cup {"hands"}
    BY DEF PositionCounts, CountFields
  <1>3. /\ new[field] = counts[field] + n
        /\ \A other \in (CountFields \cup {"hands"}) \ {field} : new[other] = counts[other]
    BY <1>2
  <1>4. new \in PositionCounts
    BY <1>1 DEF PositionCounts, CountFields
  <1> QED BY <1>3, <1>4

(* What an action adds to the profile of its position.                     *)
LEMMA ActCounted ==
    ASSUME NEW counts \in PositionCounts, NEW did \in Observed, NEW new,
           new = RecordInPosition(counts, did)
    PROVE  /\ new \in PositionCounts /\ new.hands = counts.hands
           /\ \A field \in SharedFields : new[field] = counts[field] + Adds(did)[field]
           /\ RatesBounded(counts) => RatesBounded(new)
  <1> DEFINE a == IF did.action \in Aggressive THEN 1 ELSE 0
             b == IF did.action \in Passive THEN 1 ELSE 0
             c == IF did.action = "fold" THEN 1 ELSE 0
             d == IF did.street = "preflop" /\ did.action \in Aggressive \cup {"call"}
                  THEN 1 ELSE 0
             e == IF did.street = "preflop" /\ did.action \in Aggressive THEN 1 ELSE 0
             f == IF ThreeBetOpp(did) THEN 1 ELSE 0
             g == IF ThreeBetOpp(did) /\ did.action \in {"raise", "all_in"} THEN 1 ELSE 0
             h == IF CbetOpp(did) THEN 1 ELSE 0
             i == IF CbetOpp(did) /\ did.action \in Aggressive THEN 1 ELSE 0
             j == IF FacingCbet(did) THEN 1 ELSE 0
             k == IF FacingCbet(did) /\ did.action = "fold" THEN 1 ELSE 0
  <1>1. /\ Adds(did).aggressive = a /\ Adds(did).passive = b /\ Adds(did).folds = c
        /\ Adds(did).vpip = d /\ Adds(did).pfr = e
    BY DEF Adds
  <1>2. /\ a \in Int /\ b \in Int /\ c \in Int /\ d \in Int /\ e \in Int /\ f \in Int
        /\ g \in Int /\ h \in Int /\ i \in Int /\ j \in Int /\ k \in Int
    OBVIOUS
  <1>3. g <= f /\ i <= h /\ k <= j /\ e <= d /\ g <= e /\ i + e <= a
    BY DEF ThreeBetOpp, CbetOpp, Aggressive
  <1> DEFINE c1 == [counts EXCEPT !.aggressive = @ + a]
             c2 == [c1 EXCEPT !.passive = @ + b]
             c3 == [c2 EXCEPT !.folds = @ + c]
             c4 == [c3 EXCEPT !.vpip = @ + d]
             c5 == [c4 EXCEPT !.pfr = @ + e]
             c6 == [c5 EXCEPT !.three_bet_opps = @ + f]
             c7 == [c6 EXCEPT !.three_bet = @ + g]
             c8 == [c7 EXCEPT !.cbet_opps = @ + h]
             c9 == [c8 EXCEPT !.cbet = @ + i]
             c10 == [c9 EXCEPT !.fold_to_cbet_opps = @ + j]
             c11 == [c10 EXCEPT !.fold_to_cbet = @ + k]
  <1>4. new = c11
    <2>1. CountKinds(counts, did) = c5
      BY DEF CountKinds, One
    <2> HIDE DEF c5
    <2>2. RecordInPosition(counts, did) = c11
      BY <2>1 DEF RecordInPosition, One
    <2> QED BY <2>2
  <1> HIDE DEF a, b, c, d, e, f, g, h, i, j, k
  <1>5. /\ c1 \in PositionCounts /\ c1["aggressive"] = counts["aggressive"] + a
        /\ \A other \in (CountFields \cup {"hands"}) \ {"aggressive"} : c1[other] = counts[other]
    BY <1>2, CountGrows DEF CountFields
  <1> HIDE DEF c1
  <1>6. /\ c2 \in PositionCounts /\ c2["passive"] = c1["passive"] + b
        /\ \A other \in (CountFields \cup {"hands"}) \ {"passive"} : c2[other] = c1[other]
    BY <1>2, <1>5, CountGrows DEF CountFields
  <1> HIDE DEF c2
  <1>7. /\ c3 \in PositionCounts /\ c3["folds"] = c2["folds"] + c
        /\ \A other \in (CountFields \cup {"hands"}) \ {"folds"} : c3[other] = c2[other]
    BY <1>2, <1>6, CountGrows DEF CountFields
  <1> HIDE DEF c3
  <1>8. /\ c4 \in PositionCounts /\ c4["vpip"] = c3["vpip"] + d
        /\ \A other \in (CountFields \cup {"hands"}) \ {"vpip"} : c4[other] = c3[other]
    BY <1>2, <1>7, CountGrows DEF CountFields
  <1> HIDE DEF c4
  <1>9. /\ c5 \in PositionCounts /\ c5["pfr"] = c4["pfr"] + e
        /\ \A other \in (CountFields \cup {"hands"}) \ {"pfr"} : c5[other] = c4[other]
    BY <1>2, <1>8, CountGrows DEF CountFields
  <1> HIDE DEF c5
  <1>10. /\ c6 \in PositionCounts /\ c6["three_bet_opps"] = c5["three_bet_opps"] + f
        /\ \A other \in (CountFields \cup {"hands"}) \ {"three_bet_opps"} : c6[other] = c5[other]
    BY <1>2, <1>9, CountGrows DEF CountFields
  <1> HIDE DEF c6
  <1>11. /\ c7 \in PositionCounts /\ c7["three_bet"] = c6["three_bet"] + g
        /\ \A other \in (CountFields \cup {"hands"}) \ {"three_bet"} : c7[other] = c6[other]
    BY <1>2, <1>10, CountGrows DEF CountFields
  <1> HIDE DEF c7
  <1>12. /\ c8 \in PositionCounts /\ c8["cbet_opps"] = c7["cbet_opps"] + h
        /\ \A other \in (CountFields \cup {"hands"}) \ {"cbet_opps"} : c8[other] = c7[other]
    BY <1>2, <1>11, CountGrows DEF CountFields
  <1> HIDE DEF c8
  <1>13. /\ c9 \in PositionCounts /\ c9["cbet"] = c8["cbet"] + i
        /\ \A other \in (CountFields \cup {"hands"}) \ {"cbet"} : c9[other] = c8[other]
    BY <1>2, <1>12, CountGrows DEF CountFields
  <1> HIDE DEF c9
  <1>14. /\ c10 \in PositionCounts /\ c10["fold_to_cbet_opps"] = c9["fold_to_cbet_opps"] + j
        /\ \A other \in (CountFields \cup {"hands"}) \ {"fold_to_cbet_opps"} : c10[other] = c9[other]
    BY <1>2, <1>13, CountGrows DEF CountFields
  <1> HIDE DEF c10
  <1>15. /\ c11 \in PositionCounts /\ c11["fold_to_cbet"] = c10["fold_to_cbet"] + k
        /\ \A other \in (CountFields \cup {"hands"}) \ {"fold_to_cbet"} : c11[other] = c10[other]
    BY <1>2, <1>14, CountGrows DEF CountFields
  <1> HIDE DEF c11
  <1>16. /\ new.aggressive = counts.aggressive + a /\ new.passive = counts.passive + b
         /\ new.folds = counts.folds + c /\ new.vpip = counts.vpip + d
         /\ new.pfr = counts.pfr + e /\ new.hands = counts.hands
         /\ new.three_bet_opps = counts.three_bet_opps + f
         /\ new.three_bet = counts.three_bet + g
         /\ new.cbet_opps = counts.cbet_opps + h /\ new.cbet = counts.cbet + i
         /\ new.fold_to_cbet_opps = counts.fold_to_cbet_opps + j
         /\ new.fold_to_cbet = counts.fold_to_cbet + k
    BY <1>4, <1>5, <1>6, <1>7, <1>8, <1>9,
       <1>10, <1>11, <1>12, <1>13, <1>14, <1>15 DEF CountFields
  <1>17. RatesBounded(counts) => RatesBounded(new)
    <2>1. /\ counts.three_bet \in Int /\ counts.three_bet_opps \in Int /\ counts.pfr \in Int
          /\ counts.cbet \in Int /\ counts.cbet_opps \in Int /\ counts.vpip \in Int
          /\ counts.fold_to_cbet \in Int /\ counts.fold_to_cbet_opps \in Int
          /\ counts.aggressive \in Int
      BY DEF PositionCounts
    <2> QED BY <1>2, <1>3, <1>16, <2>1 DEF RatesBounded
  <1> QED BY <1>1, <1>4, <1>15, <1>16, <1>17 DEF SharedFields


SeatFields ==
    {"total_hands", "vpip", "pfr", "aggressive", "passive", "folds", "postflop",
     "street_aggression", "showdowns", "won_at_showdown"}

(* One count of the statistics grows.                                      *)
LEMMA StatGrows ==
    ASSUME NEW counts \in SeatCounts, NEW field \in SeatFields, NEW n \in Int,
           NEW new, new = [counts EXCEPT ![field] = counts[field] + n]
    PROVE  /\ new \in SeatCounts /\ new[field] = counts[field] + n
           /\ \A other \in SeatFields \ {field} : new[other] = counts[other]
  <1>1. counts[field] \in Int
    BY DEF SeatCounts, SeatFields
  <1>2. DOMAIN counts = SeatFields
    BY DEF SeatCounts, SeatFields
  <1>3. /\ new[field] = counts[field] + n
        /\ \A other \in SeatFields \ {field} : new[other] = counts[other]
    BY <1>2
  <1>4. new \in SeatCounts
    BY <1>1 DEF SeatCounts, SeatFields
  <1> QED BY <1>3, <1>4

(* What an action adds to the statistics of its seat.                      *)
LEMMA ActInStats ==
    ASSUME NEW counts \in SeatCounts, NEW did \in Observed, NEW new,
           new = RecordForSeat(counts, did)
    PROVE  /\ new \in SeatCounts
           /\ \A field \in SharedFields : new[field] = counts[field] + Adds(did)[field]
           /\ new.total_hands = counts.total_hands /\ new.showdowns = counts.showdowns
           /\ new.won_at_showdown = counts.won_at_showdown
           /\ counts.street_aggression <= counts.postflop
                 => new.street_aggression <= new.postflop
  <1> DEFINE a == IF did.action \in Aggressive THEN 1 ELSE 0
             b == IF did.action \in Passive THEN 1 ELSE 0
             c == IF did.action = "fold" THEN 1 ELSE 0
             d == IF did.street = "preflop" /\ did.action \in Aggressive \cup {"call"}
                  THEN 1 ELSE 0
             e == IF did.street = "preflop" /\ did.action \in Aggressive THEN 1 ELSE 0
             f == IF did.street # "preflop" THEN 1 ELSE 0
             g == IF did.street # "preflop" /\ did.action \in {"bet", "raise"} THEN 1 ELSE 0
  <1>1. /\ Adds(did).aggressive = a /\ Adds(did).passive = b /\ Adds(did).folds = c
        /\ Adds(did).vpip = d /\ Adds(did).pfr = e
    BY DEF Adds
  <1>2. /\ a \in Int /\ b \in Int /\ c \in Int /\ d \in Int /\ e \in Int /\ f \in Int
        /\ g \in Int /\ g <= f
    OBVIOUS
  <1> DEFINE c1 == [counts EXCEPT !.aggressive = @ + a]
             c2 == [c1 EXCEPT !.passive = @ + b]
             c3 == [c2 EXCEPT !.folds = @ + c]
             c4 == [c3 EXCEPT !.vpip = @ + d]
             c5 == [c4 EXCEPT !.pfr = @ + e]
             c6 == [c5 EXCEPT !.postflop = @ + f]
             c7 == [c6 EXCEPT !.street_aggression = @ + g]
  <1>3. new = c7
    <2>1. CountKinds(counts, did) = c5
      BY DEF CountKinds, One
    <2> HIDE DEF c5
    <2>2. RecordForSeat(counts, did) = c7
      BY <2>1 DEF RecordForSeat, One
    <2> QED BY <2>2
  <1> HIDE DEF a, b, c, d, e, f, g
  <1>4. /\ c1 \in SeatCounts /\ c1["aggressive"] = counts["aggressive"] + a
        /\ \A other \in SeatFields \ {"aggressive"} : c1[other] = counts[other]
    BY <1>2, StatGrows DEF SeatFields
  <1> HIDE DEF c1
  <1>5. /\ c2 \in SeatCounts /\ c2["passive"] = c1["passive"] + b
        /\ \A other \in SeatFields \ {"passive"} : c2[other] = c1[other]
    BY <1>2, <1>4, StatGrows DEF SeatFields
  <1> HIDE DEF c2
  <1>6. /\ c3 \in SeatCounts /\ c3["folds"] = c2["folds"] + c
        /\ \A other \in SeatFields \ {"folds"} : c3[other] = c2[other]
    BY <1>2, <1>5, StatGrows DEF SeatFields
  <1> HIDE DEF c3
  <1>7. /\ c4 \in SeatCounts /\ c4["vpip"] = c3["vpip"] + d
        /\ \A other \in SeatFields \ {"vpip"} : c4[other] = c3[other]
    BY <1>2, <1>6, StatGrows DEF SeatFields
  <1> HIDE DEF c4
  <1>8. /\ c5 \in SeatCounts /\ c5["pfr"] = c4["pfr"] + e
        /\ \A other \in SeatFields \ {"pfr"} : c5[other] = c4[other]
    BY <1>2, <1>7, StatGrows DEF SeatFields
  <1> HIDE DEF c5
  <1>9. /\ c6 \in SeatCounts /\ c6["postflop"] = c5["postflop"] + f
        /\ \A other \in SeatFields \ {"postflop"} : c6[other] = c5[other]
    BY <1>2, <1>8, StatGrows DEF SeatFields
  <1> HIDE DEF c6
  <1>10. /\ c7 \in SeatCounts /\ c7["street_aggression"] = c6["street_aggression"] + g
        /\ \A other \in SeatFields \ {"street_aggression"} : c7[other] = c6[other]
    BY <1>2, <1>9, StatGrows DEF SeatFields
  <1> HIDE DEF c7
  <1>11. /\ new.aggressive = counts.aggressive + a /\ new.passive = counts.passive + b
         /\ new.folds = counts.folds + c /\ new.vpip = counts.vpip + d
         /\ new.pfr = counts.pfr + e /\ new.postflop = counts.postflop + f
         /\ new.street_aggression = counts.street_aggression + g
         /\ new.total_hands = counts.total_hands /\ new.showdowns = counts.showdowns
         /\ new.won_at_showdown = counts.won_at_showdown
    BY <1>3, <1>4, <1>5, <1>6, <1>7, <1>8, <1>9, <1>10 DEF SeatFields
  <1>12. counts.postflop \in Int /\ counts.street_aggression \in Int
    BY DEF SeatCounts
  <1> QED BY <1>1, <1>2, <1>3, <1>10, <1>11, <1>12 DEF SharedFields

(* What the end of a hand adds.                                            *)
WithHandEnd(counts, a, b) ==
    [counts EXCEPT !.total_hands = @ + 1, !.showdowns = @ + a, !.won_at_showdown = @ + b]

LEMMA EndCounted ==
    ASSUME NEW counts \in SeatCounts, NEW a \in {0, 1}, NEW b \in {0, 1}, b <= a, NEW new,
           new = WithHandEnd(counts, a, b)
    PROVE  /\ new \in SeatCounts /\ new.total_hands = counts.total_hands + 1
           /\ \A field \in SharedFields \cup {"postflop", "street_aggression"} :
                 new[field] = counts[field]
           /\ /\ counts.won_at_showdown <= counts.showdowns
              /\ counts.showdowns <= counts.total_hands
              => new.won_at_showdown <= new.showdowns /\ new.showdowns <= new.total_hands
  <1> DEFINE c1 == [counts EXCEPT !.total_hands = @ + 1]
             c2 == [c1 EXCEPT !.showdowns = @ + a]
             c3 == [c2 EXCEPT !.won_at_showdown = @ + b]
  <1>1. a \in Int /\ b \in Int /\ b <= a /\ a <= 1 /\ 1 \in Int
    OBVIOUS
  <1>2. new = c3
    BY DEF WithHandEnd
  <1>3. /\ c1 \in SeatCounts /\ c1["total_hands"] = counts["total_hands"] + 1
        /\ \A other \in SeatFields \ {"total_hands"} : c1[other] = counts[other]
    BY <1>1, StatGrows DEF SeatFields
  <1> HIDE DEF c1
  <1>4. /\ c2 \in SeatCounts /\ c2["showdowns"] = c1["showdowns"] + a
        /\ \A other \in SeatFields \ {"showdowns"} : c2[other] = c1[other]
    BY <1>1, <1>3, StatGrows DEF SeatFields
  <1> HIDE DEF c2
  <1>5. /\ c3 \in SeatCounts /\ c3["won_at_showdown"] = c2["won_at_showdown"] + b
        /\ \A other \in SeatFields \ {"won_at_showdown"} : c3[other] = c2[other]
    BY <1>1, <1>4, StatGrows DEF SeatFields
  <1> HIDE DEF c3
  <1>6. /\ new.total_hands = counts.total_hands + 1 /\ new.showdowns = counts.showdowns + a
        /\ new.won_at_showdown = counts.won_at_showdown + b
    BY <1>2, <1>3, <1>4, <1>5 DEF SeatFields
  <1>7. \A field \in SharedFields \cup {"postflop", "street_aggression"} :
            new[field] = counts[field]
    BY <1>2, <1>3, <1>4, <1>5 DEF SeatFields, SharedFields
  <1>8. /\ counts.total_hands \in Int /\ counts.showdowns \in Int
        /\ counts.won_at_showdown \in Int
    BY DEF SeatCounts
  <1> QED BY <1>1, <1>2, <1>5, <1>6, <1>7, <1>8


(* A hand and the actions that made it tell the same after one more.       *)
LEMMA ActTold ==
    ASSUME line \in Seq(Observed), current \in StreetSequences, HandTold,
           NEW did \in Observed, line' = Append(line, did), RecordStreetAction(did)
    PROVE  HandTold' /\ current' \in StreetSequences
  <1> DEFINE here == did.street
             act == MostSignificant(current.acts[here], did.action)
             face == current.facing[here] \/ (did.facing /\ did.street # "preflop")
             acts == [current.acts EXCEPT ![here] = act]
             facing == [current.facing EXCEPT ![here] = face]
  <1>1. /\ here \in ToSet(HandStreets) /\ did.action \in SeatActions /\ "none" \notin SeatActions
        /\ did.street = here
    BY DEF Observed, SeatActions
  <1>2. /\ current.acts \in [ToSet(HandStreets) -> SeatActions \cup {"none"}]
        /\ current.facing \in [ToSet(HandStreets) -> BOOLEAN] /\ current.aggressor \in BOOLEAN
    BY DEF StreetSequences
  <1>3. act \in SeatActions
    BY <1>1, <1>2 DEF MostSignificant
  <1>4. face \in BOOLEAN
    OBVIOUS
  <1>5. current' = [aggressor |-> current.aggressor, acts |-> acts, facing |-> facing]
    <2> DEFINE c1 == [current EXCEPT !.acts[here] = act]
               c2 == [c1 EXCEPT !.facing[here] = face]
    <2>1. c1 = [aggressor |-> current.aggressor, acts |-> acts, facing |-> current.facing]
      <3>1. current = [aggressor |-> current.aggressor, acts |-> current.acts,
                       facing |-> current.facing]
        BY DEF StreetSequences
      <3> HIDE DEF act, face
      <3> QED BY <3>1
    <2>2. current' = c2
      BY <2>1 DEF RecordStreetAction
    <2> HIDE DEF c1, act, acts, face
    <2> QED BY <2>1, <2>2
  <1> HIDE DEF face
  <1>6. facing \in [ToSet(HandStreets) -> BOOLEAN]
    BY <1>2, <1>4
  <1>7. /\ acts \in [ToSet(HandStreets) -> SeatActions \cup {"none"}] /\ acts[here] = act
        /\ \A street \in ToSet(HandStreets) \ {here} : acts[street] = current.acts[street]
    BY <1>1, <1>2, <1>3
  <1> HIDE DEF acts, facing
  <1>8. current' \in StreetSequences /\ current'.acts = acts
    BY <1>2, <1>5, <1>6, <1>7 DEF StreetSequences
  <1> DEFINE n == Len(line)
  <1>9. /\ DOMAIN line' = DOMAIN line \cup {n + 1} /\ n + 1 \notin DOMAIN line
        /\ line'[n + 1] = did /\ \A i \in DOMAIN line : line'[i] = line[i]
    OBVIOUS
  <1> HIDE DEF n
  <1>10. ASSUME NEW street \in ToSet(HandStreets)
         PROVE  LET own == {i \in DOMAIN line' : line'[i].street = street}
                IN  /\ acts[street] = "none" <=> own = {}
                    /\ acts[street] \in Aggressive
                           <=> \E i \in own : line'[i].action \in Aggressive
    <2> DEFINE old == {i \in DOMAIN line : line[i].street = street}
               own == {i \in DOMAIN line' : line'[i].street = street}
               before == current.acts[street]
    <2>1. /\ before = "none" <=> old = {}
          /\ before \in Aggressive <=> \E i \in old : line[i].action \in Aggressive
      BY DEF HandTold
    <2>2. CASE street # here
      <3>1. own = old /\ \A i \in old : line'[i] = line[i]
        BY <1>1, <1>9, <2>2
      <3> QED BY <1>7, <2>1, <2>2, <3>1
    <2>3. CASE street = here
      <3>1. own = old \cup {n + 1} /\ \A i \in old : line'[i] = line[i]
        BY <1>1, <1>9, <2>3
      <3>2. acts[street] = MostSignificant(before, did.action) /\ acts[street] # "none"
        BY <1>1, <1>3, <1>7, <2>3
      <3> HIDE DEF old, own, before
      <3>3. acts[street] \in Aggressive <=> before \in Aggressive \/ did.action \in Aggressive
        BY <3>2 DEF MostSignificant, Aggressive
      <3>4. (\E i \in own : line'[i].action \in Aggressive)
               <=> (\E i \in old : line[i].action \in Aggressive) \/ did.action \in Aggressive
        BY <1>9, <3>1
      <3>5. own # {}
        BY <3>1
      <3> QED BY <2>1, <3>2, <3>3, <3>4, <3>5 DEF own
    <2> QED BY <2>2, <2>3
  <1> QED BY <1>8, <1>10 DEF HandTold

LEMMA HandBegins ==
    ASSUME NEW c, c \in {[NoHand EXCEPT !.aggressor = b] : b \in BOOLEAN} \cup {NoHand}
    PROVE  /\ c \in StreetSequences
           /\ \A street \in ToSet(HandStreets) : c.acts[street] = "none"
  <1> DEFINE acts == [s \in ToSet(HandStreets) |-> "none"]
             facing == [s \in ToSet(HandStreets) |-> FALSE]
  <1>1. /\ acts \in [ToSet(HandStreets) -> SeatActions \cup {"none"}]
        /\ facing \in [ToSet(HandStreets) -> BOOLEAN]
        /\ \A street \in ToSet(HandStreets) : acts[street] = "none"
    OBVIOUS
  <1>2. NoHand = [aggressor |-> FALSE, acts |-> acts, facing |-> facing]
    BY DEF NoHand
  <1> HIDE DEF acts, facing
  <1>3. \E b \in BOOLEAN : c = [aggressor |-> b, acts |-> acts, facing |-> facing]
    BY <1>2
  <1> QED BY <1>1, <1>3 DEF StreetSequences

LEMMA NothingTold ==
    ASSUME line = <<>>, \A street \in ToSet(HandStreets) : current.acts[street] = "none"
    PROVE  HandTold
  <1>1. \A street : {i \in DOMAIN line : line[i].street = street} = {}
    OBVIOUS
  <1>2. "none" \notin Aggressive
    BY DEF Aggressive
  <1> QED BY <1>1, <1>2 DEF HandTold


(* A seat that has played no more hands than another.                      *)
LEMMA SeatIsChosen ==
    ASSUME byPosition \in [Positions -> PositionCounts]
    PROVE  \E p \in Positions : \A q \in Positions : byPosition[p].hands <= byPosition[q].hands
  <1> DEFINE Hands(p) == byPosition[p].hands
             N == {n \in Nat : (\E p \in Positions : Hands(p) <= n)
                                  => \E p \in Positions : \A q \in Positions : Hands(p) <= Hands(q)}
  <1>1. \A p \in Positions : Hands(p) \in Nat
    BY DEF PositionCounts
  <1> HIDE DEF Hands
  <1>2. 0 \in N
    <2> SUFFICES ASSUME NEW p \in Positions, Hands(p) <= 0
                 PROVE  \A q \in Positions : Hands(p) <= Hands(q)
      OBVIOUS
    <2> QED BY <1>1
  <1>3. ASSUME NEW n \in N PROVE n + 1 \in N
    <2>1. n \in Nat /\ n + 1 \in Nat
      OBVIOUS
    <2>2. ASSUME NEW p \in Positions, Hands(p) <= n + 1, ~\E q \in Positions : Hands(q) <= n
          PROVE  \A q \in Positions : Hands(p) <= Hands(q)
      BY <1>1, <2>1, <2>2
    <2> QED BY <2>1, <2>2
  <1> HIDE DEF N
  <1>4. N = Nat
    BY <1>2, <1>3, ByNumber DEF N
  <1>5. PICK p \in Positions : Hands(p) \in N
    BY <1>1, <1>4, ProfilesAssumption
  <1>6. \E q \in Positions : \A r \in Positions : Hands(q) <= Hands(r)
    BY <1>1, <1>5 DEF N
  <1> QED BY <1>6 DEF Hands

(* A hand more at a position.                                              *)
LEMMA HandCounted ==
    ASSUME NEW counts \in PositionCounts, NEW new, new = [counts EXCEPT !.hands = @ + 1]
    PROVE  /\ new \in PositionCounts /\ new.hands = counts.hands + 1
           /\ \A field \in CountFields : new[field] = counts[field]
           /\ RatesBounded(counts) => RatesBounded(new)
  <1>1. DOMAIN counts = CountFields \cup {"hands"}
    BY DEF PositionCounts, CountFields
  <1>2. \A field \in CountFields : new[field] = counts[field]
    BY <1>1 DEF CountFields
  <1>3. new \in PositionCounts /\ new.hands = counts.hands + 1
    BY DEF PositionCounts
  <1>4. RatesBounded(counts) => RatesBounded(new)
    BY <1>2 DEF CountFields, RatesBounded
  <1> QED BY <1>2, <1>3, <1>4

LEMMA ProfBegins == ProfilesInit => ProfInv
  <1> SUFFICES ASSUME ProfilesInit PROVE ProfInv
    OBVIOUS
  <1>1. /\ line = <<>> /\ position = "none" /\ current = NoHand /\ history = <<>>
        /\ byPosition = [p \in Positions |-> NoCounts] /\ stats = NoStats
    BY DEF ProfilesInit
  <1>2. /\ NoCounts \in PositionCounts /\ RatesBounded(NoCounts)
        /\ \A field \in SharedFields \cup {"hands"} : NoCounts[field] = 0
    BY DEF NoCounts, PositionCounts, RatesBounded, SharedFields
  <1>3. /\ NoStats \in SeatCounts /\ \A field \in SharedFields : NoStats[field] = 0
        /\ NoStats.total_hands = 0 /\ NoStats.won_at_showdown <= NoStats.showdowns
        /\ NoStats.showdowns <= NoStats.total_hands
        /\ NoStats.street_aggression <= NoStats.postflop
    BY DEF NoStats, SeatCounts, SharedFields
  <1>4. HandTold /\ current \in StreetSequences
    BY <1>1, HandBegins, NothingTold
  <1>5. ASSUME NEW field \in SharedFields \cup {"hands"}, NEW g,
               Sums(g, Kept(byPosition, field), Positions)
        PROVE  g[Positions] = 0
    <2>1. \A p \in Positions : Kept(byPosition, field)[p] = 0
      BY <1>1, <1>2 DEF Kept
    <2> QED BY <1>5, <2>1, SumOfZeros, ProfilesAssumption
  <1>6. byPosition \in [Positions -> PositionCounts] /\ \A p \in Positions : RatesBounded(byPosition[p])
    BY <1>1, <1>2
  <1>7. line \in Seq(Observed) /\ history \in Seq(StreetSequences)
    BY <1>1
  <1>8. \A field \in SharedFields : \A g :
           Sums(g, Kept(byPosition, field), Positions) => g[Positions] = stats[field]
    BY <1>1, <1>3, <1>5
  <1>9. \A g : Sums(g, Kept(byPosition, "hands"), Positions)
                 => g[Positions] = stats.total_hands + (IF position = "none" THEN 0 ELSE 1)
    BY <1>1, <1>3, <1>5
  <1> QED BY <1>1, <1>3, <1>4, <1>6, <1>7, <1>8, <1>9 DEF ProfInv

LEMMA ProfStarts == ProfInv /\ StartHand => ProfInv'
  <1> SUFFICES ASSUME ProfInv, StartHand PROVE ProfInv'
    OBVIOUS
  <1>1. /\ position = "none" /\ byPosition \in [Positions -> PositionCounts]
        /\ byPosition' = [byPosition EXCEPT ![position'].hands = @ + 1]
        /\ line' = <<>> /\ history' = history /\ stats' = stats /\ stats \in SeatCounts
    BY DEF StartHand, ProfInv
  <1>2. PICK p \in Positions : p = position'
    <2>1. position' = CHOOSE p \in Positions :
                          \A q \in Positions : byPosition[p].hands <= byPosition[q].hands
      BY DEF StartHand
    <2> QED BY <1>1, <2>1, SeatIsChosen, Zenon
  <1>3. p # "none"
    BY ProfilesAssumption
  <1>4. PICK counts : counts = [byPosition[p] EXCEPT !.hands = @ + 1]
    OBVIOUS
  <1>5. byPosition[p] \in PositionCounts /\ RatesBounded(byPosition[p])
    BY <1>1 DEF ProfInv
  <1>6. /\ counts \in PositionCounts /\ counts.hands = byPosition[p].hands + 1
        /\ \A field \in CountFields : counts[field] = byPosition[p][field]
        /\ RatesBounded(counts)
    BY <1>4, <1>5, HandCounted
  <1>7. byPosition' = [byPosition EXCEPT ![p] = counts]
    BY <1>1, <1>2, <1>4
  <1>8. /\ byPosition' \in [Positions -> PositionCounts]
        /\ \A q \in Positions : RatesBounded(byPosition'[q])
    BY <1>1, <1>6, <1>7 DEF ProfInv
  <1>9. current' \in StreetSequences /\ HandTold'
    <2>1. PICK b \in BOOLEAN : current' = [NoHand EXCEPT !.aggressor = b]
      BY DEF StartHand
    <2>2. /\ current' \in StreetSequences
          /\ \A street \in ToSet(HandStreets) : current'.acts[street] = "none"
      BY <2>1, HandBegins
    <2>3. line' = <<>> /\ \A street \in ToSet(HandStreets) : current'.acts[street] = "none"
      BY <1>1, <2>2
    <2>4. \A street : {i \in DOMAIN line' : line'[i].street = street} = {}
      BY <1>1
    <2>5. "none" \notin Aggressive
      BY DEF Aggressive
    <2>6. HandTold'
      BY <2>3, <2>4, <2>5 DEF HandTold
    <2> QED BY <2>2, <2>6
  <1>10. ASSUME NEW field \in SharedFields \cup {"hands"}, NEW h,
                Sums(h, Kept(byPosition', field), Positions)
         PROVE  \E g : /\ Sums(g, Kept(byPosition, field), Positions) /\ g[Positions] \in Int
                       /\ h[Positions] = g[Positions] + (counts[field] - byPosition[p][field])
    <2>1. PICK g : Sums(g, Kept(byPosition, field), Positions)
      BY SumsExist, ProfilesAssumption
    <2>2. Sums(h, Kept([byPosition EXCEPT ![p] = counts], field), Positions)
      BY <1>7, <1>10, Zenon
    <2>3. /\ h[Positions] = g[Positions] + (counts[field] - byPosition[p][field])
          /\ g[Positions] \in Int
      BY <1>1, <1>6, <2>1, <2>2, FieldChanges
    <2> QED BY <2>1, <2>3
  <1>11. ASSUME NEW field \in SharedFields, NEW h, Sums(h, Kept(byPosition', field), Positions)
         PROVE  h[Positions] = stats[field]
    <2>1. PICK g : /\ Sums(g, Kept(byPosition, field), Positions) /\ g[Positions] \in Int
                   /\ h[Positions] = g[Positions] + (counts[field] - byPosition[p][field])
      BY <1>10, <1>11
    <2>2. counts[field] = byPosition[p][field] /\ byPosition[p][field] \in Int
      BY <1>5, <1>6 DEF CountFields, SharedFields, PositionCounts
    <2>3. g[Positions] = stats[field]
      BY <2>1 DEF ProfInv
    <2> QED BY <2>1, <2>2, <2>3
  <1>12. ASSUME NEW h, Sums(h, Kept(byPosition', "hands"), Positions)
         PROVE  h[Positions] = stats.total_hands + 1
    <2>1. PICK g : /\ Sums(g, Kept(byPosition, "hands"), Positions) /\ g[Positions] \in Int
                   /\ h[Positions] = g[Positions] + (counts.hands - byPosition[p].hands)
      BY <1>10, <1>12
    <2>2. counts.hands = byPosition[p].hands + 1 /\ byPosition[p].hands \in Int
      BY <1>5, <1>6 DEF PositionCounts
    <2>3. g[Positions] = stats.total_hands + 0
      BY <1>1, <2>1 DEF ProfInv
    <2>4. stats.total_hands \in Int
      BY <1>1 DEF SeatCounts
    <2> QED BY <2>1, <2>2, <2>3, <2>4
  <1>13. line' \in Seq(Observed) /\ history' \in Seq(StreetSequences) /\ position' \in Positions
    BY <1>1, <1>2 DEF ProfInv
  <1>14. /\ stats.won_at_showdown <= stats.showdowns /\ stats.showdowns <= stats.total_hands
         /\ stats.street_aggression <= stats.postflop
    BY DEF ProfInv
  <1>15. \A field \in SharedFields : \A g :
            Sums(g, Kept(byPosition', field), Positions) => g[Positions] = stats'[field]
    BY <1>1, <1>11
  <1>16. \A g : Sums(g, Kept(byPosition', "hands"), Positions)
                  => g[Positions] = stats'.total_hands + (IF position' = "none" THEN 0 ELSE 1)
    BY <1>1, <1>2, <1>3, <1>12
  <1> QED BY <1>1, <1>2, <1>3, <1>8, <1>9, <1>13, <1>14, <1>15, <1>16 DEF ProfInv, Kept


LEMMA ProfActs == ProfInv /\ Act => ProfInv'
  <1> SUFFICES ASSUME ProfInv, Act PROVE ProfInv'
    OBVIOUS
  <1>1. PICK did \in Observed :
            /\ line' = Append(line, did) /\ RecordStreetAction(did)
            /\ byPosition' = [byPosition EXCEPT ![position] = RecordInPosition(@, did)]
            /\ stats' = RecordForSeat(stats, did)
    BY Zenon DEF Act
  <1>2. /\ position' = position /\ history' = history /\ position # "none"
        /\ byPosition \in [Positions -> PositionCounts] /\ stats \in SeatCounts
        /\ line \in Seq(Observed)
    BY DEF Act, ProfInv
  <1>3. PICK p \in Positions : p = position
    BY <1>2 DEF ProfInv
  <1>4. PICK counts : counts = RecordInPosition(byPosition[p], did)
    OBVIOUS
  <1>5. byPosition[p] \in PositionCounts /\ RatesBounded(byPosition[p])
    BY <1>2 DEF ProfInv
  <1>6. /\ counts \in PositionCounts /\ counts.hands = byPosition[p].hands /\ RatesBounded(counts)
        /\ \A field \in SharedFields : counts[field] = byPosition[p][field] + Adds(did)[field]
    BY <1>4, <1>5, ActCounted
  <1>7. byPosition' = [byPosition EXCEPT ![p] = counts]
    BY <1>1, <1>3, <1>4
  <1>8. /\ byPosition' \in [Positions -> PositionCounts]
        /\ \A q \in Positions : RatesBounded(byPosition'[q])
    BY <1>2, <1>6, <1>7 DEF ProfInv
  <1>9. /\ stats' \in SeatCounts /\ stats'.total_hands = stats.total_hands
        /\ \A field \in SharedFields : stats'[field] = stats[field] + Adds(did)[field]
        /\ stats'.won_at_showdown <= stats'.showdowns /\ stats'.showdowns <= stats'.total_hands
        /\ stats'.street_aggression <= stats'.postflop
    <2>1. /\ stats.won_at_showdown <= stats.showdowns /\ stats.showdowns <= stats.total_hands
          /\ stats.street_aggression <= stats.postflop
      BY DEF ProfInv
    <2> QED BY <1>1, <1>2, <2>1, ActInStats
  <1>10. current' \in StreetSequences /\ HandTold'
    BY <1>1, ActTold DEF ProfInv
  <1>11. ASSUME NEW field \in SharedFields \cup {"hands"}, NEW h,
                Sums(h, Kept(byPosition', field), Positions)
         PROVE  \E g : /\ Sums(g, Kept(byPosition, field), Positions) /\ g[Positions] \in Int
                       /\ h[Positions] = g[Positions] + (counts[field] - byPosition[p][field])
    <2>1. PICK g : Sums(g, Kept(byPosition, field), Positions)
      BY SumsExist, ProfilesAssumption
    <2>2. Sums(h, Kept([byPosition EXCEPT ![p] = counts], field), Positions)
      BY <1>7, <1>11, Zenon
    <2>3. /\ h[Positions] = g[Positions] + (counts[field] - byPosition[p][field])
          /\ g[Positions] \in Int
      BY <1>2, <1>6, <2>1, <2>2, FieldChanges
    <2> QED BY <2>1, <2>3
  <1>12. ASSUME NEW field \in SharedFields, NEW h, Sums(h, Kept(byPosition', field), Positions)
         PROVE  h[Positions] = stats'[field]
    <2>1. PICK g : /\ Sums(g, Kept(byPosition, field), Positions) /\ g[Positions] \in Int
                   /\ h[Positions] = g[Positions] + (counts[field] - byPosition[p][field])
      BY <1>11, <1>12
    <2>2. byPosition[p][field] \in Int
      BY <1>5 DEF SharedFields, PositionCounts
    <2>3. PICK d \in Int : d = Adds(did)[field]
      BY DEF Adds, SharedFields
    <2>4. g[Positions] = stats[field] /\ stats'[field] = stats[field] + d
      BY <1>9, <2>1, <2>3 DEF ProfInv
    <2>5. counts[field] = byPosition[p][field] + d
      BY <1>6, <2>3
    <2> QED BY <2>1, <2>2, <2>4, <2>5
  <1>13. ASSUME NEW h, Sums(h, Kept(byPosition', "hands"), Positions)
         PROVE  h[Positions] = stats.total_hands + 1
    <2>1. PICK g : /\ Sums(g, Kept(byPosition, "hands"), Positions) /\ g[Positions] \in Int
                   /\ h[Positions] = g[Positions] + (counts.hands - byPosition[p].hands)
      BY <1>11, <1>13
    <2>2. counts.hands = byPosition[p].hands /\ byPosition[p].hands \in Int
      BY <1>5, <1>6 DEF PositionCounts
    <2>3. g[Positions] = stats.total_hands + 1
      BY <1>2, <2>1 DEF ProfInv
    <2> QED BY <2>1, <2>2, <2>3
  <1>14. line' \in Seq(Observed) /\ history' \in Seq(StreetSequences) /\ position' \in Positions
    BY <1>1, <1>2, <1>3 DEF ProfInv
  <1>15. \A field \in SharedFields : \A g :
            Sums(g, Kept(byPosition', field), Positions) => g[Positions] = stats'[field]
    BY <1>12
  <1>16. \A g : Sums(g, Kept(byPosition', "hands"), Positions)
                  => g[Positions] = stats'.total_hands + (IF position' = "none" THEN 0 ELSE 1)
    BY <1>2, <1>9, <1>13
  <1> QED BY <1>2, <1>8, <1>9, <1>10, <1>14, <1>15, <1>16 DEF ProfInv, Kept

LEMMA ProfEnds == ProfInv /\ EndHand => ProfInv'
  <1> SUFFICES ASSUME ProfInv, EndHand PROVE ProfInv'
    OBVIOUS
  <1>1. /\ line' = <<>> /\ position' = "none" /\ current' = NoHand /\ position # "none"
        /\ history' = Push(history, current, WindowSize) /\ byPosition' = byPosition
        /\ stats \in SeatCounts
    BY DEF EndHand, ProfInv
  <1>2. /\ stats' \in SeatCounts /\ stats'.total_hands = stats.total_hands + 1
        /\ \A field \in SharedFields : stats'[field] = stats[field]
        /\ stats'.won_at_showdown <= stats'.showdowns /\ stats'.showdowns <= stats'.total_hands
        /\ stats'.street_aggression <= stats'.postflop
    <2>1. PICK showdown \in BOOLEAN : \E won \in BOOLEAN :
              stats' = [stats EXCEPT !.total_hands = @ + 1, !.showdowns = @ + One(showdown),
                                     !.won_at_showdown = @ + One(showdown /\ won)]
      BY Zenon DEF EndHand
    <2>2. PICK won \in BOOLEAN :
              stats' = [stats EXCEPT !.total_hands = @ + 1, !.showdowns = @ + One(showdown),
                                     !.won_at_showdown = @ + One(showdown /\ won)]
      BY <2>1, Zenon
    <2> DEFINE a == IF showdown THEN 1 ELSE 0
               b == IF showdown /\ won THEN 1 ELSE 0
    <2>3. stats' = WithHandEnd(stats, a, b)
      BY <2>2 DEF One, WithHandEnd
    <2>4. a \in {0, 1} /\ b \in {0, 1} /\ b <= a
      OBVIOUS
    <2> HIDE DEF a, b
    <2>5. /\ stats.won_at_showdown <= stats.showdowns /\ stats.showdowns <= stats.total_hands
          /\ stats.street_aggression <= stats.postflop
      BY DEF ProfInv
    <2>6. /\ stats' \in SeatCounts /\ stats'.total_hands = stats.total_hands + 1
          /\ \A field \in SharedFields \cup {"postflop", "street_aggression"} :
                stats'[field] = stats[field]
          /\ /\ stats.won_at_showdown <= stats.showdowns
             /\ stats.showdowns <= stats.total_hands
             => stats'.won_at_showdown <= stats'.showdowns /\ stats'.showdowns <= stats'.total_hands
      BY <1>1, <2>3, <2>4, EndCounted
    <2> QED BY <2>5, <2>6
  <1>3. current' \in StreetSequences /\ HandTold'
    <2>1. /\ current' \in StreetSequences
          /\ \A street \in ToSet(HandStreets) : current'.acts[street] = "none"
      BY <1>1, HandBegins
    <2>2. \A street : {i \in DOMAIN line' : line'[i].street = street} = {}
      BY <1>1
    <2>3. "none" \notin Aggressive
      BY DEF Aggressive
    <2>4. HandTold'
      BY <2>1, <2>2, <2>3 DEF HandTold
    <2> QED BY <2>1, <2>4
  <1>4. history' \in Seq(StreetSequences)
    <2>1. history \in Seq(StreetSequences) /\ current \in StreetSequences /\ WindowSize \in Nat \ {0}
      BY ProfilesAssumption DEF ProfInv
    <2>2. CASE Len(history) < WindowSize
      BY <1>1, <2>1, <2>2 DEF Push
    <2>3. CASE ~(Len(history) < WindowSize)
      <3>1. history # <<>> /\ history' = Append(Tail(history), current)
        BY <1>1, <2>1, <2>3 DEF Push
      <3>2. Tail(history) \in Seq(StreetSequences)
        BY <2>1, <3>1
      <3> QED BY <2>1, <3>1, <3>2
    <2> QED BY <2>2, <2>3
  <1>5. \A field \in SharedFields : \A g :
           Sums(g, Kept(byPosition', field), Positions) => g[Positions] = stats'[field]
    BY <1>1, <1>2 DEF ProfInv
  <1>6. stats.total_hands \in Int
    BY <1>1 DEF SeatCounts
  <1>7. ASSUME NEW g, Sums(g, Kept(byPosition', "hands"), Positions)
        PROVE  g[Positions] = stats'.total_hands + 0
    <2>1. g[Positions] = stats.total_hands + 1
      BY <1>1, <1>7 DEF ProfInv
    <2> QED BY <1>2, <1>6, <2>1
  <1>8. \A g : Sums(g, Kept(byPosition', "hands"), Positions)
                  => g[Positions] = stats'.total_hands + (IF position' = "none" THEN 0 ELSE 1)
    BY <1>1, <1>7
  <1>9. /\ byPosition' \in [Positions -> PositionCounts]
        /\ \A p \in Positions : RatesBounded(byPosition'[p])
    BY <1>1 DEF ProfInv
  <1>10. line' \in Seq(Observed)
    BY <1>1
  <1> QED BY <1>1, <1>2, <1>3, <1>4, <1>5, <1>8, <1>9, <1>10 DEF ProfInv, Kept

LEMMA ProfGoesOn == ProfInv /\ [ProfilesNext]_profileVars => ProfInv'
  <1> SUFFICES ASSUME ProfInv, UNCHANGED profileVars PROVE ProfInv'
    BY ProfStarts, ProfActs, ProfEnds DEF ProfilesNext
  <1>1. /\ line' = line /\ position' = position /\ current' = current /\ history' = history
        /\ byPosition' = byPosition /\ stats' = stats
    BY DEF profileVars
  <1> QED BY <1>1 DEF ProfInv, HandTold, Kept


(* A set of places within another is no larger.                            *)
LEMMA PlacesWithin ==
    ASSUME NEW D, IsFiniteSet(D), NEW A \in SUBSET D, NEW B \in SUBSET D
    PROVE  /\ Cardinality(A) \in Nat
           /\ A \subseteq B => Cardinality(A) <= Cardinality(B)
           /\ A \cap B = {} => Cardinality(A \cup B) = Cardinality(A) + Cardinality(B)
  <1>1. IsFiniteSet(A) /\ IsFiniteSet(B)
    BY FS_Subset
  <1>2. A \cap B = {} => Cardinality(A \cap B) = 0
    BY FS_EmptySet
  <1>3. /\ Cardinality(A) \in Nat /\ Cardinality(B) \in Nat
        /\ Cardinality(A \cup B) = Cardinality(A) + Cardinality(B) - Cardinality(A \cap B)
    BY <1>1, FS_CardinalityType, FS_Union
  <1>4. A \subseteq B => Cardinality(A) <= Cardinality(B)
    BY <1>1, FS_Subset
  <1> QED BY <1>2, <1>3, <1>4

LEMMA PatternsCounted == ProfInv => PatternsNested
  <1> SUFFICES ASSUME ProfInv PROVE PatternsNested
    OBVIOUS
  <1> DEFINE D == DOMAIN history
             Does(i, street, actions) == history[i].acts[street] \in actions
             flop == {i \in D : Does(i, "flop", Aggressive)}
             double == {i \in D : Does(i, "flop", Aggressive) /\ Does(i, "turn", Aggressive)}
             triple == {i \in D : /\ Does(i, "flop", Aggressive) /\ Does(i, "turn", Aggressive)
                                  /\ Does(i, "river", Aggressive)}
             gives == {i \in D : /\ Does(i, "flop", Aggressive)
                                 /\ \/ Does(i, "turn", {"check"})
                                    \/ /\ Does(i, "turn", Aggressive)
                                       /\ Does(i, "river", {"check"})}
             called == {i \in D : Does(i, "flop", {"call"})}
             floats == {i \in D : /\ Does(i, "flop", {"call"}) /\ Does(i, "turn", Aggressive)
                                  /\ ~history[i].facing["turn"]}
             checked == {i \in D : history[i].aggressor /\ Does(i, "flop", {"check"})}
             delayed == {i \in D : /\ history[i].aggressor /\ Does(i, "flop", {"check"})
                                   /\ Does(i, "turn", Aggressive)}
             river == {i \in D : Does(i, "turn", Aggressive) /\ Does(i, "river", Aggressive)}
  <1>1. /\ Signature.samples = Len(history) /\ Signature.agg_flop = Cardinality(flop)
        /\ Signature.double = Cardinality(double) /\ Signature.triple = Cardinality(triple)
        /\ Signature.give_up = Cardinality(gives) /\ Signature.called_flop = Cardinality(called)
        /\ Signature.floats = Cardinality(floats) /\ Signature.checked_flop = Cardinality(checked)
        /\ Signature.delayed = Cardinality(delayed)
    BY DEF Signature, HowMany, Shows
  <1>2. /\ PredictContinuation("turn") = [continued |-> Cardinality(double),
                                          of |-> Cardinality(flop)]
        /\ PredictContinuation("river").continued = Cardinality(river)
    BY DEF PredictContinuation, HowMany, Shows
  <1>3. history \in Seq(StreetSequences)
    BY DEF ProfInv
  <1>4. IsFiniteSet(D) /\ Cardinality(D) = Len(history)
    <2>1. D = 1 .. Len(history) /\ Len(history) \in Nat
      BY <1>3
    <2> HIDE DEF D
    <2>2. \A n \in Nat : IsFiniteSet(1 .. n) /\ Cardinality(1 .. n) = n
      BY FS_Interval
    <2> QED BY <2>1, <2>2
  <1>5. /\ triple \in SUBSET double /\ double \in SUBSET flop /\ gives \in SUBSET flop
        /\ floats \in SUBSET called /\ delayed \in SUBSET checked /\ triple \in SUBSET river
        /\ flop \in SUBSET D /\ called \in SUBSET D /\ checked \in SUBSET D /\ river \in SUBSET D
    OBVIOUS
  <1>6. gives \cap triple = {} /\ gives \cup triple \in SUBSET flop
    BY DEF Aggressive
  <1>7. flop \cap called = {} /\ (flop \cup called) \cap checked = {}
    BY DEF Aggressive
  <1> HIDE DEF D, flop, double, triple, gives, called, floats, checked, delayed, river
  <1>8. /\ double \in SUBSET D /\ triple \in SUBSET D /\ gives \in SUBSET D /\ floats \in SUBSET D
        /\ delayed \in SUBSET D /\ gives \cup triple \in SUBSET D /\ flop \cup called \in SUBSET D
        /\ (flop \cup called) \cup checked \in SUBSET D /\ D \in SUBSET D
    BY <1>5
  <1>9. \A A, B : A \in SUBSET D /\ B \in SUBSET D /\ A \in SUBSET B
                      => Cardinality(A) <= Cardinality(B)
    BY <1>4, PlacesWithin
  <1>10. \A A, B : A \in SUBSET D /\ B \in SUBSET D /\ A \cap B = {}
                      => Cardinality(A \cup B) = Cardinality(A) + Cardinality(B)
    BY <1>4, PlacesWithin
  <1>11. /\ Cardinality(triple) <= Cardinality(double) /\ Cardinality(double) <= Cardinality(flop)
         /\ Cardinality(floats) <= Cardinality(called)
         /\ Cardinality(delayed) <= Cardinality(checked)
         /\ Cardinality(triple) <= Cardinality(river)
    BY <1>5, <1>8, <1>9
  <1>12. Cardinality(gives) + Cardinality(triple) <= Cardinality(flop)
    <2>1. Cardinality(gives \cup triple) = Cardinality(gives) + Cardinality(triple)
      BY <1>6, <1>8, <1>10
    <2>2. Cardinality(gives \cup triple) <= Cardinality(flop)
      BY <1>5, <1>6, <1>8, <1>9
    <2> QED BY <2>1, <2>2
  <1>13. Cardinality(flop) + Cardinality(called) + Cardinality(checked) <= Cardinality(D)
    <2>1. Cardinality(flop \cup called) = Cardinality(flop) + Cardinality(called)
      BY <1>5, <1>7, <1>10
    <2>2. Cardinality((flop \cup called) \cup checked)
             = Cardinality(flop \cup called) + Cardinality(checked)
      BY <1>5, <1>7, <1>8, <1>10
    <2>3. Cardinality((flop \cup called) \cup checked) <= Cardinality(D)
      BY <1>8, <1>9
    <2> QED BY <2>1, <2>2, <2>3
  <1> QED BY <1>1, <1>2, <1>4, <1>11, <1>12, <1>13 DEF PatternsNested

LEMMA ProfAgrees == ProfInv => ProfilesAgree
  <1> SUFFICES ASSUME ProfInv PROVE ProfilesAgree
    OBVIOUS
  <1>1. HandTold /\ PatternsNested
    BY PatternsCounted DEF ProfInv
  <1>2. ASSUME NEW field \in {"vpip", "pfr", "aggressive", "passive", "folds"}
        PROVE  SumOverPositions(field) = stats[field]
    <2>1. PICK g : /\ Sums(g, Kept(byPosition, field), Positions)
                   /\ SumOverPositions(field) = g[Positions]
      BY SumOfField
    <2> QED BY <1>2, <2>1 DEF ProfInv, SharedFields
  <1>3. SumOverPositions("hands") = stats.total_hands + (IF position = "none" THEN 0 ELSE 1)
    <2>1. PICK g : /\ Sums(g, Kept(byPosition, "hands"), Positions)
                   /\ SumOverPositions("hands") = g[Positions]
      BY SumOfField
    <2> QED BY <2>1 DEF ProfInv
  <1>4. SumOverPositions("hands") = stats.total_hands + One(position # "none")
    BY <1>3 DEF One
  <1>5. \A p \in Positions : RatesBounded(byPosition[p])
    BY DEF ProfInv
  <1>6. /\ stats.won_at_showdown <= stats.showdowns /\ stats.showdowns <= stats.total_hands
        /\ stats.street_aggression <= stats.postflop
    BY DEF ProfInv
  <1> QED BY <1>1, <1>2, <1>4, <1>5, <1>6, Zenon DEF ProfilesAgree, RatesBounded

(* For any positions and any number of hands and actions: the positions of *)
(* an opponent add up to the statistics of its seat, no frequency over its opportunities is above one, *)
(* the patterns of the window are nested as barrels are, and a hand and    *)
(* the actions it was made of tell the same.                               *)
THEOREM ProfilesCountAlike == PartsSpec => []ProfilesHold
  <1>1. PartsInit => ProfilesInit
    BY DEF PartsInit
  <1>2. [PartsNext]_partsVars => [ProfilesNext]_profileVars
    <2>1. PartsNext => ProfilesNext \/ UNCHANGED profileVars
      BY DEF PartsNext, PlaysHand, PlaysTournament, Ranks, Values, Learns, Trains, Coaches,
             Profiled, Bends, Notices, Solves, Believes, partsVars, judgingVars, watchingVars
    <2>2. UNCHANGED partsVars => UNCHANGED profileVars
      BY DEF partsVars, watchingVars
    <2> QED BY <2>1, <2>2
  <1>3. ProfInv => ProfilesHold
    BY ProfAgrees DEF ProfilesHold
  <1> QED BY <1>1, <1>2, <1>3, ProfBegins, ProfGoesOn, PTL DEF PartsSpec
=============================================================================
