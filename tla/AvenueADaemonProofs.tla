------------------------- MODULE AvenueADaemonProofs -------------------------
(* What holds of AvenueADaemon for any number of daemons, trips and kills, any *)
(* lot and any streak an autonomous cycle needs.                               *)
EXTENDS AvenueADaemon, TLAPS

(* A trip under way is its daemon's alone and not yet ended. *)
Own ==
    /\ \A d \in Daemons : OnTrip(d) => /\ trip[d] \in 1 .. started
                                       /\ outcome[trip[d]] = "open"
    /\ \A d, e \in Daemons : OnTrip(d) /\ OnTrip(e) /\ trip[d] = trip[e] => d = e

(* What a trip holds and may still fill is no more than its order; a daemon *)
(* sells no more than its trip holds.                                       *)
Stock ==
    /\ \A t \in Trips : held[t] + due[t] <= Full
    /\ \A t \in Trips : t > started => /\ held[t] = 0 /\ due[t] = 0
                                       /\ outcome[t] = "open" /\ t \notin sold
    /\ \A d \in Daemons : place[d] = "sizing" => seen[d] <= held[trip[d]]

(* A sell seen filled for the whole lot leaves nothing; no success without one. *)
Flat ==
    /\ \A t \in sold \ short : held[t] = 0 /\ due[t] = 0
    /\ \A t \in Trips : outcome[t] \in {"success", "proven"} => t \in sold

Proven(t) == t \in sold /\ outcome[t] = "proven"

(* Whatever says a trip is proven, on file or in a daemon, names a proven trip. *)
Earned ==
    /\ proof.says = "proven" => Proven(proof.trip)
    /\ \A d \in Daemons : /\ place[d] = "reported" /\ report[d] = "proven" => Proven(trip[d])
                          /\ place[d] = "mapping" => Proven(found[d])
    /\ loop # NoTrip => Proven(loop)
    /\ stamp /\ ~torn => loop # NoTrip

(* Nothing ever holds an autonomous success. *)
Barred ==
    /\ state.auto = 0
    /\ \A d \in Daemons : loaded[d].auto = 0 /\ mode[d] = "supervised"

After(d) == IF report[d] = "failed" THEN 0 ELSE state.all + 1

(* Counted one at a time: the streak on file is right, or lacks the one report *)
(* not yet counted, and a daemon that alone is about to save read it so.       *)
Tally ==
    ~miscount =>
        /\ (\A d \in Daemons : ~Counting(d)) => state.all = run
        /\ \A d \in Daemons : Counting(d) => run = After(d)
        /\ \A d, e \in Daemons : Counting(d) /\ Counting(e) => d = e
        /\ \A d \in Daemons : Saving(d) /\ (\A e \in Daemons \ {d} : ~Saving(e))
                              => loaded[d].all = state.all

DaemonInv == TypeOK /\ Own /\ Stock /\ Flat /\ Earned /\ Barred /\ Tally

(* What is known of the trip a daemon is on, and of the next trip. *)
LEMMA TripOf ==
    ASSUME TypeOK, Own, Stock, NEW d \in Daemons, OnTrip(d)
    PROVE  /\ trip[d] \in Trips /\ trip[d] # NoTrip /\ trip[d] <= started
           /\ outcome[trip[d]] = "open"
           /\ held[trip[d]] \in 0 .. Full /\ due[trip[d]] \in 0 .. Full
           /\ held[trip[d]] + due[trip[d]] <= Full
           /\ \A e \in Daemons \ {d} : OnTrip(e) => trip[e] # trip[d]
           /\ \A t \in Trips : t > started => t # trip[d]
<1>1. trip[d] \in Trips /\ trip[d] # NoTrip /\ trip[d] <= started /\ outcome[trip[d]] = "open"
  BY DaemonAssumption DEF DaemonAssumption, TypeOK, Own, Trips, NoTrip
<1>2. \A e \in Daemons \ {d} : OnTrip(e) => trip[e] # trip[d]
  BY DEF Own
<1>3. \A t \in Trips : t > started => t # trip[d]
  BY <1>1, DaemonAssumption DEF DaemonAssumption, TypeOK
<1> QED
  BY <1>1, <1>2, <1>3 DEF TypeOK, Stock

LEMMA NextTrip ==
    ASSUME TypeOK, Own, Stock, started < MaxTrips
    PROVE  /\ started + 1 \in Trips /\ started + 1 # NoTrip
           /\ held[started + 1] = 0 /\ due[started + 1] = 0
           /\ outcome[started + 1] = "open" /\ started + 1 \notin sold
           /\ \A d \in Daemons : OnTrip(d) => trip[d] # started + 1
<1>1. started + 1 \in Trips /\ started + 1 > started /\ started + 1 # NoTrip
  BY DaemonAssumption DEF DaemonAssumption, TypeOK, Trips, NoTrip
<1>2. \A d \in Daemons : OnTrip(d) => trip[d] # started + 1
  BY TripOf, <1>1 DEF TypeOK
<1> QED
  BY <1>1, <1>2 DEF Stock

(* The end of a trip, and a sale, as plain assignments. *)
LEMMA EndOf ==
    ASSUME TypeOK, Own, Stock, NEW d \in Daemons, OnTrip(d), NEW says, Ends(d, trip[d], says)
    PROVE  /\ place' = [place EXCEPT ![d] = "reported"]
           /\ report' = [report EXCEPT ![d] = says]
           /\ outcome' = [outcome EXCEPT ![trip[d]] = says]
BY TripOf DEF Ends, Goes, NoTrip

LEMMA Recorded ==
    ASSUME TypeOK, Own, Stock, NEW d \in Daemons, Records(d)
    PROVE  \E says \in Reports :
               /\ says # "failed" => trip[d] \in sold
               /\ proof' = [says |-> says, trip |-> trip[d]]
               /\ place' = [place EXCEPT ![d] = "reported"]
               /\ report' = [report EXCEPT ![d] = says]
               /\ outcome' = [outcome EXCEPT ![trip[d]] = says]
<1>1. OnTrip(d)
  BY DEF Records, OnTrip
<1>2. PICK says \in Reports : /\ says # "failed" => trip[d] \in sold
                              /\ Ends(d, trip[d], says)
                              /\ proof' = [says |-> says, trip |-> trip[d]]
  BY DEF Records
<1> QED
  BY <1>1, <1>2, EndOf

LEMMA Sale ==
    ASSUME TypeOK, Own, Stock, NEW d \in Daemons, SellToFlat(d)
    PROVE  /\ OnTrip(d) /\ trip[d] \in Trips
           /\ \E q \in 0 .. held[trip[d]] :
                  /\ held' = [held EXCEPT ![trip[d]] = held[trip[d]] - q]
                  /\ \/ sold' = sold /\ short' = short
                     \/ /\ sold' = sold \cup {trip[d]}
                        /\ short' = IF q < held[trip[d]] + due[trip[d]]
                                    THEN short \cup {trip[d]} ELSE short
<1>1. OnTrip(d) /\ place[d] = "sizing"
  BY DEF SellToFlat, OnTrip
<1>2. trip[d] \in Trips /\ held[trip[d]] \in Nat /\ seen[d] \in Nat /\ seen[d] <= held[trip[d]]
  BY <1>1, TripOf DEF TypeOK, Stock
<1>3. PICK q \in 0 .. seen[d], saw \in BOOLEAN :
          /\ held' = [held EXCEPT ![trip[d]] = held[trip[d]] - q]
          /\ sold' = IF saw THEN sold \cup {trip[d]} ELSE sold
          /\ short' = IF saw /\ q < held[trip[d]] + due[trip[d]]
                      THEN short \cup {trip[d]} ELSE short
  BY DEF SellToFlat
<1>4. q \in 0 .. held[trip[d]]
  BY <1>2, <1>3
<1> QED
  BY <1>1, <1>2, <1>3, <1>4

LEMMA ConstantsAre ==
    /\ 0 \in 0 .. MaxTrips /\ 0 \in 0 .. Full /\ NoTrip \in 0 .. MaxTrips
    /\ NoStreak \in Streaks /\ Unread \in [says : Reports, trip : 0 .. MaxTrips]
BY DaemonAssumption DEF DaemonAssumption, NoTrip, NoStreak, Streaks, Unread, Reports

(* Type correctness. *)
LEMMA TypeStep ==
    ASSUME TypeOK, Own, Stock, Next
    PROVE  TypeOK'
<1> USE DaemonAssumption, ConstantsAre DEF DaemonAssumption
<1>1. ASSUME NEW d \in Daemons, CyclePassesGates(d) PROVE TypeOK'
  <2>1. place' \in [Daemons -> Places]
    BY <1>1 DEF CyclePassesGates, Goes, TypeOK, Places
  <2>2. mode' \in [Daemons -> Modes]
    BY <1>1 DEF CyclePassesGates, Goes, TypeOK
  <2> QED
    BY <1>1, <2>1, <2>2 DEF CyclePassesGates, TypeOK, files, venue, history
<1>2. ASSUME NEW d \in Daemons, SkipLoads(d) PROVE TypeOK'
  <2>1. place' \in [Daemons -> Places]
    BY <1>2 DEF SkipLoads, Goes, LoadsState, TypeOK, Places
  <2>2. loaded' \in [Daemons -> Streaks]
    BY <1>2 DEF SkipLoads, Goes, LoadsState, TypeOK
  <2> QED
    BY <1>2, <2>1, <2>2 DEF SkipLoads, TypeOK, files, venue, history
<1>3. ASSUME NEW d \in Daemons, SkipSaves(d) PROVE TypeOK'
  <2>1. place' \in [Daemons -> Places]
    BY <1>3 DEF SkipSaves, Goes, Over, SavesState, TypeOK, Places
  <2>2. trip' \in [Daemons -> 0 .. MaxTrips]
    BY <1>3 DEF SkipSaves, Goes, Over, SavesState, TypeOK
  <2>3. seen' \in [Daemons -> 0 .. Full]
    BY <1>3 DEF SkipSaves, Goes, Over, SavesState, TypeOK
  <2>4. report' \in [Daemons -> Reports]
    BY <1>3 DEF SkipSaves, Goes, Over, SavesState, TypeOK, Reports
  <2>5. loaded' \in [Daemons -> Streaks]
    BY <1>3 DEF SkipSaves, Goes, Over, SavesState, TypeOK
  <2>6. found' \in [Daemons -> 0 .. MaxTrips]
    BY <1>3 DEF SkipSaves, Goes, Over, SavesState, TypeOK
  <2>7. state' \in Streaks
    BY <1>3 DEF SkipSaves, Goes, Over, SavesState, TypeOK
  <2>8. miscount' \in BOOLEAN
    BY <1>3 DEF SkipSaves, Goes, Over, SavesState, TypeOK
  <2> QED
    BY <1>3, <2>1, <2>2, <2>3, <2>4, <2>5, <2>6, <2>7, <2>8 DEF SkipSaves, Over,
       TypeOK, venue
<1>4. ASSUME NEW d \in Daemons, BuyRefused(d) PROVE TypeOK'
  <2>1. place' \in [Daemons -> Places]
    BY <1>4 DEF BuyRefused, Goes, Ends, TypeOK, Places
  <2>2. report' \in [Daemons -> Reports]
    BY <1>4 DEF BuyRefused, Goes, Ends, TypeOK, Reports
  <2>3. outcome' \in [Trips -> Reports \cup {"open", "lost"}]
    BY <1>4 DEF BuyRefused, Goes, Ends, TypeOK
  <2>4. run' \in Nat
    BY <1>4 DEF BuyRefused, Goes, Ends, TypeOK
  <2>5. miscount' \in BOOLEAN
    BY <1>4 DEF BuyRefused, Goes, Ends, TypeOK
  <2>6. proof' \in [says : Reports, trip : 0 .. MaxTrips]
    BY <1>4 DEF BuyRefused, Goes, Ends, TypeOK
  <2> QED
    BY <1>4, <2>1, <2>2, <2>3, <2>4, <2>5, <2>6 DEF BuyRefused, TypeOK, venue
<1>5. ASSUME NEW d \in Daemons, BuyAccepted(d) PROVE TypeOK'
  <2>1. place' \in [Daemons -> Places]
    BY <1>5 DEF BuyAccepted, Goes, BuyReachesVenue, TypeOK, Places
  <2>2. started' \in 0 .. MaxTrips
    BY <1>5 DEF BuyAccepted, Goes, BuyReachesVenue, TypeOK
  <2>3. trip' \in [Daemons -> 0 .. MaxTrips]
    BY <1>5 DEF BuyAccepted, Goes, BuyReachesVenue, TypeOK
  <2>4. due' \in [Trips -> 0 .. Full]
    BY <1>5 DEF BuyAccepted, Goes, BuyReachesVenue, TypeOK, Trips
  <2> QED
    BY <1>5, <2>1, <2>2, <2>3, <2>4 DEF BuyAccepted, BuyReachesVenue, TypeOK, files,
       history
<1>6. ASSUME NEW d \in Daemons, BuyUnseen(d) PROVE TypeOK'
  <2>1. place' \in [Daemons -> Places]
    BY <1>6 DEF BuyUnseen, Goes, BuyReachesVenue, Fails, Ends, TypeOK, Places
  <2>2. started' \in 0 .. MaxTrips
    BY <1>6 DEF BuyUnseen, Goes, BuyReachesVenue, Fails, Ends, TypeOK
  <2>3. trip' \in [Daemons -> 0 .. MaxTrips]
    BY <1>6 DEF BuyUnseen, Goes, BuyReachesVenue, Fails, Ends, TypeOK
  <2>4. due' \in [Trips -> 0 .. Full]
    BY <1>6 DEF BuyUnseen, Goes, BuyReachesVenue, Fails, Ends, TypeOK, Trips
  <2>5. report' \in [Daemons -> Reports]
    BY <1>6 DEF BuyUnseen, Goes, BuyReachesVenue, Fails, Ends, TypeOK, Reports
  <2>6. outcome' \in [Trips -> Reports \cup {"open", "lost"}]
    BY <1>6 DEF BuyUnseen, Goes, BuyReachesVenue, Fails, Ends, TypeOK, Reports
  <2>7. run' \in Nat
    BY <1>6 DEF BuyUnseen, Goes, BuyReachesVenue, Fails, Ends, TypeOK
  <2>8. miscount' \in BOOLEAN
    BY <1>6 DEF BuyUnseen, Goes, BuyReachesVenue, Fails, Ends, TypeOK
  <2>9. proof' \in [says : Reports, trip : 0 .. MaxTrips]
    BY <1>6 DEF BuyUnseen, Goes, BuyReachesVenue, Fails, Ends, TypeOK, Reports
  <2> QED
    BY <1>6, <2>1, <2>2, <2>3, <2>4, <2>5, <2>6, <2>7, <2>8, <2>9 DEF BuyUnseen,
       BuyReachesVenue, TypeOK
<1>7. ASSUME NEW d \in Daemons, BuySeen(d) PROVE TypeOK'
  <2>1. place' \in [Daemons -> Places]
    BY <1>7 DEF BuySeen, Goes, TypeOK, Places
  <2>2. seen' \in [Daemons -> 0 .. Full]
    <3>1. held[trip[d]] \in 0 .. Full
      BY <1>7, TripOf DEF BuySeen, OnTrip
    <3> QED
      BY <1>7, <3>1 DEF BuySeen, TypeOK
  <2> QED
    BY <1>7, <2>1, <2>2 DEF BuySeen, TypeOK, files, venue, history
<1>8. ASSUME NEW d \in Daemons, BuyGivenUp(d) PROVE TypeOK'
  <2>1. place' \in [Daemons -> Places]
    BY <1>8 DEF BuyGivenUp, Goes, Fails, Ends, TypeOK, Places
  <2>2. seen' \in [Daemons -> 0 .. Full]
    BY <1>8 DEF BuyGivenUp, Goes, Fails, Ends, TypeOK
  <2>3. report' \in [Daemons -> Reports]
    BY <1>8 DEF BuyGivenUp, Goes, Fails, Ends, TypeOK, Reports
  <2>4. outcome' \in [Trips -> Reports \cup {"open", "lost"}]
    BY <1>8 DEF BuyGivenUp, Goes, Fails, Ends, TypeOK, Reports
  <2>5. run' \in Nat
    BY <1>8 DEF BuyGivenUp, Goes, Fails, Ends, TypeOK
  <2>6. miscount' \in BOOLEAN
    BY <1>8 DEF BuyGivenUp, Goes, Fails, Ends, TypeOK
  <2>7. proof' \in [says : Reports, trip : 0 .. MaxTrips]
    BY <1>8 DEF BuyGivenUp, Goes, Fails, Ends, TypeOK, Reports
  <2> QED
    BY <1>8, <2>1, <2>2, <2>3, <2>4, <2>5, <2>6, <2>7 DEF BuyGivenUp, TypeOK, venue
<1>9. ASSUME NEW d \in Daemons, SellToFlat(d) PROVE TypeOK'
  <2>1. place' \in [Daemons -> Places]
    BY <1>9 DEF SellToFlat, Goes, TypeOK, Places
  <2>2. seen' \in [Daemons -> 0 .. Full]
    BY <1>9 DEF SellToFlat, Goes, TypeOK
  <2>3. held' \in [Trips -> 0 .. Full]
    <3>1. held[trip[d]] \in 0 .. Full
      BY <1>9, Sale, TripOf
    <3> QED
      BY <1>9, <3>1, Sale DEF TypeOK
  <2>4. sold' \in SUBSET Trips
    BY <1>9, Sale DEF TypeOK
  <2>5. short' \in SUBSET Trips
    BY <1>9, Sale DEF TypeOK
  <2> QED
    BY <1>9, <2>1, <2>2, <2>3, <2>4, <2>5 DEF SellToFlat, TypeOK, files
<1>10. ASSUME NEW d \in Daemons, Records(d) PROVE TypeOK'
  <2>1. place' \in [Daemons -> Places]
    BY <1>10 DEF Records, Goes, Ends, TypeOK, Places
  <2>2. report' \in [Daemons -> Reports]
    BY <1>10 DEF Records, Goes, Ends, TypeOK
  <2>3. outcome' \in [Trips -> Reports \cup {"open", "lost"}]
    BY <1>10 DEF Records, Goes, Ends, TypeOK
  <2>4. run' \in Nat
    BY <1>10 DEF Records, Goes, Ends, TypeOK
  <2>5. miscount' \in BOOLEAN
    BY <1>10 DEF Records, Goes, Ends, TypeOK
  <2>6. proof' \in [says : Reports, trip : 0 .. MaxTrips]
    BY <1>10 DEF Records, Goes, Ends, TypeOK
  <2> QED
    BY <1>10, <2>1, <2>2, <2>3, <2>4, <2>5, <2>6 DEF Records, TypeOK, venue
<1>11. ASSUME NEW d \in Daemons, Persists(d) PROVE TypeOK'
  <2>1. place' \in [Daemons -> Places]
    BY <1>11 DEF Persists, Goes, TypeOK, Places
  <2>2. proof' \in [says : Reports, trip : 0 .. MaxTrips]
    BY <1>11 DEF Persists, Goes, TypeOK
  <2> QED
    BY <1>11, <2>1, <2>2 DEF Persists, TypeOK, venue, history
<1>12. ASSUME NEW d \in Daemons, CountLoads(d) PROVE TypeOK'
  <2>1. place' \in [Daemons -> Places]
    BY <1>12 DEF CountLoads, Goes, LoadsState, TypeOK, Places
  <2>2. loaded' \in [Daemons -> Streaks]
    BY <1>12 DEF CountLoads, Goes, LoadsState, TypeOK
  <2> QED
    BY <1>12, <2>1, <2>2 DEF CountLoads, TypeOK, files, venue, history
<1>13. ASSUME NEW d \in Daemons, CountSaves(d) PROVE TypeOK'
  <2>1. place' \in [Daemons -> Places]
    BY <1>13 DEF CountSaves, Goes, SavesState, TypeOK, Places
  <2>2. state' \in Streaks
    BY <1>13 DEF CountSaves, Goes, SavesState, TypeOK, Streaks, Counted
  <2>3. loaded' \in [Daemons -> Streaks]
    BY <1>13 DEF CountSaves, Goes, SavesState, TypeOK
  <2>4. miscount' \in BOOLEAN
    BY <1>13 DEF CountSaves, Goes, SavesState, TypeOK
  <2> QED
    BY <1>13, <2>1, <2>2, <2>3, <2>4 DEF CountSaves, TypeOK, venue
<1>14. ASSUME NEW d \in Daemons, EmitReads(d) PROVE TypeOK'
  <2>1. place' \in [Daemons -> Places]
    BY <1>14 DEF EmitReads, Goes, TypeOK, Places
  <2>2. found' \in [Daemons -> 0 .. MaxTrips]
    BY <1>14 DEF EmitReads, Goes, TypeOK
  <2> QED
    BY <1>14, <2>1, <2>2 DEF EmitReads, TypeOK, files, venue, history
<1>15. ASSUME NEW d \in Daemons, EmitWrites(d) PROVE TypeOK'
  <2>1. place' \in [Daemons -> Places]
    BY <1>15 DEF EmitWrites, Goes, TypeOK, Places
  <2>2. loop' \in 0 .. MaxTrips
    BY <1>15 DEF EmitWrites, Goes, TypeOK
  <2>3. found' \in [Daemons -> 0 .. MaxTrips]
    BY <1>15 DEF EmitWrites, Goes, TypeOK
  <2> QED
    BY <1>15, <2>1, <2>2, <2>3 DEF EmitWrites, TypeOK, venue, history
<1>16. ASSUME NEW d \in Daemons, Stamps(d) PROVE TypeOK'
  <2>1. place' \in [Daemons -> Places]
    BY <1>16 DEF Stamps, Goes, Over, TypeOK, Places
  <2>2. trip' \in [Daemons -> 0 .. MaxTrips]
    BY <1>16 DEF Stamps, Goes, Over, TypeOK
  <2>3. seen' \in [Daemons -> 0 .. Full]
    BY <1>16 DEF Stamps, Goes, Over, TypeOK
  <2>4. report' \in [Daemons -> Reports]
    BY <1>16 DEF Stamps, Goes, Over, TypeOK, Reports
  <2>5. loaded' \in [Daemons -> Streaks]
    BY <1>16 DEF Stamps, Goes, Over, TypeOK
  <2>6. found' \in [Daemons -> 0 .. MaxTrips]
    BY <1>16 DEF Stamps, Goes, Over, TypeOK
  <2>7. stamp' \in BOOLEAN
    BY <1>16 DEF Stamps, Goes, Over, TypeOK
  <2> QED
    BY <1>16, <2>1, <2>2, <2>3, <2>4, <2>5, <2>6, <2>7 DEF Stamps, Over, TypeOK,
       venue, history
<1>17. ASSUME NEW d \in Daemons, Killed(d) PROVE TypeOK'
  <2>1. place' \in [Daemons -> Places]
    BY <1>17 DEF Killed, Goes, Over, Left, TypeOK, Places
  <2>2. trip' \in [Daemons -> 0 .. MaxTrips]
    BY <1>17 DEF Killed, Goes, Over, Left, TypeOK
  <2>3. seen' \in [Daemons -> 0 .. Full]
    BY <1>17 DEF Killed, Goes, Over, Left, TypeOK
  <2>4. report' \in [Daemons -> Reports]
    BY <1>17 DEF Killed, Goes, Over, Left, TypeOK, Reports
  <2>5. loaded' \in [Daemons -> Streaks]
    BY <1>17 DEF Killed, Goes, Over, Left, TypeOK
  <2>6. found' \in [Daemons -> 0 .. MaxTrips]
    BY <1>17 DEF Killed, Goes, Over, Left, TypeOK
  <2>7. proof' \in [says : Reports, trip : 0 .. MaxTrips]
    BY <1>17 DEF Killed, Goes, Over, Left, TypeOK
  <2>8. state' \in Streaks
    BY <1>17 DEF Killed, Goes, Over, Left, TypeOK
  <2>9. loop' \in 0 .. MaxTrips
    BY <1>17 DEF Killed, Goes, Over, Left, TypeOK
  <2>10. stamp' \in BOOLEAN
    BY <1>17 DEF Killed, Goes, Over, Left, TypeOK
  <2>11. torn' \in BOOLEAN
    BY <1>17 DEF Killed, Goes, Over, Left, TypeOK
  <2>12. kills' \in 0 .. MaxKills
    BY <1>17 DEF Killed, Goes, Over, Left, TypeOK
  <2>13. outcome' \in [Trips -> Reports \cup {"open", "lost"}]
    BY <1>17 DEF Killed, Goes, Over, Left, TypeOK
  <2>14. miscount' \in BOOLEAN
    BY <1>17 DEF Killed, Goes, Over, Left, TypeOK
  <2> QED
    BY <1>17, <2>1, <2>2, <2>3, <2>4, <2>5, <2>6, <2>7, <2>8, <2>9, <2>10, <2>11,
       <2>12, <2>13, <2>14 DEF Killed, Over, BuyReachesVenue, TypeOK, locals, files,
       venue, history
<1>18. ASSUME BundleEmits PROVE TypeOK'
  BY <1>18 DEF BundleEmits, TypeOK, locals, venue, history
<1>19. ASSUME NEW t \in Trips, VenueFills(t) PROVE TypeOK'
  <2>1. due' \in [Trips -> 0 .. Full]
    BY <1>19 DEF VenueFills, TypeOK
  <2>2. held' \in [Trips -> 0 .. Full]
    BY <1>19 DEF VenueFills, TypeOK, Stock
  <2> QED
    BY <1>19, <2>1, <2>2 DEF VenueFills, TypeOK, locals, files, history
<1>20. ASSUME NEW t \in Trips, VenueCancels(t) PROVE TypeOK'
  <2>1. due' \in [Trips -> 0 .. Full]
    BY <1>20 DEF VenueCancels, TypeOK
  <2>2. held' \in [Trips -> 0 .. Full]
    BY <1>20 DEF VenueCancels, TypeOK
  <2> QED
    BY <1>20, <2>1, <2>2 DEF VenueCancels, TypeOK, locals, files, history
<1> QED
  BY <1>1, <1>2, <1>3, <1>4, <1>5, <1>6, <1>7, <1>8, <1>9, <1>10, <1>11, <1>12, <1>13,
     <1>14, <1>15, <1>16, <1>17, <1>18, <1>19, <1>20 DEF Next

(* Trips under way. *)
LEMMA OwnStep ==
    ASSUME TypeOK, Own, Stock, Next
    PROVE  Own'
<1>1. ASSUME NEW d \in Daemons, CyclePassesGates(d) PROVE Own'
  BY <1>1 DEF CyclePassesGates, Goes, TypeOK, Own, OnTrip, files, venue, history
<1>2. ASSUME NEW d \in Daemons, SkipLoads(d) PROVE Own'
  BY <1>2 DEF SkipLoads, Goes, LoadsState, TypeOK, Own, OnTrip, files, venue, history
<1>3. ASSUME NEW d \in Daemons, SkipSaves(d) PROVE Own'
  BY <1>3 DEF SkipSaves, Goes, Over, SavesState, TypeOK, Own, OnTrip, venue
<1>4. ASSUME NEW d \in Daemons, BuyRefused(d) PROVE Own'
  BY <1>4 DEF BuyRefused, Goes, Ends, TypeOK, Own, OnTrip, venue
<1>5. ASSUME NEW d \in Daemons, BuyAccepted(d) PROVE Own'
  <2>1. /\ started < MaxTrips /\ started' = started + 1 /\ outcome' = outcome
        /\ trip' = [trip EXCEPT ![d] = started + 1]
        /\ place' = [place EXCEPT ![d] = "polling"] /\ ~OnTrip(d)
    BY <1>5 DEF BuyAccepted, BuyReachesVenue, Goes, OnTrip, history
  <2>2. \A e \in Daemons : OnTrip(e)' <=> OnTrip(e) \/ e = d
    BY <2>1 DEF TypeOK, OnTrip
  <2>3. trip'[d] = started + 1 /\ \A e \in Daemons \ {d} : trip'[e] = trip[e]
    BY <2>1 DEF TypeOK
  <2>4. started \in Nat /\ 1 .. started \subseteq 1 .. started' /\ started + 1 \in 1 .. started'
    BY <2>1 DEF TypeOK
  <2>5. outcome[started + 1] = "open" /\ \A e \in Daemons : OnTrip(e) => trip[e] # started + 1
    BY <2>1, NextTrip
  <2> QED
    BY <2>1, <2>2, <2>3, <2>4, <2>5 DEF Own
<1>6. ASSUME NEW d \in Daemons, BuyUnseen(d) PROVE Own'
  BY <1>6 DEF BuyUnseen, Goes, BuyReachesVenue, Fails, Ends, TypeOK, Own, OnTrip, NoTrip
<1>7. ASSUME NEW d \in Daemons, BuySeen(d) PROVE Own'
  BY <1>7 DEF BuySeen, Goes, TypeOK, Own, OnTrip, files, venue, history
<1>8. ASSUME NEW d \in Daemons, BuyGivenUp(d) PROVE Own'
  BY <1>8 DEF BuyGivenUp, Goes, Fails, Ends, TypeOK, Own, OnTrip, venue
<1>9. ASSUME NEW d \in Daemons, SellToFlat(d) PROVE Own'
  BY <1>9 DEF SellToFlat, Goes, TypeOK, Own, OnTrip, files
<1>10. ASSUME NEW d \in Daemons, Records(d) PROVE Own'
  <2>1. OnTrip(d)
    BY <1>10 DEF Records, OnTrip
  <2>2. PICK says \in Reports : /\ place' = [place EXCEPT ![d] = "reported"]
                                /\ outcome' = [outcome EXCEPT ![trip[d]] = says]
    BY <1>10, Recorded
  <2>3. trip' = trip /\ started' = started
    BY <1>10 DEF Records, venue
  <2>4. \A e \in Daemons : OnTrip(e)' => OnTrip(e) /\ e # d
    BY <2>2 DEF TypeOK, OnTrip
  <2>5. \A e \in Daemons : OnTrip(e)' => outcome'[trip[e]] = outcome[trip[e]]
    BY <2>1, <2>2, <2>4, TripOf DEF TypeOK
  <2> QED
    BY <2>3, <2>4, <2>5 DEF Own
<1>11. ASSUME NEW d \in Daemons, Persists(d) PROVE Own'
  BY <1>11 DEF Persists, Goes, TypeOK, Own, OnTrip, venue, history
<1>12. ASSUME NEW d \in Daemons, CountLoads(d) PROVE Own'
  BY <1>12 DEF CountLoads, Goes, LoadsState, TypeOK, Own, OnTrip, files, venue, history
<1>13. ASSUME NEW d \in Daemons, CountSaves(d) PROVE Own'
  BY <1>13 DEF CountSaves, Goes, SavesState, TypeOK, Own, OnTrip, venue
<1>14. ASSUME NEW d \in Daemons, EmitReads(d) PROVE Own'
  <2>1. \A e \in Daemons : OnTrip(e)' <=> OnTrip(e)
    BY <1>14 DEF EmitReads, Goes, TypeOK, OnTrip
  <2> QED
    BY <1>14, <2>1 DEF EmitReads, Own, venue, history
<1>15. ASSUME NEW d \in Daemons, EmitWrites(d) PROVE Own'
  BY <1>15 DEF EmitWrites, Goes, TypeOK, Own, OnTrip, venue, history
<1>16. ASSUME NEW d \in Daemons, Stamps(d) PROVE Own'
  BY <1>16 DEF Stamps, Goes, Over, TypeOK, Own, OnTrip, venue, history
<1>17. ASSUME NEW d \in Daemons, Killed(d) PROVE Own'
  <2>1. /\ place' = [place EXCEPT ![d] = "idle"] /\ trip' = [trip EXCEPT ![d] = NoTrip]
        /\ started' = started
    BY <1>17 DEF Killed, Over, Goes, venue
  <2>2. \A e \in Daemons : OnTrip(e)' => OnTrip(e) /\ e # d /\ trip'[e] = trip[e]
    BY <2>1 DEF TypeOK, OnTrip
  <2>3. ASSUME NEW e \in Daemons, OnTrip(e)' PROVE outcome'[trip[e]] = outcome[trip[e]]
    <3>1. CASE OnTrip(d)
      <4>1. outcome' = [outcome EXCEPT ![trip[d]] = "lost"]
        BY <1>17, <3>1 DEF Killed
      <4>2. trip[e] # trip[d] /\ trip[e] \in Trips
        BY <2>2, <2>3, <3>1, TripOf
      <4> QED
        BY <4>1, <4>2 DEF TypeOK
    <3>2. CASE ~OnTrip(d)
      BY <1>17, <3>2 DEF Killed
    <3> QED
      BY <3>1, <3>2
  <2> QED
    BY <2>1, <2>2, <2>3 DEF Own
<1>18. ASSUME BundleEmits PROVE Own'
  BY <1>18 DEF BundleEmits, TypeOK, Own, OnTrip, locals, venue, history
<1>19. ASSUME NEW t \in Trips, VenueFills(t) PROVE Own'
  BY <1>19 DEF VenueFills, TypeOK, Own, OnTrip, locals, files, history
<1>20. ASSUME NEW t \in Trips, VenueCancels(t) PROVE Own'
  BY <1>20 DEF VenueCancels, TypeOK, Own, OnTrip, locals, files, history
<1> QED
  BY <1>1, <1>2, <1>3, <1>4, <1>5, <1>6, <1>7, <1>8, <1>9, <1>10, <1>11, <1>12, <1>13,
     <1>14, <1>15, <1>16, <1>17, <1>18, <1>19, <1>20 DEF Next

(* What the trips hold. *)
LEMMA StockStep ==
    ASSUME TypeOK, Own, Stock, Next
    PROVE  Stock'
<1> USE DaemonAssumption DEF DaemonAssumption
<1>1. ASSUME NEW d \in Daemons, CyclePassesGates(d) PROVE Stock'
  BY <1>1 DEF CyclePassesGates, Goes, TypeOK, Stock, files, venue, history
<1>2. ASSUME NEW d \in Daemons, SkipLoads(d) PROVE Stock'
  BY <1>2 DEF SkipLoads, Goes, LoadsState, TypeOK, Stock, files, venue, history
<1>3. ASSUME NEW d \in Daemons, SkipSaves(d) PROVE Stock'
  BY <1>3 DEF SkipSaves, Goes, Over, SavesState, TypeOK, Stock, venue
<1>4. ASSUME NEW d \in Daemons, BuyRefused(d) PROVE Stock'
  BY <1>4 DEF BuyRefused, Goes, Ends, TypeOK, Stock, venue
<1>5. ASSUME NEW d \in Daemons, BuyAccepted(d) PROVE Stock'
  <2> DEFINE u == started + 1
  <2>1. /\ started < MaxTrips /\ started' = u
        /\ trip' = [trip EXCEPT ![d] = u]
        /\ due' = [due EXCEPT ![u] = Full]
        /\ UNCHANGED <<held, sold, seen, outcome>>
        /\ place' = [place EXCEPT ![d] = "polling"]
    BY <1>5 DEF BuyAccepted, BuyReachesVenue, Goes, history
  <2>2. u \in Trips /\ u # NoTrip /\ held[u] = 0 /\ started \in Nat
    BY <2>1, NextTrip DEF TypeOK
  <2> HIDE DEF u
  <2>3. \A t \in Trips : t # u => due'[t] = due[t]
    BY <2>1 DEF TypeOK
  <2>4. due'[u] = Full
    BY <2>1, <2>2 DEF TypeOK
  <2>5. \A t \in Trips : held'[t] + due'[t] <= Full
    BY <2>1, <2>2, <2>3, <2>4, DaemonAssumption DEF DaemonAssumption, Stock
  <2>6. \A t \in Trips : t > started' => t > started /\ t # u
    BY <2>1, <2>2 DEF u, Trips, TypeOK
  <2>7. \A e \in Daemons : place'[e] = "sizing" => e # d /\ place[e] = "sizing" /\ trip'[e] = trip[e]
    BY <2>1 DEF TypeOK
  <2> QED
    BY <2>1, <2>3, <2>5, <2>6, <2>7 DEF Stock
<1>6. ASSUME NEW d \in Daemons, BuyUnseen(d) PROVE Stock'
  <2> DEFINE u == started + 1
  <2>1. /\ started < MaxTrips /\ started' = u
        /\ trip' = [trip EXCEPT ![d] = u]
        /\ due' = [due EXCEPT ![u] = Full]
        /\ UNCHANGED <<held, sold, seen>>
        /\ Ends(d, u, "failed")
    BY <1>6 DEF BuyUnseen, BuyReachesVenue, Fails
  <2>2. u \in Trips /\ u # NoTrip /\ held[u] = 0 /\ started \in Nat
    BY <2>1, NextTrip DEF TypeOK
  <2>3. outcome' = [outcome EXCEPT ![u] = "failed"] /\ place' = [place EXCEPT ![d] = "reported"]
    BY <2>1, <2>2 DEF Ends, Goes
  <2> HIDE DEF u
  <2>4. \A t \in Trips : t # u => due'[t] = due[t] /\ outcome'[t] = outcome[t]
    BY <2>1, <2>3 DEF TypeOK
  <2>5. due'[u] = Full
    BY <2>1, <2>2 DEF TypeOK
  <2>6. \A t \in Trips : held'[t] + due'[t] <= Full
    BY <2>1, <2>2, <2>4, <2>5, DaemonAssumption DEF DaemonAssumption, Stock
  <2>7. \A t \in Trips : t > started' => t > started /\ t # u
    BY <2>1, <2>2 DEF u, Trips, TypeOK
  <2>8. \A e \in Daemons : place'[e] = "sizing" => e # d /\ place[e] = "sizing" /\ trip'[e] = trip[e]
    BY <2>1, <2>3 DEF TypeOK
  <2> QED
    BY <2>1, <2>4, <2>6, <2>7, <2>8 DEF Stock
<1>7. ASSUME NEW d \in Daemons, BuySeen(d) PROVE Stock'
  <2>1. OnTrip(d) /\ place[d] = "polling" /\ held[trip[d]] \in Nat
    BY <1>7, TripOf DEF BuySeen, OnTrip
  <2>2. PICK q \in 1 .. held[trip[d]] : seen' = [seen EXCEPT ![d] = q]
    BY <1>7 DEF BuySeen
  <2>3. UNCHANGED <<trip, started, held, due, outcome, sold>>
        /\ place' = [place EXCEPT ![d] = "sizing"]
    BY <1>7 DEF BuySeen, Goes, venue, history
  <2>4. ASSUME NEW e \in Daemons, place'[e] = "sizing" PROVE seen'[e] <= held'[trip'[e]]
    <3>1. CASE e = d
      BY <3>1, <2>1, <2>2, <2>3 DEF TypeOK
    <3>2. CASE e # d
      BY <3>2, <2>2, <2>3, <2>4 DEF Stock, TypeOK
    <3> QED
      BY <3>1, <3>2
  <2> QED
    BY <2>3, <2>4 DEF Stock
<1>8. ASSUME NEW d \in Daemons, BuyGivenUp(d) PROVE Stock'
  <2>1. OnTrip(d) /\ Ends(d, trip[d], "failed")
    BY <1>8 DEF BuyGivenUp, Fails, OnTrip
  <2>2. /\ place' = [place EXCEPT ![d] = "reported"]
        /\ outcome' = [outcome EXCEPT ![trip[d]] = "failed"]
        /\ seen' = [seen EXCEPT ![d] = 0]
        /\ UNCHANGED <<trip, started, held, due, sold>>
    BY <1>8, <2>1, EndOf DEF BuyGivenUp, venue
  <2>3. \A t \in Trips : t > started => t # trip[d]
    BY <2>1, TripOf
  <2>4. \A e \in Daemons : place'[e] = "sizing" => place[e] = "sizing" /\ seen'[e] = seen[e]
    BY <2>2 DEF TypeOK
  <2> QED
    BY <2>2, <2>3, <2>4 DEF Stock, TypeOK
<1>9. ASSUME NEW d \in Daemons, SellToFlat(d) PROVE Stock'
  <2>1. /\ OnTrip(d) /\ trip[d] \in Trips
        /\ \A t \in Trips : t > started => t # trip[d]
        /\ \A e \in Daemons \ {d} : OnTrip(e) => trip[e] # trip[d]
    BY <1>9, Sale, TripOf
  <2>2. PICK q \in 0 .. held[trip[d]] :
            /\ held' = [held EXCEPT ![trip[d]] = held[trip[d]] - q]
            /\ sold' \subseteq sold \cup {trip[d]}
    BY <1>9, Sale
  <2>3. UNCHANGED <<trip, started, due, outcome>> /\ place' = [place EXCEPT ![d] = "recording"]
        /\ seen' = [seen EXCEPT ![d] = 0]
    BY <1>9 DEF SellToFlat, Goes
  <2>4. \A t \in Trips : /\ held'[t] <= held[t] /\ held'[t] \in Int
                         /\ t # trip[d] => held'[t] = held[t]
    BY <2>1, <2>2 DEF TypeOK
  <2>5. \A t \in Trips : held'[t] + due'[t] <= Full
    BY <2>3, <2>4 DEF Stock, TypeOK
  <2>6. \A t \in Trips : t > started' => /\ held'[t] = 0 /\ due'[t] = 0
                                         /\ outcome'[t] = "open" /\ t \notin sold'
    BY <2>1, <2>2, <2>3, <2>4 DEF Stock
  <2>7. ASSUME NEW e \in Daemons, place'[e] = "sizing" PROVE seen'[e] <= held'[trip'[e]]
    <3>1. e # d /\ place[e] = "sizing" /\ OnTrip(e) /\ seen'[e] = seen[e]
      BY <2>3, <2>7 DEF TypeOK, OnTrip
    <3>2. trip[e] \in Trips /\ trip[e] # trip[d]
      BY <2>1, <3>1, TripOf
    <3> QED
      BY <2>3, <2>4, <3>1, <3>2 DEF Stock
  <2> QED
    BY <2>5, <2>6, <2>7 DEF Stock
<1>10. ASSUME NEW d \in Daemons, Records(d) PROVE Stock'
  <2>1. OnTrip(d)
    BY <1>10 DEF Records, OnTrip
  <2>2. PICK says \in Reports : /\ place' = [place EXCEPT ![d] = "reported"]
                                /\ outcome' = [outcome EXCEPT ![trip[d]] = says]
    BY <1>10, Recorded
  <2>3. UNCHANGED <<trip, seen, started, held, due, sold>>
    BY <1>10 DEF Records, venue
  <2>4. \A t \in Trips : t > started => t # trip[d]
    BY <2>1, TripOf
  <2> QED
    BY <2>2, <2>3, <2>4 DEF Stock, TypeOK
<1>11. ASSUME NEW d \in Daemons, Persists(d) PROVE Stock'
  BY <1>11 DEF Persists, Goes, TypeOK, Stock, venue, history
<1>12. ASSUME NEW d \in Daemons, CountLoads(d) PROVE Stock'
  BY <1>12 DEF CountLoads, Goes, LoadsState, TypeOK, Stock, files, venue, history
<1>13. ASSUME NEW d \in Daemons, CountSaves(d) PROVE Stock'
  BY <1>13 DEF CountSaves, Goes, SavesState, TypeOK, Stock, venue
<1>14. ASSUME NEW d \in Daemons, EmitReads(d) PROVE Stock'
  BY <1>14 DEF EmitReads, Goes, TypeOK, Stock, files, venue, history
<1>15. ASSUME NEW d \in Daemons, EmitWrites(d) PROVE Stock'
  BY <1>15 DEF EmitWrites, Goes, TypeOK, Stock, venue, history
<1>16. ASSUME NEW d \in Daemons, Stamps(d) PROVE Stock'
  BY <1>16 DEF Stamps, Goes, Over, TypeOK, Stock, venue, history
<1>17. ASSUME NEW d \in Daemons, Killed(d) PROVE Stock'
  BY <1>17 DEF Killed, Goes, Over, Left, OnTrip, TypeOK, Own, Stock, NoTrip, Reports,
     venue
<1>18. ASSUME BundleEmits PROVE Stock'
  BY <1>18 DEF BundleEmits, TypeOK, Stock, locals, venue, history
<1>19. ASSUME NEW t \in Trips, VenueFills(t) PROVE Stock'
  BY <1>19 DEF VenueFills, TypeOK, Stock, Reports, locals, files, history
<1>20. ASSUME NEW t \in Trips, VenueCancels(t) PROVE Stock'
  BY <1>20 DEF VenueCancels, TypeOK, Stock, locals, files, history
<1> QED
  BY <1>1, <1>2, <1>3, <1>4, <1>5, <1>6, <1>7, <1>8, <1>9, <1>10, <1>11, <1>12, <1>13,
     <1>14, <1>15, <1>16, <1>17, <1>18, <1>19, <1>20 DEF Next

(* Sells. *)
LEMMA FlatStep ==
    ASSUME TypeOK, Own, Stock, Flat, Next
    PROVE  Flat'
<1> USE DaemonAssumption DEF DaemonAssumption
<1>1. ASSUME NEW d \in Daemons, CyclePassesGates(d) PROVE Flat'
  BY <1>1 DEF CyclePassesGates, Goes, TypeOK, Flat, files, venue, history
<1>2. ASSUME NEW d \in Daemons, SkipLoads(d) PROVE Flat'
  BY <1>2 DEF SkipLoads, Goes, LoadsState, TypeOK, Flat, files, venue, history
<1>3. ASSUME NEW d \in Daemons, SkipSaves(d) PROVE Flat'
  BY <1>3 DEF SkipSaves, Goes, Over, SavesState, TypeOK, Flat, venue
<1>4. ASSUME NEW d \in Daemons, BuyRefused(d) PROVE Flat'
  BY <1>4 DEF BuyRefused, Goes, Ends, TypeOK, Flat, venue
<1>5. ASSUME NEW d \in Daemons, BuyAccepted(d) PROVE Flat'
  BY <1>5 DEF BuyAccepted, Goes, BuyReachesVenue, TypeOK, Stock, Flat, files, history
<1>6. ASSUME NEW d \in Daemons, BuyUnseen(d) PROVE Flat'
  <2> DEFINE u == started + 1
  <2>1. /\ started < MaxTrips
        /\ due' = [due EXCEPT ![u] = Full]
        /\ UNCHANGED <<held, sold, short>>
        /\ Ends(d, u, "failed")
    BY <1>6 DEF BuyUnseen, BuyReachesVenue, Fails
  <2>2. u \in Trips /\ u # NoTrip /\ u \notin sold
    BY <2>1, NextTrip
  <2>3. outcome' = [outcome EXCEPT ![u] = "failed"]
    BY <2>1, <2>2 DEF Ends
  <2> HIDE DEF u
  <2>4. \A t \in Trips : t # u => due'[t] = due[t] /\ outcome'[t] = outcome[t]
    BY <2>1, <2>3 DEF TypeOK
  <2>5. outcome'[u] = "failed"
    BY <2>2, <2>3 DEF TypeOK
  <2> QED
    BY <2>1, <2>2, <2>4, <2>5 DEF Flat, TypeOK
<1>7. ASSUME NEW d \in Daemons, BuySeen(d) PROVE Flat'
  BY <1>7 DEF BuySeen, Goes, TypeOK, Flat, files, venue, history
<1>8. ASSUME NEW d \in Daemons, BuyGivenUp(d) PROVE Flat'
  BY <1>8 DEF BuyGivenUp, Goes, Fails, Ends, TypeOK, Flat, venue
<1>9. ASSUME NEW d \in Daemons, SellToFlat(d) PROVE Flat'
  <2>1. OnTrip(d) /\ trip[d] \in Trips
    BY <1>9, Sale
  <2>2. held[trip[d]] \in Nat /\ due[trip[d]] \in Nat /\ outcome[trip[d]] = "open"
    BY <2>1, TripOf
  <2>3. PICK q \in 0 .. held[trip[d]] :
            /\ held' = [held EXCEPT ![trip[d]] = held[trip[d]] - q]
            /\ \/ sold' = sold /\ short' = short
               \/ /\ sold' = sold \cup {trip[d]}
                  /\ short' = IF q < held[trip[d]] + due[trip[d]]
                              THEN short \cup {trip[d]} ELSE short
    BY <1>9, Sale
  <2>4. due' = due /\ outcome' = outcome
    BY <1>9 DEF SellToFlat
  <2>5. \A t \in Trips : t # trip[d] => held'[t] = held[t]
    BY <2>1, <2>3 DEF TypeOK
  <2>6. held'[trip[d]] = held[trip[d]] - q
    BY <2>1, <2>3 DEF TypeOK
  <2>7. trip[d] \in sold' \ short' => held'[trip[d]] = 0 /\ due[trip[d]] = 0
    <3>1. CASE sold' = sold /\ short' = short
      BY <3>1, <2>1, <2>2, <2>3, <2>6 DEF Flat
    <3>2. CASE q < held[trip[d]] + due[trip[d]] /\ sold' = sold \cup {trip[d]}
                /\ short' = short \cup {trip[d]}
      BY <3>2
    <3>3. CASE ~(q < held[trip[d]] + due[trip[d]])
      BY <3>3, <2>2, <2>3, <2>6
    <3> QED
      BY <3>1, <3>2, <3>3, <2>3
  <2>8. \A t \in sold' \ short' : t # trip[d] => t \in sold \ short
    BY <2>3
  <2>9. sold \subseteq sold' /\ sold' \subseteq Trips
    BY <2>1, <2>3 DEF TypeOK
  <2> QED
    BY <2>4, <2>5, <2>7, <2>8, <2>9 DEF Flat
<1>10. ASSUME NEW d \in Daemons, Records(d) PROVE Flat'
  BY <1>10 DEF Records, Goes, Ends, TypeOK, Flat, Reports, venue
<1>11. ASSUME NEW d \in Daemons, Persists(d) PROVE Flat'
  BY <1>11 DEF Persists, Goes, TypeOK, Flat, venue, history
<1>12. ASSUME NEW d \in Daemons, CountLoads(d) PROVE Flat'
  BY <1>12 DEF CountLoads, Goes, LoadsState, TypeOK, Flat, files, venue, history
<1>13. ASSUME NEW d \in Daemons, CountSaves(d) PROVE Flat'
  BY <1>13 DEF CountSaves, Goes, SavesState, TypeOK, Flat, venue
<1>14. ASSUME NEW d \in Daemons, EmitReads(d) PROVE Flat'
  BY <1>14 DEF EmitReads, Goes, TypeOK, Flat, files, venue, history
<1>15. ASSUME NEW d \in Daemons, EmitWrites(d) PROVE Flat'
  BY <1>15 DEF EmitWrites, Goes, TypeOK, Flat, venue, history
<1>16. ASSUME NEW d \in Daemons, Stamps(d) PROVE Flat'
  BY <1>16 DEF Stamps, Goes, Over, TypeOK, Flat, venue, history
<1>17. ASSUME NEW d \in Daemons, Killed(d) PROVE Flat'
  BY <1>17 DEF Killed, Goes, Over, Left, TypeOK, Flat, venue
<1>18. ASSUME BundleEmits PROVE Flat'
  BY <1>18 DEF BundleEmits, TypeOK, Flat, locals, venue, history
<1>19. ASSUME NEW t \in Trips, VenueFills(t) PROVE Flat'
  BY <1>19 DEF VenueFills, TypeOK, Flat, locals, files, history
<1>20. ASSUME NEW t \in Trips, VenueCancels(t) PROVE Flat'
  BY <1>20 DEF VenueCancels, TypeOK, Flat, locals, files, history
<1> QED
  BY <1>1, <1>2, <1>3, <1>4, <1>5, <1>6, <1>7, <1>8, <1>9, <1>10, <1>11, <1>12, <1>13,
     <1>14, <1>15, <1>16, <1>17, <1>18, <1>19, <1>20 DEF Next

(* What says a trip is proven. *)
LEMMA EarnedStep ==
    ASSUME TypeOK, Own, Stock, Flat, Earned, Next
    PROVE  Earned'
<1>1. ASSUME NEW d \in Daemons, CyclePassesGates(d) PROVE Earned'
  BY <1>1 DEF CyclePassesGates, Goes, TypeOK, Flat, Earned, Proven, files, venue,
     history
<1>2. ASSUME NEW d \in Daemons, SkipLoads(d) PROVE Earned'
  BY <1>2 DEF SkipLoads, Goes, LoadsState, TypeOK, Flat, Earned, Proven, files, venue,
     history
<1>3. ASSUME NEW d \in Daemons, SkipSaves(d) PROVE Earned'
  BY <1>3 DEF SkipSaves, Goes, Over, SavesState, TypeOK, Flat, Earned, Proven, venue
<1>4. ASSUME NEW d \in Daemons, BuyRefused(d) PROVE Earned'
  BY <1>4 DEF BuyRefused, Goes, Ends, Unread, TypeOK, Flat, Earned, Proven, venue
<1>5. ASSUME NEW d \in Daemons, BuyAccepted(d) PROVE Earned'
  BY <1>5 DEF BuyAccepted, Goes, BuyReachesVenue, TypeOK, Flat, Earned, Proven, files,
     history
<1>6. ASSUME NEW d \in Daemons, BuyUnseen(d) PROVE Earned'
  BY <1>6 DEF BuyUnseen, Goes, BuyReachesVenue, Fails, Ends, TypeOK, Stock, Flat,
     Earned, Proven
<1>7. ASSUME NEW d \in Daemons, BuySeen(d) PROVE Earned'
  BY <1>7 DEF BuySeen, Goes, TypeOK, Flat, Earned, Proven, files, venue, history
<1>8. ASSUME NEW d \in Daemons, BuyGivenUp(d) PROVE Earned'
  BY <1>8 DEF BuyGivenUp, Goes, Fails, Ends, TypeOK, Own, Flat, Earned, Proven,
     OnTrip, venue
<1>9. ASSUME NEW d \in Daemons, SellToFlat(d) PROVE Earned'
  BY <1>9 DEF SellToFlat, Goes, TypeOK, Flat, Earned, Proven, files
<1>10. ASSUME NEW d \in Daemons, Records(d) PROVE Earned'
  <2>1. OnTrip(d) /\ trip[d] \in Trips /\ outcome[trip[d]] = "open"
    BY <1>10, TripOf DEF Records, OnTrip
  <2>2. PICK says \in Reports :
            /\ says # "failed" => trip[d] \in sold
            /\ proof' = [says |-> says, trip |-> trip[d]]
            /\ place' = [place EXCEPT ![d] = "reported"]
            /\ report' = [report EXCEPT ![d] = says]
            /\ outcome' = [outcome EXCEPT ![trip[d]] = says]
    BY <1>10, Recorded
  <2>3. UNCHANGED <<trip, found, loop, stamp, sold, torn>>
    BY <1>10 DEF Records
  <2>4. \A t : Proven(t) => Proven(t)'
    BY <2>1, <2>2, <2>3 DEF Proven, TypeOK
  <2>5. says = "proven" => Proven(trip[d])'
    BY <2>1, <2>2, <2>3 DEF Proven, TypeOK
  <2>6. ASSUME NEW e \in Daemons
        PROVE  /\ place'[e] = "reported" /\ report'[e] = "proven" => Proven(trip[e])'
               /\ place'[e] = "mapping" => Proven(found[e])'
    <3>1. CASE e = d
      BY <3>1, <2>2, <2>3, <2>5 DEF TypeOK
    <3>2. CASE e # d
      <4>1. place'[e] = place[e] /\ report'[e] = report[e]
        BY <3>2, <2>2 DEF TypeOK
      <4> QED
        BY <4>1, <2>3, <2>4 DEF Earned
    <3> QED
      BY <3>1, <3>2
  <2>7. (proof.says = "proven" => Proven(proof.trip))'
    BY <2>2, <2>3, <2>5 DEF Proven
  <2>8. (loop # NoTrip => Proven(loop))' /\ (stamp /\ ~torn => loop # NoTrip)'
    BY <2>3, <2>4 DEF Earned
  <2> QED
    BY <2>3, <2>6, <2>7, <2>8 DEF Earned
<1>11. ASSUME NEW d \in Daemons, Persists(d) PROVE Earned'
  BY <1>11 DEF Persists, Goes, TypeOK, Flat, Earned, Proven, venue, history
<1>12. ASSUME NEW d \in Daemons, CountLoads(d) PROVE Earned'
  BY <1>12 DEF CountLoads, Goes, LoadsState, TypeOK, Flat, Earned, Proven, files,
     venue, history
<1>13. ASSUME NEW d \in Daemons, CountSaves(d) PROVE Earned'
  BY <1>13 DEF CountSaves, Goes, SavesState, TypeOK, Flat, Earned, Proven, venue
<1>14. ASSUME NEW d \in Daemons, EmitReads(d) PROVE Earned'
  BY <1>14 DEF EmitReads, Goes, TypeOK, Flat, Earned, Proven, files, venue, history
<1>15. ASSUME NEW d \in Daemons, EmitWrites(d) PROVE Earned'
  BY <1>15 DEF EmitWrites, Goes, TypeOK, Flat, Earned, Proven, Trips, NoTrip, venue,
     history
<1>16. ASSUME NEW d \in Daemons, Stamps(d) PROVE Earned'
  BY <1>16 DEF Stamps, Goes, Over, TypeOK, Flat, Earned, Proven, venue, history
<1>17. ASSUME NEW d \in Daemons, Killed(d) PROVE Earned'
  <2>1. /\ proof' \in {proof, Unread} /\ loop' \in {loop, NoTrip} /\ (stamp' => stamp)
        /\ (torn' <=> torn \/ loop' # loop) /\ sold' = sold
        /\ place' = [place EXCEPT ![d] = "idle"]
        /\ report' = [report EXCEPT ![d] = "failed"]
        /\ trip' = [trip EXCEPT ![d] = NoTrip] /\ found' = [found EXCEPT ![d] = NoTrip]
    BY <1>17 DEF Killed, Over, Goes, Left
  <2>2. \A t : Proven(t) => Proven(t)'
    <3>1. CASE OnTrip(d)
      <4>1. outcome' = [outcome EXCEPT ![trip[d]] = "lost"]
        BY <1>17, <3>1 DEF Killed
      <4>2. outcome[trip[d]] = "open"
        BY <3>1, TripOf
      <4> QED
        BY <2>1, <4>1, <4>2 DEF Proven, TypeOK
    <3>2. CASE ~OnTrip(d)
      <4>1. outcome' = outcome
        BY <1>17, <3>2 DEF Killed
      <4> QED
        BY <2>1, <4>1 DEF Proven
    <3> QED
      BY <3>1, <3>2
  <2>3. ASSUME NEW e \in Daemons
        PROVE  /\ place'[e] = "reported" /\ report'[e] = "proven" => Proven(trip[e])'
               /\ place'[e] = "mapping" => Proven(found[e])'
    <3>1. CASE e = d
      BY <3>1, <2>1 DEF TypeOK
    <3>2. CASE e # d
      <4>1. /\ place'[e] = place[e] /\ report'[e] = report[e]
            /\ trip'[e] = trip[e] /\ found'[e] = found[e]
        BY <3>2, <2>1 DEF TypeOK
      <4> QED
        BY <4>1, <2>2 DEF Earned
    <3> QED
      BY <3>1, <3>2
  <2>4. (proof.says = "proven" => Proven(proof.trip))'
    <3>1. proof' = proof \/ proof'.says = "failed"
      BY <2>1 DEF Unread
    <3> QED
      BY <3>1, <2>2 DEF Earned, Proven
  <2>5. (loop # NoTrip => Proven(loop))' /\ (stamp /\ ~torn => loop # NoTrip)'
    <3>1. loop' = loop \/ loop' = NoTrip
      BY <2>1
    <3> QED
      BY <3>1, <2>1, <2>2 DEF Earned, Proven
  <2> QED
    BY <2>3, <2>4, <2>5 DEF Earned
<1>18. ASSUME BundleEmits PROVE Earned'
  BY <1>18 DEF BundleEmits, TypeOK, Flat, Earned, Proven, locals, venue, history
<1>19. ASSUME NEW t \in Trips, VenueFills(t) PROVE Earned'
  BY <1>19 DEF VenueFills, TypeOK, Flat, Earned, Proven, locals, files, history
<1>20. ASSUME NEW t \in Trips, VenueCancels(t) PROVE Earned'
  BY <1>20 DEF VenueCancels, TypeOK, Flat, Earned, Proven, locals, files, history
<1> QED
  BY <1>1, <1>2, <1>3, <1>4, <1>5, <1>6, <1>7, <1>8, <1>9, <1>10, <1>11, <1>12, <1>13,
     <1>14, <1>15, <1>16, <1>17, <1>18, <1>19, <1>20 DEF Next

(* Autonomous successes. *)
LEMMA BarredStep ==
    ASSUME TypeOK, Barred, Next
    PROVE  Barred'
<1> USE DaemonAssumption DEF DaemonAssumption
<1>1. ASSUME NEW d \in Daemons, CyclePassesGates(d) PROVE Barred'
  BY <1>1 DEF CyclePassesGates, Goes, TypeOK, Barred,
     compute_autonomous_live_runtime_proven, Modes, files, venue, history
<1>2. ASSUME NEW d \in Daemons, SkipLoads(d) PROVE Barred'
  BY <1>2 DEF SkipLoads, Goes, LoadsState, TypeOK, Barred, NoStreak, files, venue,
     history
<1>3. ASSUME NEW d \in Daemons, SkipSaves(d) PROVE Barred'
  BY <1>3 DEF SkipSaves, Goes, Over, SavesState, TypeOK, Barred, NoStreak, venue
<1>4. ASSUME NEW d \in Daemons, BuyRefused(d) PROVE Barred'
  BY <1>4 DEF BuyRefused, Goes, Ends, TypeOK, Barred, venue
<1>5. ASSUME NEW d \in Daemons, BuyAccepted(d) PROVE Barred'
  BY <1>5 DEF BuyAccepted, Goes, BuyReachesVenue, TypeOK, Barred, files, history
<1>6. ASSUME NEW d \in Daemons, BuyUnseen(d) PROVE Barred'
  BY <1>6 DEF BuyUnseen, Goes, BuyReachesVenue, Fails, Ends, TypeOK, Barred
<1>7. ASSUME NEW d \in Daemons, BuySeen(d) PROVE Barred'
  BY <1>7 DEF BuySeen, Goes, TypeOK, Barred, files, venue, history
<1>8. ASSUME NEW d \in Daemons, BuyGivenUp(d) PROVE Barred'
  BY <1>8 DEF BuyGivenUp, Goes, Fails, Ends, TypeOK, Barred, venue
<1>9. ASSUME NEW d \in Daemons, SellToFlat(d) PROVE Barred'
  BY <1>9 DEF SellToFlat, Goes, TypeOK, Barred, files
<1>10. ASSUME NEW d \in Daemons, Records(d) PROVE Barred'
  BY <1>10 DEF Records, Goes, Ends, TypeOK, Barred, venue
<1>11. ASSUME NEW d \in Daemons, Persists(d) PROVE Barred'
  BY <1>11 DEF Persists, Goes, TypeOK, Barred, venue, history
<1>12. ASSUME NEW d \in Daemons, CountLoads(d) PROVE Barred'
  BY <1>12 DEF CountLoads, Goes, LoadsState, TypeOK, Barred, NoStreak, files, venue,
     history
<1>13. ASSUME NEW d \in Daemons, CountSaves(d) PROVE Barred'
  BY <1>13 DEF CountSaves, Goes, SavesState, TypeOK, Barred, NoStreak, Counted, venue
<1>14. ASSUME NEW d \in Daemons, EmitReads(d) PROVE Barred'
  BY <1>14 DEF EmitReads, Goes, TypeOK, Barred, files, venue, history
<1>15. ASSUME NEW d \in Daemons, EmitWrites(d) PROVE Barred'
  BY <1>15 DEF EmitWrites, Goes, TypeOK, Barred, venue, history
<1>16. ASSUME NEW d \in Daemons, Stamps(d) PROVE Barred'
  BY <1>16 DEF Stamps, Goes, Over, TypeOK, Barred, NoStreak, venue, history
<1>17. ASSUME NEW d \in Daemons, Killed(d) PROVE Barred'
  BY <1>17 DEF Killed, Goes, Over, Left, TypeOK, Barred, NoStreak, venue
<1>18. ASSUME BundleEmits PROVE Barred'
  BY <1>18 DEF BundleEmits, TypeOK, Barred, locals, venue, history
<1>19. ASSUME NEW t \in Trips, VenueFills(t) PROVE Barred'
  BY <1>19 DEF VenueFills, TypeOK, Barred, locals, files, history
<1>20. ASSUME NEW t \in Trips, VenueCancels(t) PROVE Barred'
  BY <1>20 DEF VenueCancels, TypeOK, Barred, locals, files, history
<1> QED
  BY <1>1, <1>2, <1>3, <1>4, <1>5, <1>6, <1>7, <1>8, <1>9, <1>10, <1>11, <1>12, <1>13,
     <1>14, <1>15, <1>16, <1>17, <1>18, <1>19, <1>20 DEF Next

(* The count of successes. *)
LEMMA TallyStep ==
    ASSUME TypeOK, Barred, Tally, Next
    PROVE  Tally'
<1>1. ASSUME NEW d \in Daemons, CyclePassesGates(d) PROVE Tally'
  BY <1>1 DEF CyclePassesGates, Goes, TypeOK, Tally, After, Counting, Saving, files,
     venue, history
<1>2. ASSUME NEW d \in Daemons, SkipLoads(d) PROVE Tally'
  BY <1>2 DEF SkipLoads, Goes, LoadsState, TypeOK, Tally, After, Counting, Saving,
     files, venue, history
<1>3. ASSUME NEW d \in Daemons, SkipSaves(d) PROVE Tally'
  BY <1>3 DEF SkipSaves, Goes, Over, SavesState, TypeOK, Tally, After, Counting,
     Saving, venue
<1>4. ASSUME NEW d \in Daemons, BuyRefused(d) PROVE Tally'
  BY <1>4 DEF BuyRefused, Goes, Ends, TypeOK, Tally, After, Counting, Saving, venue
<1>5. ASSUME NEW d \in Daemons, BuyAccepted(d) PROVE Tally'
  BY <1>5 DEF BuyAccepted, Goes, BuyReachesVenue, TypeOK, Tally, After, Counting,
     Saving, files, history
<1>6. ASSUME NEW d \in Daemons, BuyUnseen(d) PROVE Tally'
  BY <1>6 DEF BuyUnseen, Goes, BuyReachesVenue, Fails, Ends, TypeOK, Tally, After,
     Counting, Saving
<1>7. ASSUME NEW d \in Daemons, BuySeen(d) PROVE Tally'
  BY <1>7 DEF BuySeen, Goes, TypeOK, Tally, After, Counting, Saving, files, venue,
     history
<1>8. ASSUME NEW d \in Daemons, BuyGivenUp(d) PROVE Tally'
  BY <1>8 DEF BuyGivenUp, Goes, Fails, Ends, TypeOK, Tally, After, Counting, Saving,
     venue
<1>9. ASSUME NEW d \in Daemons, SellToFlat(d) PROVE Tally'
  BY <1>9 DEF SellToFlat, Goes, TypeOK, Tally, After, Counting, Saving, files
<1>10. ASSUME NEW d \in Daemons, Records(d) PROVE Tally'
  <2>1. ~Counting(d) /\ ~Saving(d)
    BY <1>10 DEF Records, Counting, Saving
  <2>2. PICK says \in Reports : Ends(d, trip[d], says)
    BY <1>10 DEF Records
  <2>3. /\ place' = [place EXCEPT ![d] = "reported"]
        /\ report' = [report EXCEPT ![d] = says]
        /\ run' = IF says = "failed" THEN 0 ELSE run + 1
        /\ miscount' = (miscount \/ \E e \in Daemons \ {d} : Counting(e))
        /\ UNCHANGED <<loaded, state>>
    BY <1>10, <2>2 DEF Records, Ends, Goes
  <2>4. /\ \A e \in Daemons : Counting(e)' <=> Counting(e) \/ e = d
        /\ \A e \in Daemons : Saving(e)' <=> Saving(e)
    BY <2>1, <2>3 DEF Counting, Saving, TypeOK
  <2>5. ~miscount' => ~miscount /\ (\A e \in Daemons : ~Counting(e)) /\ state.all = run
    BY <2>1, <2>3 DEF Tally
  <2>6. ~miscount' => run' = After(d)'
    BY <2>3, <2>5 DEF After, TypeOK
  <2> QED
    BY <2>3, <2>4, <2>5, <2>6 DEF Tally
<1>11. ASSUME NEW d \in Daemons, Persists(d) PROVE Tally'
  BY <1>11 DEF Persists, Goes, TypeOK, Tally, After, Counting, Saving, venue, history
<1>12. ASSUME NEW d \in Daemons, CountLoads(d) PROVE Tally'
  <2>1. /\ UNCHANGED <<report, state, run, miscount>> /\ place[d] = "keeping"
        /\ mode[d] = "supervised"
    BY <1>12 DEF CountLoads, files, history, Barred
  <2>2. place' = [place EXCEPT ![d] = "counting"]
    BY <1>12, <2>1 DEF CountLoads, Goes
  <2>3. \E s \in {state, NoStreak} : loaded' = [loaded EXCEPT ![d] = s]
    BY <1>12 DEF CountLoads, LoadsState
  <2>4. (\A e \in Daemons : ~Saving(e)) => loaded' = [loaded EXCEPT ![d] = state]
    BY <1>12 DEF CountLoads, LoadsState
  <2>5. /\ \A e \in Daemons : Counting(e)' <=> Counting(e)
        /\ \A e \in Daemons : Saving(e)' <=> Saving(e) \/ e = d
        /\ ~Saving(d) /\ Counting(d)
    BY <2>1, <2>2 DEF Counting, Saving, TypeOK
  <2>6. ASSUME NEW e \in Daemons, ~miscount, Saving(e)', \A f \in Daemons \ {e} : ~Saving(f)'
        PROVE  loaded'[e].all = state.all
    <3>1. e = d /\ \A f \in Daemons : ~Saving(f)
      BY <2>5, <2>6
    <3> QED
      BY <2>4, <3>1 DEF TypeOK
  <2>7. \A e \in Daemons : After(e)' = After(e)
    BY <2>1 DEF After
  <2> QED
    BY <2>1, <2>5, <2>6, <2>7 DEF Tally
<1>13. ASSUME NEW d \in Daemons, CountSaves(d) PROVE Tally'
  BY <1>13 DEF CountSaves, Goes, SavesState, TypeOK, Tally, After, Counting, Saving,
     NoStreak, Counted, venue
<1>14. ASSUME NEW d \in Daemons, EmitReads(d) PROVE Tally'
  <2>1. place' = [place EXCEPT ![d] = "mapping"] \/ place' = [place EXCEPT ![d] = "stamping"]
    BY <1>14 DEF EmitReads, Goes
  <2>2. \A e \in Daemons : (Counting(e)' <=> Counting(e)) /\ (Saving(e)' <=> Saving(e))
    BY <1>14, <2>1 DEF EmitReads, Counting, Saving, TypeOK
  <2>3. UNCHANGED <<report, state, loaded, run, miscount>>
    BY <1>14 DEF EmitReads, files, history
  <2> QED
    BY <2>2, <2>3 DEF Tally, After
<1>15. ASSUME NEW d \in Daemons, EmitWrites(d) PROVE Tally'
  BY <1>15 DEF EmitWrites, Goes, TypeOK, Tally, After, Counting, Saving, venue, history
<1>16. ASSUME NEW d \in Daemons, Stamps(d) PROVE Tally'
  BY <1>16 DEF Stamps, Goes, Over, TypeOK, Tally, After, Counting, Saving, venue,
     history
<1>17. ASSUME NEW d \in Daemons, Killed(d) PROVE Tally'
  BY <1>17 DEF Killed, Goes, Over, Left, TypeOK, Tally, After, Counting, Saving, venue
<1>18. ASSUME BundleEmits PROVE Tally'
  BY <1>18 DEF BundleEmits, TypeOK, Tally, After, Counting, Saving, locals, venue,
     history
<1>19. ASSUME NEW t \in Trips, VenueFills(t) PROVE Tally'
  BY <1>19 DEF VenueFills, TypeOK, Tally, After, Counting, Saving, locals, files,
     history
<1>20. ASSUME NEW t \in Trips, VenueCancels(t) PROVE Tally'
  BY <1>20 DEF VenueCancels, TypeOK, Tally, After, Counting, Saving, locals, files,
     history
<1> QED
  BY <1>1, <1>2, <1>3, <1>4, <1>5, <1>6, <1>7, <1>8, <1>9, <1>10, <1>11, <1>12, <1>13,
     <1>14, <1>15, <1>16, <1>17, <1>18, <1>19, <1>20 DEF Next

(* The invariant. *)
LEMMA InitHolds == Init => DaemonInv
<1> SUFFICES ASSUME Init PROVE DaemonInv
  OBVIOUS
<1>1. /\ place \in [Daemons -> Places] /\ mode \in [Daemons -> Modes]
      /\ report \in [Daemons -> Reports] /\ outcome \in [Trips -> Reports \cup {"open", "lost"}]
  BY DEF Init, Places, Modes, Reports
<1>2. /\ trip \in [Daemons -> 0 .. MaxTrips] /\ seen \in [Daemons -> 0 .. Full]
      /\ loaded \in [Daemons -> Streaks] /\ found \in [Daemons -> 0 .. MaxTrips]
  BY ConstantsAre DEF Init
<1>3. due \in [Trips -> 0 .. Full] /\ held \in [Trips -> 0 .. Full] /\ kills \in 0 .. MaxKills
  BY ConstantsAre, DaemonAssumption DEF DaemonAssumption, Init
<1>4. TypeOK
  BY <1>1, <1>2, <1>3, ConstantsAre DEF Init, TypeOK
<1>5. Own /\ Tally
  BY DEF Init, Own, OnTrip, Tally, Counting, Saving, NoStreak
<1>6. Stock
  BY DaemonAssumption DEF DaemonAssumption, Init, Stock
<1>7. Flat /\ Earned /\ Barred
  BY DEF Init, Flat, Earned, Barred, NoStreak, Unread, NoTrip
<1> QED
  BY <1>4, <1>5, <1>6, <1>7 DEF DaemonInv

LEMMA DaemonStep == DaemonInv /\ [Next]_vars => DaemonInv'
<1> SUFFICES ASSUME DaemonInv, [Next]_vars PROVE DaemonInv'
  OBVIOUS
<1>1. CASE Next
  BY <1>1, TypeStep, OwnStep, StockStep, FlatStep, EarnedStep, BarredStep, TallyStep
     DEF DaemonInv
<1>2. CASE UNCHANGED vars
  <2>1. UNCHANGED <<place, mode, trip, seen, report, loaded, found>>
    BY <1>2 DEF vars, locals
  <2>2. UNCHANGED <<proof, state, loop, stamp, started, due, held>>
    BY <1>2 DEF vars, files, venue
  <2>3. UNCHANGED <<outcome, sold, short, run, miscount, torn, kills>>
    BY <1>2 DEF vars, history
  <2>4. (TypeOK /\ Own /\ Stock /\ Flat)'
    BY <2>1, <2>2, <2>3 DEF DaemonInv, TypeOK, Own, Stock, Flat, OnTrip
  <2>5. (Earned /\ Barred /\ Tally)'
    BY <2>1, <2>2, <2>3
    DEF DaemonInv, Earned, Proven, Barred, Tally, Counting, Saving, After
  <2> QED
    BY <2>4, <2>5 DEF DaemonInv
<1> QED
  BY <1>1, <1>2

LEMMA DaemonInvHolds == Spec => []DaemonInv
BY InitHolds, DaemonStep, PTL DEF Spec

-----------------------------------------------------------------------------
(* The theorems *)

(* Every variable keeps its type: what a trip holds stays between nothing and *)
(* its lot, so no daemon sells base another trip of the account bought.       *)
THEOREM TypeCorrect == Spec => []TypeOK
<1>1. DaemonInv => TypeOK
  BY DEF DaemonInv
<1> QED
  BY <1>1, DaemonInvHolds, PTL

(* gate_b_file_proves_full_contract: the loop proof is of a trip that was sold *)
(* and satisfied the whole contract, whichever daemon or bundle mapped it.     *)
THEOREM LoopEarned == Spec => []LoopIsEarned
<1>1. DaemonInv => LoopIsEarned
  BY DEF DaemonInv, Earned, Proven, LoopIsEarned
<1> QED
  BY <1>1, DaemonInvHolds, PTL

(* The daemon's stamp never comes before the loop proof whose trade it names, *)
(* and outlives it only when a kill tore that file.                           *)
THEOREM StampFollows == Spec => []StampFollowsLoop
<1>1. DaemonInv => StampFollowsLoop
  BY DEF DaemonInv, Earned, StampFollowsLoop
<1> QED
  BY <1>1, DaemonInvHolds, PTL

(* A trip reported as a success has left nothing at the venue, but for a sell *)
(* seen short of what the buy had bought or had still to fill.                *)
THEOREM SuccessFlat == Spec => []SuccessIsFlat
<1>1. DaemonInv => SuccessIsFlat
  BY DEF DaemonInv, TypeOK, Flat, SuccessIsFlat
<1> QED
  BY <1>1, DaemonInvHolds, PTL

(* The mixed streak counts the successes since the last failure, as long as *)
(* no two daemons counted at once and none was killed before it counted.    *)
THEOREM StreakCounts == Spec => []OkStreakTrue
<1>1. DaemonInv => OkStreakTrue
  BY DEF DaemonInv, Tally, OkStreakTrue
<1> QED
  BY <1>1, DaemonInvHolds, PTL

(* However many cycles are required, one at least: no cycle is autonomous. *)
THEOREM NeverAutonomous == Spec => []AutonomousBarred
<1>1. DaemonInv => AutonomousBarred
  BY DaemonAssumption DEF DaemonAssumption, DaemonInv, Barred, AutonomousBarred
<1> QED
  BY <1>1, DaemonInvHolds, PTL

=============================================================================
