------------------------------- MODULE Scoring -------------------------------
(***************************************************************************)
(* The recommendation worker's scoring: a listener's taste from plays,     *)
(* likes and follows, and the tracks and artists it ranks.  Scores are in  *)
(* hundredths, taste in quarters of a completion; a sound is a point of    *)
(* the diagonal of the feature space, in hundredths.                       *)
(***************************************************************************)
EXTENDS Integers, FiniteSets, FiniteSetsExt, Sequences, SequencesExt

CONSTANTS Tracks,       \* naturals: IDs are ordered
          TrackInfo,    \* [artists, album, genres, plays, age, sound] of each
          Albums, Genres, Performers,
          Interactions, \* [plays, completions, skips], as counted in the window
          TopTracks, TopArtists

VARIABLES taste   \* the signals of one listener

NotHeard == [plays |-> 0, completions |-> 0, skips |-> 0]

NoSignals == [history |-> [t \in Tracks |-> NotHeard], likedTracks |-> {}, likedAlbums |-> {}, follows |-> {}]
Empty(s) == /\ \A t \in Tracks : s.history[t] = NotHeard
            /\ s.likedTracks = {} /\ s.likedAlbums = {} /\ s.follows = {}

ScoringInit == taste = NoSignals

\* Signals accumulate, in any order.
ScoringNext ==
  \/ \E t \in Tracks, in \in Interactions : taste.history[t] = NotHeard /\ taste' = [taste EXCEPT !.history[t] = in]
  \/ \E t \in Tracks \ taste.likedTracks : taste' = [taste EXCEPT !.likedTracks = @ \cup {t}]
  \/ \E a \in Albums \ taste.likedAlbums : taste' = [taste EXCEPT !.likedAlbums = @ \cup {a}]
  \/ \E a \in Performers \ taste.follows : taste' = [taste EXCEPT !.follows = @ \cup {a}]

Least(a, b) == IF a < b THEN a ELSE b
Positive(v) == IF v > 0 THEN v ELSE 0
Clamp01(v) == Least(100, Positive(v))
\* math.Sqrt of v, rounded down and at most 100.
Sqrt(v) == CHOOSE r \in 0..100 : r * r <= v /\ (r = 100 \/ (r + 1) * (r + 1) > v)
\* math.Log1p in hundredths.
Log1p(n) == <<0, 69, 110, 139, 161>>[n + 1]

Heard(s) == {t \in Tracks : s.history[t] # NotHeard}
OnAlbum(a) == {t \in Tracks : TrackInfo[t].album = a}

\* Mutant of Weight: a skipped play is an open one.
WeightOpenSkips(s, t) ==
  LET in == s.history[t] IN 4 * in.completions + (in.plays - Least(in.plays, in.completions))
                              + (IF t \in s.likedTracks THEN 12 ELSE 0)
\* What the plays of a track, and its like, say about it.
Weight(s, t) ==
  LET in == s.history[t] IN
  4 * in.completions - 4 * in.skips + (in.plays - Least(in.plays, in.completions + in.skips))
    + (IF t \in s.likedTracks THEN 12 ELSE 0)
\* Tracks that say something, each once; and liked albums, by their first track.
TrackWeights(s) == {<<t, Weight(s, t)>> : t \in Heard(s) \cup s.likedTracks}
AlbumWeights(s) == {<<Min(OnAlbum(a)), 8>> : a \in {b \in s.likedAlbums : OnAlbum(b) # {}}}
SumOf(pairs) == FoldSet(LAMBDA p, acc : acc + p[2], 0, pairs)

\* The sums that Profile keeps per artist and per genre.
ArtistTaste(s, a) ==
  LET by(pairs) == {p \in pairs : a \in TrackInfo[p[1]].artists}
  IN SumOf(by(TrackWeights(s))) + SumOf(by(AlbumWeights(s))) + (IF a \in s.follows THEN 12 ELSE 0)
GenreTaste(s, g) ==
  LET of(pairs) == {p \in pairs : g \in TrackInfo[p[1]].genres}
  IN SumOf(of(TrackWeights(s))) + SumOf(of(AlbumWeights(s)))

MaxArtist(s) == Max({0} \cup {ArtistTaste(s, a) : a \in Performers})
GenreNorm2(s) == FoldSet(LAMBDA g, acc : acc + Positive(GenreTaste(s, g)) * Positive(GenreTaste(s, g)), 0, Genres)

\* The mean sound of what the listener likes, of the analyzer version with the
\* most weight; versions are not comparable.
NoSound == [version |-> "", v |-> 0]
SoundOf(s) ==
  LET liked == {p \in TrackWeights(s) : p[2] > 0 /\ TrackInfo[p[1]].sound # NoSound}
      of(v) == {p \in liked : TrackInfo[p[1]].sound.version = v}
      versions == {TrackInfo[p[1]].sound.version : p \in liked}
      best == CHOOSE v \in versions : \A w \in versions : SumOf(of(w)) <= SumOf(of(v))
  IN IF liked = {} THEN NoSound
     ELSE [version |-> best,
           v |-> FoldSet(LAMBDA p, acc : acc + p[2] * TrackInfo[p[1]].sound.v, 0, of(best)) \div SumOf(of(best))]

\* Tracks that are never recommended.
Exclude(s) ==
  s.likedTracks \cup UNION {OnAlbum(a) : a \in s.likedAlbums}
    \cup {t \in Heard(s) : s.history[t].skips > s.history[t].completions}
Familiar(s) == {t \in Heard(s) : s.history[t].completions > 0}

SoundSimilarity(a, b) == Clamp01(100 - (IF a > b THEN a - b ELSE b - a))
Popularity(t) == LET m == Max({TrackInfo[u].plays : u \in Tracks})
                 IN IF m = 0 THEN 0 ELSE (100 * Log1p(TrackInfo[t].plays)) \div Log1p(m)
\* Half of it is gone every half-life.
Freshness(t) == 100 \div 2^TrackInfo[t].age

ArtistPart(s, t) ==
  LET aff == FoldSet(LAMBDA a, acc : acc + Positive(ArtistTaste(s, a)), 0, TrackInfo[t].artists)
  IN IF MaxArtist(s) = 0 THEN 0 ELSE Clamp01((100 * aff) \div MaxArtist(s))
GenrePart(s, t) ==
  LET gs == TrackInfo[t].genres
      dot == FoldSet(LAMBDA g, acc : acc + Positive(GenreTaste(s, g)), 0, gs)
  IN IF GenreNorm2(s) = 0 \/ gs = {} THEN 0 ELSE Sqrt((10000 * dot * dot) \div (GenreNorm2(s) * Cardinality(gs)))
Style(s, t) ==
  IF SoundOf(s) # NoSound /\ SoundOf(s).version = TrackInfo[t].sound.version
  THEN (7 * GenrePart(s, t) + 3 * SoundSimilarity(SoundOf(s).v, TrackInfo[t].sound.v)) \div 10
  ELSE GenrePart(s, t)

\* components, score and the penalty for what is already familiar; in 1/10000.
ScoreOf(s, t) ==
  (35 * Style(s, t) + 30 * ArtistPart(s, t) + 20 * Popularity(t) + 15 * Freshness(t))
    \div (IF t \in Familiar(s) THEN 2 ELSE 1)

\* top: by score, ties by ID.
Ranks(a, b) == a[2] > b[2] \/ (a[2] = b[2] /\ a[1] < b[1])
Top(scored, n) == LET q == SetToSortSeq(scored, Ranks) IN SubSeq(q, 1, Least(n, Len(q)))

ScoredTracks(s) == {<<t, ScoreOf(s, t)>> : t \in Tracks \ Exclude(s)}
\* An artist scores as its best track.
ScoredArtists(s) ==
  {<<a, Max({p[2] : p \in {q \in ScoredTracks(s) : a \in TrackInfo[q[1]].artists}})>> :
     a \in UNION {TrackInfo[p[1]].artists : p \in ScoredTracks(s)}}
Recommend(s) == [tracks |-> Top(ScoredTracks(s), TopTracks), artists |-> Top(ScoredArtists(s), TopArtists)]

\* The set without signals: popular and fresh tracks, artists by plays.
ArtistPlays(a) == FoldSet(LAMBDA t, acc : acc + TrackInfo[t].plays, 0, {t \in Tracks : a \in TrackInfo[t].artists})
Popular ==
  [tracks |-> Top({<<t, 70 * Popularity(t) + 30 * Freshness(t)>> : t \in Tracks}, TopTracks),
   artists |-> LET m == Max({ArtistPlays(a) : a \in Performers})
               IN Top({<<a, IF m = 0 THEN 0 ELSE (100 * Log1p(ArtistPlays(a))) \div Log1p(m)>> : a \in Performers},
                      TopArtists)]

-----------------------------------------------------------------------------
\* Scores, of the personal and of the popular set, stay within 0 and 1: the
\* weights sum to one and every component is clamped.  (Build scores only
\* listeners who gave a signal, here and below.)
ScoresInRange ==
  ~ Empty(taste) =>
  /\ \A t \in Tracks : ScoreOf(taste, t) \in 0..10000
  /\ \A i \in 1..Len(Popular.tracks) : Popular.tracks[i][2] \in 0..10000

\* What the listener likes, has on a liked album or skips more often than
\* finishes is not recommended; everything else is, unless better tracks fill
\* the set: no track left out beats one that is in.
BestOfTheRest ==
  ~ Empty(taste) =>
  LET in == {Recommend(taste).tracks[i][1] : i \in 1..Len(Recommend(taste).tracks)}
      barred == {t \in Tracks : \/ t \in taste.likedTracks \/ TrackInfo[t].album \in taste.likedAlbums
                                \/ taste.history[t].skips > taste.history[t].completions}
  IN /\ in \cap barred = {}
     /\ Cardinality(in) = Least(TopTracks, Cardinality(Tracks \ barred))
     /\ \A t \in in, u \in Tracks \ (barred \cup in) : ScoreOf(taste, t) >= ScoreOf(taste, u)

\* To follow an artist never lowers the score of the artist's tracks, though
\* it raises the norm that all artists are divided by.
FollowHelps ==
  ~ Empty(taste) =>
  \A a \in Performers : \A t \in {u \in Tracks : a \in TrackInfo[u].artists} :
    ScoreOf([taste EXCEPT !.follows = @ \cup {a}], t) >= ScoreOf(taste, t)

\* Another skip never raises the score of the track that was skipped (of one
\* analyzer version: with two it may change which version counts).
SkipNeverHelps ==
  ~ Empty(taste) =>
  \A t \in Tracks : ScoreOf([taste EXCEPT !.history[t].skips = @ + 1, !.history[t].plays = @ + 1], t)
                      <= ScoreOf(taste, t)

\* Scoring (scoring.go) ranks: in range, best first, and a signal moves a
\* score in its own direction.
RankingSound == ScoresInRange /\ BestOfTheRest /\ FollowHelps /\ SkipNeverHelps
=============================================================================
