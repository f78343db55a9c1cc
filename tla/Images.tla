------------------------------- MODULE Images -------------------------------
(***************************************************************************)
(* Image placements, crates/xabe-engine/src/image.rs: where the images of  *)
(* a prompt sit in its tokens and which rotary position every token gets.  *)
(* An image is [start, grid_h, grid_w]; positions count from 0.            *)
(***************************************************************************)
EXTENDS Integers, SequencesExt

ImageTokens(img) == img.grid_h * img.grid_w
ImageEnd(img) == img.start + ImageTokens(img)
InImage(img, pos) == img.start <= pos /\ pos < ImageEnd(img)

\* validate_placements.
ValidPlacements(images, prompt_len) ==
    \A i \in DOMAIN images :
        /\ images[i].grid_h > 0 /\ images[i].grid_w > 0
        /\ images[i].start >= (IF i = 1 THEN 0 ELSE ImageEnd(images[i - 1]))
        /\ ImageEnd(images[i]) <= prompt_len

Summed(images, value(_)) == FoldSeq(LAMBDA img, sum : value(img) + sum, 0, images)

\* Mutation: an image counts one token too late.
RopeDeltaAtLate(images, pos) ==
    Summed(images, LAMBDA img :
        IF ImageEnd(img) < pos THEN Max({img.grid_h, img.grid_w}) - ImageTokens(img) ELSE 0)

\* rope_delta_at: an image takes more tokens than rotary time; the difference
\* adds up once the image lies behind.
RopeDeltaAt(images, pos) ==
    Summed(images, LAMBDA img :
        IF ImageEnd(img) <= pos THEN Max({img.grid_h, img.grid_w}) - ImageTokens(img) ELSE 0)

ChunkOverlapsImages(images, start, width) ==
    \E i \in DOMAIN images : images[i].start < start + width /\ start < ImageEnd(images[i])

\* fill_mrope_triples, the triple of one position.
MropeTriple(images, pos) ==
    LET at == SelectSeq(images, LAMBDA img : InImage(img, pos))
        k == pos - at[1].start
        base == at[1].start + RopeDeltaAt(images, at[1].start)
        q == pos + RopeDeltaAt(images, pos)
    IN  IF at # << >> THEN <<base, base + (k \div at[1].grid_w), base + (k % at[1].grid_w)>>
        ELSE <<q, q, q>>

\* The projector row staged for a position, counting from 1; 0: none, the
\* token's own embedding stays.  Rows of all images lie one after the other.
StagedRow(images, pos) ==
    LET at == SelectInSeq(images, LAMBDA img : InImage(img, pos))
    IN  IF at = 0 THEN 0
        ELSE Summed(SubSeq(images, 1, at - 1), ImageTokens) + (pos - images[at].start) + 1

-----------------------------------------------------------------------------
(* The reference, crates/xabe-kernels/src/mrope.rs. *)

\* assign_positions: a token of text takes one unit of rotary time, an image
\* the longer side of its grid.
RotaryTime(images, pos) ==
    Cardinality({p \in 0..(pos - 1) : \A i \in DOMAIN images : ~InImage(images[i], p)})
        + Summed(images, LAMBDA img :
              IF ImageEnd(img) <= pos THEN Max({img.grid_h, img.grid_w}) ELSE 0)

AssignedPosition(images, pos) ==
    LET at == {i \in DOMAIN images : InImage(images[i], pos)}
    IN  IF at = {} THEN [c \in 1..3 |-> RotaryTime(images, pos)]
        ELSE LET img  == images[CHOOSE i \in at : TRUE]
                 base == RotaryTime(images, img.start)
             IN  <<base, base + ((pos - img.start) \div img.grid_w),
                         base + ((pos - img.start) % img.grid_w)>>

\* The patches of all images in the order of the prompt, one row each.
AssignedRow(images, pos) ==
    LET patches == {p \in 0..pos : \E i \in DOMAIN images : InImage(images[i], p)}
    IN  IF pos \in patches THEN Cardinality(patches) ELSE 0

=============================================================================
